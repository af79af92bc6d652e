---------------------------- MODULE AccountsProofs ----------------------------
(***************************************************************************)
(* Theorems about Accounts, for every set of accounts, passwords, links,   *)
(* sessions and concurrent requests, and every limit.                      *)
(***************************************************************************)
EXTENDS Accounts, FiniteSetTheorems, TLAPS

(* The statements of each operation. *)
Flow ==
    [Register |-> {"insert", "commit", "send"},
     Import   |-> {"check", "insert", "commit"},
     Login    |-> {"count", "account", "commit", "upgrade"},
     Resend   |-> {"find", "link", "send"},
     Forgot   |-> {"find", "link", "send"},
     Activate |-> {"account", "commit"},
     Disable  |-> {"account", "scan", "delete", "commit"},
     Verify   |-> {"use", "account", "commit"},
     Reset    |-> {"use", "account", "scan", "delete", "commit"},
     Change   |-> {"account", "scan", "delete", "commit"}]

LinkOps == {"Verify", "Reset"}

(* A request under way is at a statement of its operation, and has what its *)
(* statements need.                                                         *)
Running(q) ==
    /\ q \in ReqState
    /\ q.op \in DOMAIN Flow
    /\ q.pc \in Flow[q.op]
    /\ q.email \in Emails
    /\ q.op \in Inserts => q.next \in AccountRows
    /\ q.op \in {"Login", "Change"} => q.secret \in Secrets
    /\ q.op \in {"Reset", "Change"} => q.next \in Secrets
    /\ IF q.op \in LinkOps THEN q.link \in Links
       ELSE q.pc = "send" \/ q.link = None
    /\ q.pc # "delete" => q.todo = {}

TablesTyped ==
    /\ account \in [Emails -> AccountRows \cup {None}]
    /\ link \in [Links -> LinkRows \cup {None}]
    /\ session \in [Sessions -> SessionRows \cup {None}]
    /\ attempts \in [Emails -> 0..(Limit + 1)]
    /\ compared \in [Emails -> Int]

LocksTyped ==
    /\ accountLock \in [Emails -> Requests \cup {None}]
    /\ linkLock \in [Links -> Requests \cup {None}]

RequestsTyped ==
    /\ req \in [Requests -> ReqState]
    /\ \A r \in Requests : req[r] = Idle \/ Running(req[r])

Types == TablesTyped /\ LocksTyped /\ RequestsTyped

(* Past the statement that locks its account a request holds the account,   *)
(* and nobody else ever does.                                               *)
Holds(r) == req[r].op \notin Inserts /\ req[r].pc \in {"scan", "delete", "commit"}

AccountLocksOK ==
    \A r \in Requests, e \in Emails :
      accountLock[e] = r <=> Holds(r) /\ req[r].email = e

(* What LockAccount has found in the row is still so. *)
Found(q, a) ==
    /\ a # None
    /\ q.op = "Login" => a.secret = q.secret /\ a.status # "disabled"
    /\ q.op = "Change" => a.secret = q.secret

RowsOK ==
    \A r \in Requests :
      /\ Holds(r) => Found(req[r], account[Email(r)])
      /\ req[r].pc = "upgrade" => account[Email(r)] # None

(* The account a request is to insert does not exist, and no other request  *)
(* is to insert it.                                                         *)
Inserting(r) == req[r].op \in Inserts /\ req[r].pc = "commit"

InsertsOK ==
    \A r \in Requests : Inserting(r) =>
      /\ account[Email(r)] = None
      /\ \A s \in Requests \ {r} : Inserting(s) => Email(s) # Email(r)

(* A session belongs to an account that is not disabled, and was opened     *)
(* with its password.                                                       *)
SessionsOK ==
    \A s \in Sessions : session[s] # None =>
      LET a == account[session[s].email]
      IN  a # None /\ session[s].secret = a.secret /\ a.status # "disabled"

(* Whoever follows a link has locked it, and it is there; other locks are   *)
(* those of a deletion.                                                     *)
UsesLink(r) == req[r].op \in LinkOps /\ req[r].pc # "use"

LinkLocksOK ==
    /\ \A r \in Requests : UsesLink(r) =>
         linkLock[req[r].link] = r /\ link[req[r].link] # None
    /\ \A r \in Requests, l \in Links : linkLock[l] = r =>
         \/ UsesLink(r) /\ req[r].link = l
         \/ req[r].op \in EndsSessions /\ req[r].pc = "commit"

(* A link does not change its kind nor its account in anybody's hands: a    *)
(* request follows one of its own kind and account, and deletes links to    *)
(* reset a password.                                                        *)
KindsOK ==
    \A r \in Requests :
      /\ req[r].op \in LinkOps /\ link[req[r].link] # None =>
           /\ link[req[r].link].kind = IF req[r].op = "Reset" THEN "reset" ELSE "verify"
           /\ link[req[r].link].email = req[r].email
      /\ \A l \in req[r].todo : link[l] # None => link[l].kind = "reset"

(* A Change has seen every link to reset the password, then locked it.      *)
SweepsOK ==
    \A r \in Requests : req[r].op = "Change" =>
      /\ req[r].pc = "delete" => Deletes(r) \subseteq req[r].todo
      /\ req[r].pc = "commit" => \A l \in Deletes(r) : linkLock[l] = r

AccountsInv ==
    /\ Types
    /\ AccountLocksOK
    /\ RowsOK
    /\ InsertsOK
    /\ SessionsOK
    /\ LinkLocksOK
    /\ KindsOK
    /\ SweepsOK

-----------------------------------------------------------------------------
(***************************************************************************)
(* Requests that go on, and requests that end.                             *)
(***************************************************************************)
LEMMA IdleTyped == Idle \in ReqState
  BY DEF Idle, ReqState, Operations, Statements

(* What is known of a request under way. *)
LEMMA AtStatement ==
    ASSUME RequestsTyped, NEW r \in Requests, req[r].pc # "idle"
    PROVE  Running(req[r])
  BY DEF RequestsTyped, Idle

(* A step of r replaces the state of r, and of no other request. *)
LEMMA OneRequest ==
    ASSUME RequestsTyped, NEW r \in Requests, NEW q, q = Idle \/ Running(q),
           req' = [req EXCEPT ![r] = q]
    PROVE  /\ RequestsTyped'
           /\ req'[r] = q
           /\ \A s \in Requests \ {r} : req'[s] = req[s]
<1>1. q \in ReqState
  BY IdleTyped DEF Running
<1> QED BY <1>1 DEF RequestsTyped

LEMMA NextStatement ==
    ASSUME RequestsTyped, NEW r \in Requests, req[r].pc # "idle",
           NEW statement, GoTo(r, statement), statement \in Flow[req[r].op],
           statement # "send", statement = "delete" \/ req[r].todo = {},
           req[r].pc # "send"
    PROVE  LET q == [req[r] EXCEPT !.pc = statement]
           IN  Running(q) /\ req' = [req EXCEPT ![r] = q]
<1>1. Running(req[r])
  BY AtStatement
<1>2. statement \in Statements
  BY <1>1 DEF Running, Flow, Statements
<1> QED BY <1>1, <1>2 DEF Running, ReqState, GoTo, RequestsTyped

(* A request that ends gives back its locks and nobody else's. *)
LEMMA LocksFreed ==
    ASSUME LocksTyped, NEW r \in Requests, ReleaseLocks(r)
    PROVE  /\ LocksTyped'
           /\ \A e \in Emails : accountLock'[e] = IF accountLock[e] = r THEN None
                                                  ELSE accountLock[e]
           /\ \A l \in Links : linkLock'[l] = IF linkLock[l] = r THEN None
                                              ELSE linkLock[l]
  BY DEF LocksTyped, ReleaseLocks, Freed

LEMMA EndOfRequest ==
    ASSUME AccountsInv, NEW r \in Requests, End(r), TablesTyped',
           UNCHANGED <<account, link, session>>
    PROVE  AccountsInv'
<1>1. /\ RequestsTyped'
      /\ req'[r] = Idle
      /\ \A s \in Requests \ {r} : req'[s] = req[s]
  BY OneRequest DEF AccountsInv, Types, End
<1>2. /\ LocksTyped'
      /\ \A e \in Emails : accountLock'[e] = IF accountLock[e] = r THEN None
                                             ELSE accountLock[e]
      /\ \A l \in Links : linkLock'[l] = IF linkLock[l] = r THEN None
                                         ELSE linkLock[l]
  BY LocksFreed DEF AccountsInv, Types, End
<1>3. UNCHANGED <<account, link, session>>
  OBVIOUS
<1>4. Idle.op = "none" /\ Idle.pc = "idle" /\ Idle.todo = {}
  BY DEF Idle
<1>5. Types'
  BY <1>1, <1>2 DEF Types
<1>6. AccountLocksOK'
  BY <1>1, <1>2, <1>4, ConstantsAssumption DEF AccountsInv, AccountLocksOK, Holds
<1>7. RowsOK'
  BY <1>1, <1>3, <1>4 DEF AccountsInv, RowsOK, Holds, Found, Email
<1>8. InsertsOK'
  BY <1>1, <1>3, <1>4 DEF AccountsInv, InsertsOK, Inserting, Inserts, Email
<1>9. SessionsOK'
  BY <1>3 DEF AccountsInv, SessionsOK
<1>10. LinkLocksOK'
  <2>1. \A s \in Requests : UsesLink(s)' => s # r /\ UsesLink(s)
    BY <1>1, <1>4 DEF UsesLink, LinkOps
  <2>2. \A s \in Requests : UsesLink(s) => req[s].link \in Links
    BY DEF AccountsInv, Types, RequestsTyped, UsesLink, Idle, Running, LinkOps
  <2> QED
    BY <1>1, <1>2, <1>3, <2>1, <2>2, ConstantsAssumption
       DEF AccountsInv, LinkLocksOK, UsesLink, EndsSessions
<1>11. KindsOK'
  BY <1>1, <1>3, <1>4 DEF AccountsInv, KindsOK, LinkOps
<1>12. SweepsOK'
  BY <1>1, <1>2, <1>3, <1>4 DEF AccountsInv, SweepsOK, Deletes, Email
<1> QED BY <1>5, <1>6, <1>7, <1>8, <1>9, <1>10, <1>11, <1>12 DEF AccountsInv

LEMMA EndInv ==
    ASSUME AccountsInv, NEW r \in Requests, End(r), UNCHANGED tables
    PROVE  AccountsInv'
  BY EndOfRequest DEF AccountsInv, Types, TablesTyped, tables

(* Logins under way can be counted. *)
LEMMA LetThroughFinite ==
    ASSUME NEW e
    PROVE  IsFiniteSet(LetThrough(e)) /\ Cardinality(LetThrough(e)) \in Nat
<1>1. LetThrough(e) \in SUBSET Requests
  BY DEF LetThrough
<1> QED BY <1>1, FS_Subset, FS_CardinalityType, ConstantsAssumption

(* Statements before a request has locked or found anything. *)
Early == {"check", "insert", "find", "link", "count", "account", "use"}

(* A request begins, or goes on before it has locked or found anything. *)
LEMMA EarlyInv ==
    ASSUME AccountsInv, NEW r \in Requests, NEW q, Running(q),
           req' = [req EXCEPT ![r] = q],
           req[r].pc \in {"idle", "check", "find", "count"}, q.pc \in Early,
           q.op \in LinkOps =>
             /\ q.pc = "use"
             /\ link[q.link] # None =>
                  /\ link[q.link].kind = IF q.op = "Reset" THEN "reset" ELSE "verify"
                  /\ link[q.link].email = q.email,
           UNCHANGED <<account, link, session, locks>>, TablesTyped'
    PROVE  AccountsInv'
<1>1. /\ RequestsTyped'
      /\ req'[r] = q
      /\ \A s \in Requests \ {r} : req'[s] = req[s]
  BY OneRequest DEF AccountsInv, Types
<1>2. q.todo = {}
  BY DEF Running, Early
<1>3. ~Holds(r) /\ ~Holds(r)' /\ ~Inserting(r)' /\ ~UsesLink(r)'
  BY <1>1 DEF Holds, Inserting, UsesLink, Early
<1>4. ~UsesLink(r)
  <2>1. CASE req[r] = Idle
    BY <2>1 DEF UsesLink, Idle, LinkOps
  <2>2. CASE Running(req[r])
    <3>1. req[r].pc \in Flow[req[r].op] /\ req[r].op \in DOMAIN Flow
      BY <2>2 DEF Running
    <3> QED BY <3>1 DEF UsesLink, LinkOps, Flow
  <2> QED BY <2>1, <2>2 DEF AccountsInv, Types, RequestsTyped
<1>5. UNCHANGED <<account, link, session, accountLock, linkLock>>
  BY DEF locks
<1>6. Types'
  BY <1>1, <1>5 DEF AccountsInv, Types, LocksTyped
<1>7. AccountLocksOK'
  BY <1>1, <1>3, <1>5 DEF AccountsInv, AccountLocksOK, Holds
<1>8. RowsOK'
  BY <1>1, <1>3, <1>5 DEF AccountsInv, RowsOK, Holds, Found, Email, Early
<1>9. InsertsOK'
  BY <1>1, <1>3, <1>5 DEF AccountsInv, InsertsOK, Inserting, Inserts, Email
<1>10. SessionsOK'
  BY <1>5 DEF AccountsInv, SessionsOK
<1>11. LinkLocksOK'
  BY <1>1, <1>3, <1>4, <1>5 DEF AccountsInv, LinkLocksOK, UsesLink
<1>12. KindsOK'
  BY <1>1, <1>2, <1>5 DEF AccountsInv, KindsOK, LinkOps
<1>13. SweepsOK'
  BY <1>1, <1>5 DEF AccountsInv, SweepsOK, Deletes, Email, Early
<1> QED
  BY <1>6, <1>7, <1>8, <1>9, <1>10, <1>11, <1>12, <1>13 DEF AccountsInv

-----------------------------------------------------------------------------
(***************************************************************************)
(* Beginnings.                                                             *)
(***************************************************************************)
LEMMA BeginInv ==
    ASSUME AccountsInv, NEW r \in Requests, Begin(r) PROVE AccountsInv'
<1> DEFINE Q(op, statement, e, secret, next) ==
             [Idle EXCEPT !.op = op, !.pc = statement, !.email = e,
                          !.secret = secret, !.next = next]
<1>1. ASSUME NEW q, Running(q), req' = [req EXCEPT ![r] = q], q.pc \in Early,
             q.op \notin LinkOps
      PROVE  AccountsInv'
  BY <1>1, EarlyInv DEF Begin, AccountsInv, Types, TablesTyped, tables, locks
<1>2. ASSUME NEW e \in Emails, NEW p \in Secrets,
             Start(r, "Register", "insert", e, None, Registered(p))
      PROVE  AccountsInv'
  <2>1. Running(Q("Register", "insert", e, None, Registered(p)))
    BY DEF Running, ReqState, Idle, Operations, Statements, Flow, Inserts,
           Registered, AccountRows, Statuses, LinkOps
  <2> QED BY <1>1, <1>2, <2>1 DEF Start, Early, LinkOps, Idle
<1>3. ASSUME NEW e \in Emails, NEW user \in LegacyUsers,
             Start(r, "Import", "check", e, None, user)
      PROVE  AccountsInv'
  <2>1. user \in AccountRows
    <3>1. PICK p \in Secrets, status \in Statuses : user = Imported(p, status)
      BY DEF LegacyUsers
    <3>2. (status = "active") \in BOOLEAN
      OBVIOUS
    <3> QED BY <3>1, <3>2 DEF Imported, AccountRows
  <2>2. Running(Q("Import", "check", e, None, user))
    BY <2>1 DEF Running, ReqState, Idle, Operations, Statements, Flow, Inserts, LinkOps
  <2> QED BY <1>1, <1>3, <2>2 DEF Start, Early, LinkOps, Idle
<1>4. ASSUME NEW e \in Emails, NEW p \in Secrets, Start(r, "Login", "count", e, p, None)
      PROVE  AccountsInv'
  <2>1. Running(Q("Login", "count", e, p, None))
    BY DEF Running, ReqState, Idle, Operations, Statements, Flow, Inserts, LinkOps
  <2> QED BY <1>1, <1>4, <2>1 DEF Start, Early, LinkOps, Idle
<1>5. ASSUME NEW e \in Emails, NEW op \in {"Resend", "Forgot"},
             Start(r, op, "find", e, None, None)
      PROVE  AccountsInv'
  <2>1. "find" \in Flow[op] /\ op \in DOMAIN Flow
    BY DEF Flow
  <2>2. Running(Q(op, "find", e, None, None))
    BY <2>1 DEF Running, ReqState, Idle, Operations, Statements, Inserts, LinkOps
  <2> QED BY <1>1, <1>5, <2>2 DEF Start, Early, LinkOps, Idle
<1>6. ASSUME NEW e \in Emails, NEW op \in {"Activate", "Disable"},
             Start(r, op, "account", e, None, None)
      PROVE  AccountsInv'
  <2>1. "account" \in Flow[op] /\ op \in DOMAIN Flow
    BY DEF Flow
  <2>2. Running(Q(op, "account", e, None, None))
    BY <2>1 DEF Running, ReqState, Idle, Operations, Statements, Inserts, LinkOps
  <2> QED BY <1>1, <1>6, <2>2 DEF Start, Early, LinkOps, Idle
<1> QED BY <1>2, <1>3, <1>4, <1>5, <1>6 DEF Begin

LEMMA BeginLinkInv ==
    ASSUME AccountsInv, NEW r \in Requests, BeginLink(r) PROVE AccountsInv'
<1>1. PICK l \in Links, op \in {"Verify", "Reset"} :
        /\ link[l] # None
        /\ (op = "Reset") <=> (link[l].kind = "reset")
        /\ \E next \in IF link[l].kind = "reset" THEN Secrets ELSE {None} :
             req' = [req EXCEPT ![r] =
                       [op |-> op, pc |-> "use", email |-> link[l].email,
                        secret |-> None, next |-> next, link |-> l,
                        late |-> link[l].late, todo |-> {}]]
  BY DEF BeginLink
<1>2. PICK next \in IF link[l].kind = "reset" THEN Secrets ELSE {None} :
        req' = [req EXCEPT ![r] =
                  [op |-> op, pc |-> "use", email |-> link[l].email,
                   secret |-> None, next |-> next, link |-> l,
                   late |-> link[l].late, todo |-> {}]]
  BY <1>1
<1> DEFINE q == [op |-> op, pc |-> "use", email |-> link[l].email,
                 secret |-> None, next |-> next, link |-> l,
                 late |-> link[l].late, todo |-> {}]
<1>3. link[l] \in LinkRows
  BY <1>1 DEF AccountsInv, Types, TablesTyped
<1>4. Running(q)
  BY <1>1, <1>2, <1>3 DEF Running, ReqState, Operations, Statements, Flow, Inserts,
                          LinkOps, LinkRows
<1>5. /\ q.pc \in Early /\ q.pc = "use" /\ q.link = l /\ link[l].email = q.email
      /\ link[l].kind = IF q.op = "Reset" THEN "reset" ELSE "verify"
  BY <1>1, <1>3 DEF Early, LinkRows
<1>6. TablesTyped' /\ UNCHANGED <<account, link, session, locks>>
  BY DEF BeginLink, AccountsInv, Types, TablesTyped, tables, locks
<1> HIDE DEF q
<1> QED BY <1>2, <1>4, <1>5, <1>6, EarlyInv DEF BeginLink, q

LEMMA BeginChangeInv ==
    ASSUME AccountsInv, NEW r \in Requests, BeginChange(r) PROVE AccountsInv'
<1>1. PICK s \in Sessions, current \in Secrets, next \in Secrets :
        /\ SessionAccount(s)
        /\ Start(r, "Change", "account", session[s].email, current, next)
  BY DEF BeginChange
<1> DEFINE q == [Idle EXCEPT !.op = "Change", !.pc = "account",
                   !.email = session[s].email, !.secret = current, !.next = next]
<1>2. session[s].email \in Emails
  BY <1>1 DEF SessionAccount, AccountsInv, Types, TablesTyped, SessionRows
<1>3. Running(q)
  BY <1>2 DEF Running, ReqState, Idle, Operations, Statements, Flow, Inserts, LinkOps
<1>4. q.pc \in Early /\ q.op \notin LinkOps
  BY DEF Early, LinkOps, Idle
<1>5. TablesTyped' /\ UNCHANGED <<account, link, session, locks>>
  BY DEF BeginChange, AccountsInv, Types, TablesTyped, tables, locks
<1> QED BY <1>1, <1>3, <1>4, <1>5, EarlyInv DEF BeginChange, Start

-----------------------------------------------------------------------------
(***************************************************************************)
(* New accounts and links.                                                 *)
(***************************************************************************)
LEMMA CheckImportInv ==
    ASSUME AccountsInv, NEW r \in Requests, CheckImport(r) PROVE AccountsInv'
<1>1. CASE End(r)
  BY <1>1, EndInv DEF CheckImport
<1>2. CASE ~End(r)
  <2> DEFINE q == [req[r] EXCEPT !.pc = "insert"]
  <2>1. Running(req[r]) /\ req[r].pc = "check" /\ GoTo(r, "insert")
    BY <1>2, AtStatement DEF CheckImport, At, AccountsInv, Types
  <2>2. req[r].op = "Import" /\ req[r].todo = {}
    BY <2>1 DEF Running, Flow
  <2>3. Running(q) /\ req' = [req EXCEPT ![r] = q]
    BY <2>1, <2>2, NextStatement DEF Flow, AccountsInv, Types
  <2>4. q.pc = "insert" /\ q.op = "Import"
    BY <2>1, <2>2 DEF Running, ReqState
  <2>5. TablesTyped' /\ UNCHANGED <<account, link, session, locks>>
    BY <1>2 DEF CheckImport, AccountsInv, Types, TablesTyped, tables, locks
  <2> QED BY <2>1, <2>3, <2>4, <2>5, EarlyInv DEF Early, LinkOps
<1> QED BY <1>1, <1>2

LEMMA FindAccountInv ==
    ASSUME AccountsInv, NEW r \in Requests, FindAccount(r) PROVE AccountsInv'
<1>1. CASE End(r)
  BY <1>1, EndInv DEF FindAccount
<1>2. CASE ~End(r)
  <2> DEFINE q == [req[r] EXCEPT !.pc = "link"]
  <2>1. Running(req[r]) /\ req[r].pc = "find" /\ GoTo(r, "link")
    BY <1>2, AtStatement DEF FindAccount, At, AccountsInv, Types
  <2>2. req[r].op \in {"Resend", "Forgot"} /\ req[r].todo = {}
    BY <2>1 DEF Running, Flow
  <2>3. Running(q) /\ req' = [req EXCEPT ![r] = q]
    BY <2>1, <2>2, NextStatement DEF Flow, AccountsInv, Types
  <2>4. q.pc = "link" /\ q.op \in {"Resend", "Forgot"}
    BY <2>1, <2>2 DEF Running, ReqState
  <2>5. TablesTyped' /\ UNCHANGED <<account, link, session, locks>>
    BY <1>2 DEF FindAccount, AccountsInv, Types, TablesTyped, tables, locks
  <2> QED BY <2>1, <2>3, <2>4, <2>5, EarlyInv DEF Early, LinkOps
<1> QED BY <1>1, <1>2

LEMMA CountAttemptInv ==
    ASSUME AccountsInv, NEW r \in Requests, CountAttempt(r) PROVE AccountsInv'
<1>1. Running(req[r]) /\ req[r].pc = "count"
  BY AtStatement DEF CountAttempt, At, AccountsInv, Types
<1>2. req[r].op = "Login" /\ req[r].todo = {} /\ Email(r) \in Emails
  BY <1>1 DEF Running, Flow, Email
<1>3. TablesTyped'
  BY <1>2, ConstantsAssumption
     DEF CountAttempt, Allowed, AccountsInv, Types, TablesTyped
<1>4. CASE End(r)
  BY <1>3, <1>4, EndOfRequest DEF CountAttempt
<1>5. CASE ~End(r)
  <2> DEFINE q == [req[r] EXCEPT !.pc = "account"]
  <2>1. GoTo(r, "account") /\ UNCHANGED <<account, link, session, locks>>
    BY <1>5 DEF CountAttempt, locks
  <2>2. Running(q) /\ req' = [req EXCEPT ![r] = q]
    BY <1>1, <1>2, <2>1, NextStatement DEF Flow, AccountsInv, Types
  <2>3. q.pc = "account" /\ q.op = "Login"
    BY <1>1, <1>2 DEF Running, ReqState
  <2> QED BY <1>1, <1>3, <2>1, <2>2, <2>3, EarlyInv DEF Early, LinkOps
<1> QED BY <1>4, <1>5

LEMMA InsertAccountInv ==
    ASSUME AccountsInv, NEW r \in Requests, InsertAccount(r) PROVE AccountsInv'
<1>1. CASE End(r)
  BY <1>1, EndInv DEF InsertAccount
<1>2. CASE ~End(r)
  <2> DEFINE q == [req[r] EXCEPT !.pc = "commit"]
  <2>1. /\ Running(req[r]) /\ req[r].pc = "insert"
        /\ GoTo(r, "commit") /\ account[Email(r)] = None
    BY <1>2, AtStatement DEF InsertAccount, At, AccountsInv, Types
  <2>2. req[r].op \in Inserts /\ req[r].todo = {} /\ Email(r) \in Emails
    BY <2>1 DEF Running, Flow, Inserts, Email
  <2>3. Running(q) /\ req' = [req EXCEPT ![r] = q]
    BY <2>1, <2>2, NextStatement DEF Flow, Inserts, AccountsInv, Types
  <2>4. /\ q.pc = "commit" /\ q.op = req[r].op /\ q.email = req[r].email
        /\ q.todo = req[r].todo /\ q.link = req[r].link
    BY <2>1 DEF Running, ReqState
  <2> HIDE DEF q
  <2>5. /\ RequestsTyped'
        /\ req'[r] = q
        /\ \A s \in Requests \ {r} : req'[s] = req[s]
    BY <2>3, OneRequest DEF AccountsInv, Types
  <2>6. UNCHANGED <<account, link, session, attempts, compared, accountLock, linkLock>>
    BY <1>2 DEF InsertAccount, tables, locks
  <2>7. \A s \in Requests \ {r} : Inserting(s) => Email(s) # Email(r)
    BY DEF InsertAccount, At, BlockedBy, InsertedBy, Inserting
  <2>8. Types'
    BY <2>5, <2>6 DEF AccountsInv, Types, TablesTyped, LocksTyped
  <2>9. AccountLocksOK'
    BY <2>1, <2>2, <2>4, <2>5, <2>6 DEF AccountsInv, AccountLocksOK, Holds
  <2>10. RowsOK'
    BY <2>2, <2>4, <2>5, <2>6 DEF AccountsInv, RowsOK, Holds, Found, Email
  <2>11. InsertsOK'
    BY <2>1, <2>4, <2>5, <2>6, <2>7 DEF AccountsInv, InsertsOK, Inserting, Email
  <2>12. SessionsOK'
    BY <2>6 DEF AccountsInv, SessionsOK
  <2>13. LinkLocksOK'
    BY <2>1, <2>2, <2>4, <2>5, <2>6
       DEF AccountsInv, LinkLocksOK, UsesLink, LinkOps, Inserts, EndsSessions
  <2>14. KindsOK'
    BY <2>4, <2>5, <2>6 DEF AccountsInv, KindsOK
  <2>15. SweepsOK'
    BY <2>2, <2>4, <2>5, <2>6 DEF AccountsInv, SweepsOK, Deletes, Email, Inserts
  <2> QED
    BY <2>8, <2>9, <2>10, <2>11, <2>12, <2>13, <2>14, <2>15 DEF AccountsInv
<1> QED BY <1>1, <1>2

(* A new link: nobody has it in hand, and its mail is still to be sent.     *)
LEMMA SendingRunning ==
    ASSUME NEW q, Running(q), q.op \in {"Register", "Resend", "Forgot"}, q.todo = {},
           NEW l \in Links
    PROVE  Running([q EXCEPT !.pc = "send", !.link = l])
<1>1. "send" \in Flow[q.op]
  BY DEF Flow
<1>2. q \in ReqState
  BY DEF Running
<1> QED BY <1>1, <1>2 DEF Running, ReqState, Statements, LinkOps

LEMMA LinkAdded ==
    ASSUME AccountsInv, NEW r \in Requests, NEW l \in FreeLinks, AddedLink(r, l),
           Running(req[r]), req[r].op \in {"Register", "Resend", "Forgot"},
           req[r].todo = {}, UNCHANGED <<linkLock>>,
           req' = [req EXCEPT ![r].pc = "send", ![r].link = l]
    PROVE  /\ RequestsTyped' /\ LinkLocksOK' /\ KindsOK'
           /\ req'[r].pc = "send" /\ req'[r].op = req[r].op
           /\ \A s \in Requests \ {r} : req'[s] = req[s]
           /\ link' \in [Links -> LinkRows \cup {None}]
           /\ \A k \in Links \ {l} : link'[k] = link[k]
           /\ link'[l].kind = IF req[r].op = "Forgot" THEN "reset" ELSE "verify"
           /\ link'[l].email = Email(r)
<1> DEFINE q == [req[r] EXCEPT !.pc = "send", !.link = l]
           new == [kind |-> IF req[r].op = "Forgot" THEN "reset" ELSE "verify",
                   email |-> Email(r), late |-> FALSE]
<1>1. l \in Links /\ link[l] = None
  BY DEF FreeLinks
<1>2. /\ \A s \in Requests : req[s].link # l /\ l \notin req[s].todo
      /\ linkLock[l] = None
  BY DEF FreeLinks
<1>3. Running(q)
  BY <1>1, SendingRunning
<1>4. q.pc = "send" /\ q.op = req[r].op /\ q.todo = {} /\ q.email = Email(r)
  BY DEF Running, ReqState, Email
<1>5. req' = [req EXCEPT ![r] = q]
  BY DEF AccountsInv, Types, RequestsTyped
<1> HIDE DEF q
<1>6. /\ RequestsTyped'
      /\ req'[r] = q
      /\ \A s \in Requests \ {r} : req'[s] = req[s]
  BY <1>3, <1>5, OneRequest DEF AccountsInv, Types
<1>7. new \in LinkRows
  BY DEF LinkRows, Running, Email
<1>8. link' = [link EXCEPT ![l] = new]
  BY DEF AddedLink
<1> HIDE DEF new
<1>9. /\ link' \in [Links -> LinkRows \cup {None}]
      /\ \A k \in Links \ {l} : link'[k] = link[k]
      /\ link'[l] = new
  BY <1>1, <1>7, <1>8 DEF AccountsInv, Types, TablesTyped
<1>10. LinkLocksOK'
  <2>1. ~UsesLink(r) /\ ~UsesLink(r)' /\ req[r].op \notin EndsSessions
    BY <1>4, <1>6 DEF UsesLink, LinkOps, EndsSessions
  <2>2. \A s \in Requests : UsesLink(s) => req[s].link \in Links \ {l}
    BY <1>2 DEF AccountsInv, Types, RequestsTyped, UsesLink, Idle, Running, LinkOps
  <2>3. \A s \in Requests : UsesLink(s)' =>
           s # r /\ UsesLink(s) /\ req'[s] = req[s]
    BY <1>6, <2>1 DEF UsesLink
  <2>4. ASSUME NEW s \in Requests, UsesLink(s)'
        PROVE  (linkLock[req[s].link] = s /\ link[req[s].link] # None)'
    <3>1. UsesLink(s) /\ req'[s] = req[s]
      BY <2>3, <2>4
    <3>2. req[s].link \in Links \ {l}
      BY <2>2, <3>1
    <3>3. linkLock[req[s].link] = s /\ link[req[s].link] # None
      BY <3>1 DEF AccountsInv, LinkLocksOK
    <3>4. link'[req[s].link] = link[req[s].link]
      BY <1>9, <3>2
    <3> QED BY <3>1, <3>3, <3>4
  <2>5. \A s \in Requests, k \in Links : linkLock[k] = s => s # r
    BY <2>1 DEF AccountsInv, LinkLocksOK
  <2>6. ASSUME NEW s \in Requests, NEW k \in Links, (linkLock[k] = s)'
        PROVE  (\/ UsesLink(s) /\ req[s].link = k
                \/ req[s].op \in EndsSessions /\ req[s].pc = "commit")'
    <3>1. linkLock[k] = s /\ req'[s] = req[s]
      BY <1>6, <2>5, <2>6
    <3> QED BY <3>1 DEF AccountsInv, LinkLocksOK, UsesLink
  <2> QED BY <2>4, <2>6 DEF LinkLocksOK
<1>11. KindsOK'
  <2>1. ASSUME NEW s \in Requests, (req[s].op \in LinkOps)', (link[req[s].link] # None)'
        PROVE  (/\ link[req[s].link].kind = IF req[s].op = "Reset" THEN "reset" ELSE "verify"
                /\ link[req[s].link].email = req[s].email)'
    <3>1. s # r /\ req[s].op \in LinkOps /\ req'[s] = req[s]
      BY <1>4, <1>6, <2>1 DEF LinkOps
    <3>2. req[s].link \in Links \ {l}
      BY <1>2, <3>1 DEF AccountsInv, Types, RequestsTyped, Idle, Running, LinkOps
    <3> QED BY <1>9, <2>1, <3>1, <3>2 DEF AccountsInv, KindsOK
  <2>2. ASSUME NEW s \in Requests, NEW k \in req'[s].todo, link'[k] # None
        PROVE  link'[k].kind = "reset"
    <3>1. s # r /\ req'[s] = req[s]
      BY <1>4, <1>6, <2>2
    <3>2. k \in Links \ {l}
      BY <1>2, <2>2, <3>1 DEF AccountsInv, Types, RequestsTyped, ReqState
    <3> QED BY <1>9, <2>2, <3>1, <3>2 DEF AccountsInv, KindsOK
  <2> QED BY <2>1, <2>2 DEF KindsOK
<1>12. /\ new.kind = IF req[r].op = "Forgot" THEN "reset" ELSE "verify"
       /\ new.email = Email(r)
  BY DEF new
<1> QED BY <1>4, <1>6, <1>9, <1>10, <1>11, <1>12

LEMMA CommitAccountInv ==
    ASSUME AccountsInv, NEW r \in Requests, CommitAccount(r) PROVE AccountsInv'
<1>1. Running(req[r]) /\ req[r].pc = "commit" /\ req[r].op \in Inserts
  BY AtStatement DEF CommitAccount, At, AccountsInv, Types
<1>2. Email(r) \in Emails /\ req[r].next \in AccountRows /\ req[r].todo = {}
  BY <1>1 DEF Running, Email, Inserts
<1>3. /\ account' = [account EXCEPT ![Email(r)] = req[r].next]
      /\ UNCHANGED <<session, attempts, compared>>
  BY DEF CommitAccount
<1>4. /\ account' \in [Emails -> AccountRows \cup {None}]
      /\ account'[Email(r)] # None
      /\ \A e \in Emails \ {Email(r)} : account'[e] = account[e]
  BY <1>2, <1>3, ConstantsAssumption DEF AccountsInv, Types, TablesTyped
<1>5. /\ Inserting(r) /\ account[Email(r)] = None
      /\ \A s \in Requests \ {r} : Inserting(s) => Email(s) # Email(r)
  BY <1>1 DEF AccountsInv, InsertsOK, Inserting
<1>6. SessionsOK'
  <2>1. \A s \in Sessions : session[s] # None => session[s].email \in Emails
    BY DEF AccountsInv, Types, TablesTyped, SessionRows
  <2> QED BY <1>3, <1>4, <1>5, <2>1 DEF AccountsInv, SessionsOK
<1>7. /\ RequestsTyped' /\ LocksTyped' /\ LinkLocksOK' /\ KindsOK'
      /\ link' \in [Links -> LinkRows \cup {None}]
      /\ req'[r].op \notin {"Login", "Change"} /\ ~Inserting(r)' /\ ~Holds(r)'
      /\ req'[r].pc # "upgrade"
      /\ \A s \in Requests \ {r} : req'[s] = req[s]
      /\ \A e \in Emails : accountLock'[e] = IF accountLock[e] = r THEN None
                                             ELSE accountLock[e]
      /\ \A s \in Requests \ {r} : req[s].op = "Change" => Deletes(s)' \subseteq Deletes(s)
      /\ \A l \in Links, s \in Requests \ {r} : linkLock[l] = s => linkLock'[l] = s
  <2>1. CASE req[r].op = "Register"
    <3>1. PICK l \in FreeLinks :
            /\ AddedLink(r, l)
            /\ req' = [req EXCEPT ![r].pc = "send", ![r].link = l]
      BY <2>1 DEF CommitAccount
    <3>2. UNCHANGED <<accountLock, linkLock>>
      BY <2>1 DEF CommitAccount, locks
    <3>3. /\ RequestsTyped' /\ LinkLocksOK' /\ KindsOK'
          /\ req'[r].pc = "send" /\ req'[r].op = "Register"
          /\ \A s \in Requests \ {r} : req'[s] = req[s]
          /\ link' \in [Links -> LinkRows \cup {None}]
          /\ \A k \in Links \ {l} : link'[k] = link[k]
          /\ link'[l].kind = "verify"
      BY <1>1, <1>2, <2>1, <3>1, <3>2, LinkAdded
    <3>4. \A e \in Emails : accountLock[e] # r
      BY <1>5 DEF AccountsInv, AccountLocksOK, Holds, Inserting
    <3>5. \A s \in Requests \ {r} : Deletes(s)' \subseteq Deletes(s)
      BY <3>3 DEF Deletes, Email
    <3> QED
      BY <3>2, <3>3, <3>4, <3>5
         DEF Holds, Inserting, AccountsInv, Types, LocksTyped
  <2>2. CASE req[r].op = "Import"
    <3>1. End(r) /\ UNCHANGED link
      BY <2>2 DEF CommitAccount
    <3>2. /\ RequestsTyped'
          /\ req'[r] = Idle
          /\ \A s \in Requests \ {r} : req'[s] = req[s]
      BY <3>1, OneRequest DEF AccountsInv, Types, End
    <3>3. /\ LocksTyped'
          /\ \A e \in Emails : accountLock'[e] = IF accountLock[e] = r THEN None
                                                 ELSE accountLock[e]
          /\ \A l \in Links : linkLock'[l] = IF linkLock[l] = r THEN None
                                             ELSE linkLock[l]
      BY <3>1, LocksFreed DEF AccountsInv, Types, End
    <3>4. Idle.op = "none" /\ Idle.pc = "idle" /\ Idle.todo = {}
      BY DEF Idle
    <3>5. LinkLocksOK'
      <4>1. \A s \in Requests : UsesLink(s)' => s # r /\ UsesLink(s)
        BY <3>2, <3>4 DEF UsesLink, LinkOps
      <4>2. \A s \in Requests : UsesLink(s) => req[s].link \in Links
        BY DEF AccountsInv, Types, RequestsTyped, UsesLink, Idle, Running, LinkOps
      <4> QED
        BY <3>1, <3>2, <3>3, <4>1, <4>2, ConstantsAssumption
           DEF AccountsInv, LinkLocksOK, UsesLink, EndsSessions
    <3>6. KindsOK'
      BY <3>1, <3>2, <3>4 DEF AccountsInv, KindsOK, LinkOps
    <3>7. \A s \in Requests \ {r} : Deletes(s)' \subseteq Deletes(s)
      BY <3>1, <3>2 DEF Deletes, Email
    <3> QED
      BY <3>1, <3>2, <3>3, <3>4, <3>5, <3>6, <3>7
         DEF Holds, Inserting, Inserts, AccountsInv, Types, TablesTyped
  <2> QED BY <1>1, <2>1, <2>2 DEF Inserts
<1>8. Types'
  BY <1>3, <1>4, <1>7 DEF Types, TablesTyped, AccountsInv
<1>9. AccountLocksOK'
  BY <1>7, ConstantsAssumption DEF AccountsInv, AccountLocksOK, Holds
<1>10. RowsOK'
  BY <1>4, <1>5, <1>7 DEF AccountsInv, RowsOK, Holds, Found, Email,
                          Types, RequestsTyped, Idle, Running
<1>11. InsertsOK'
  BY <1>4, <1>5, <1>7 DEF AccountsInv, InsertsOK, Inserting, Email,
                          Types, RequestsTyped, Idle, Running
<1>12. SweepsOK'
  BY <1>7 DEF AccountsInv, SweepsOK, Deletes
<1> QED
  BY <1>6, <1>7, <1>8, <1>9, <1>10, <1>11, <1>12 DEF AccountsInv

LEMMA AddLinkInv ==
    ASSUME AccountsInv, NEW r \in Requests, AddLink(r) PROVE AccountsInv'
<1>1. Running(req[r]) /\ req[r].pc = "link"
  BY AtStatement DEF AddLink, At, AccountsInv, Types
<1>2. req[r].op \in {"Resend", "Forgot"} /\ req[r].todo = {}
  BY <1>1 DEF Running, Flow
<1>3. PICK l \in FreeLinks :
        /\ AddedLink(r, l)
        /\ req' = [req EXCEPT ![r].pc = "send", ![r].link = l]
  BY DEF AddLink
<1>4. UNCHANGED <<account, session, attempts, compared, accountLock, linkLock>>
  BY DEF AddLink, locks
<1>5. /\ RequestsTyped' /\ LinkLocksOK' /\ KindsOK'
      /\ req'[r].pc = "send" /\ req'[r].op = req[r].op
      /\ \A s \in Requests \ {r} : req'[s] = req[s]
      /\ link' \in [Links -> LinkRows \cup {None}]
      /\ \A k \in Links \ {l} : link'[k] = link[k]
      /\ link'[l].email = Email(r)
  BY <1>1, <1>2, <1>3, <1>4, LinkAdded
<1>6. Types'
  BY <1>4, <1>5 DEF AccountsInv, Types, TablesTyped, LocksTyped
<1>7. AccountLocksOK'
  BY <1>1, <1>4, <1>5 DEF AccountsInv, AccountLocksOK, Holds
<1>8. RowsOK'
  BY <1>4, <1>5 DEF AccountsInv, RowsOK, Holds, Found, Email
<1>9. InsertsOK'
  BY <1>4, <1>5 DEF AccountsInv, InsertsOK, Inserting, Email
<1>10. SessionsOK'
  BY <1>4 DEF AccountsInv, SessionsOK
<1>11. ASSUME NEW s \in Requests, req[s].op = "Change", req[s].pc \in {"delete", "commit"}
       PROVE  Deletes(s)' \subseteq Deletes(s)
  <2>1. Holds(s) /\ Email(s) \in Emails
    BY <1>11 DEF Holds, Inserts, AccountsInv, Types, RequestsTyped, Idle, Running, Email
  <2>2. accountLock[Email(s)] = s
    BY <2>1 DEF AccountsInv, AccountLocksOK, Email
  <2>3. s # r /\ s # None
    BY <1>1, <1>11, ConstantsAssumption
  <2>4. Email(s) # Email(r)
    BY <1>1, <1>11, <2>2, <2>3 DEF AddLink, At, BlockedBy, KeyLocked, Others
  <2> QED BY <1>5, <2>3, <2>4 DEF Deletes, Email
<1>12. SweepsOK'
  BY <1>2, <1>4, <1>5, <1>11 DEF AccountsInv, SweepsOK, Deletes
<1> QED
  BY <1>5, <1>6, <1>7, <1>8, <1>9, <1>10, <1>12 DEF AccountsInv

-----------------------------------------------------------------------------
(***************************************************************************)
(* Login.                                                                  *)
(***************************************************************************)
LEMMA CreateSessionInv ==
    ASSUME AccountsInv, NEW r \in Requests, CreateSession(r) PROVE AccountsInv'
<1> DEFINE q == IF account[Email(r)].legacy THEN [req[r] EXCEPT !.pc = "upgrade"]
                ELSE Idle
<1>1. Running(req[r]) /\ req[r].pc = "commit" /\ req[r].op = "Login"
  BY AtStatement DEF CreateSession, At, AccountsInv, Types
<1>2. Email(r) \in Emails /\ req[r].secret \in Secrets /\ req[r].todo = {}
  BY <1>1 DEF Running, Email
<1>3. Holds(r) /\ Found(req[r], account[Email(r)])
  BY <1>1 DEF AccountsInv, RowsOK, Holds, Inserts
<1>4. req' = [req EXCEPT ![r] = q]
  BY DEF CreateSession, AccountsInv, Types, RequestsTyped
<1>5. q = Idle \/ Running(q)
  BY <1>1 DEF Running, ReqState, Statements, Flow, Inserts, LinkOps
<1>6. /\ q.pc \in {"idle", "upgrade"} /\ q.todo = {} /\ q.op \in {"none", "Login"}
      /\ q.pc = "upgrade" => q.email = Email(r)
  BY <1>1, <1>2 DEF Running, ReqState, Idle, Email
<1> HIDE DEF q
<1>7. /\ RequestsTyped'
      /\ req'[r] = q
      /\ \A s \in Requests \ {r} : req'[s] = req[s]
  BY <1>4, <1>5, OneRequest DEF AccountsInv, Types
<1>8. /\ LocksTyped'
      /\ \A e \in Emails : accountLock'[e] = IF accountLock[e] = r THEN None
                                             ELSE accountLock[e]
      /\ \A l \in Links : linkLock'[l] = IF linkLock[l] = r THEN None
                                         ELSE linkLock[l]
  BY LocksFreed DEF CreateSession, AccountsInv, Types
<1>9. UNCHANGED <<account, link, attempts, compared>>
  BY DEF CreateSession
<1>10. PICK s \in Sessions :
         session' = [session EXCEPT ![s] = [email |-> Email(r), secret |-> req[r].secret]]
  BY DEF CreateSession
<1>11. Types'
  BY <1>2, <1>7, <1>8, <1>9, <1>10 DEF AccountsInv, Types, TablesTyped, SessionRows
<1>12. AccountLocksOK'
  BY <1>6, <1>7, <1>8, ConstantsAssumption DEF AccountsInv, AccountLocksOK, Holds
<1>13. RowsOK'
  BY <1>3, <1>6, <1>7, <1>9 DEF AccountsInv, RowsOK, Holds, Found, Email
<1>14. InsertsOK'
  BY <1>6, <1>7, <1>9 DEF AccountsInv, InsertsOK, Inserting, Inserts, Email
<1>15. SessionsOK'
  <2>1. /\ session'[s] = [email |-> Email(r), secret |-> req[r].secret]
        /\ \A t \in Sessions \ {s} : session'[t] = session[t]
    BY <1>10 DEF AccountsInv, Types, TablesTyped
  <2> QED
    BY <1>1, <1>3, <1>9, <2>1 DEF AccountsInv, SessionsOK, Found
<1>16. LinkLocksOK'
  <2>1. \A t \in Requests : UsesLink(t)' => t # r /\ UsesLink(t)
    BY <1>6, <1>7 DEF UsesLink, LinkOps
  <2>2. \A t \in Requests : UsesLink(t) => req[t].link \in Links
    BY DEF AccountsInv, Types, RequestsTyped, UsesLink, Idle, Running, LinkOps
  <2> QED
    BY <1>7, <1>8, <1>9, <2>1, <2>2, ConstantsAssumption
       DEF AccountsInv, LinkLocksOK, UsesLink
<1>17. KindsOK'
  BY <1>6, <1>7, <1>9 DEF AccountsInv, KindsOK, LinkOps
<1>18. SweepsOK'
  BY <1>6, <1>7, <1>8, <1>9 DEF AccountsInv, SweepsOK, Deletes, Email
<1> QED
  BY <1>11, <1>12, <1>13, <1>14, <1>15, <1>16, <1>17, <1>18 DEF AccountsInv

LEMMA UpgradeHashInv ==
    ASSUME AccountsInv, NEW r \in Requests, UpgradeHash(r) PROVE AccountsInv'
<1> DEFINE e == Email(r)
<1>1. Running(req[r]) /\ req[r].pc = "upgrade"
  BY AtStatement DEF UpgradeHash, At, AccountsInv, Types
<1>2. e \in Emails /\ account[e] \in AccountRows
  BY <1>1 DEF Running, Email, AccountsInv, Types, TablesTyped, RowsOK
<1>3. /\ account' = [account EXCEPT ![e].legacy =
                       @ /\ account[e].secret # req[r].secret]
      /\ End(r) /\ UNCHANGED <<link, session, attempts, compared>>
  BY DEF UpgradeHash
<1>4. (account[e].legacy /\ account[e].secret # req[r].secret) \in BOOLEAN
  BY <1>2 DEF AccountRows
<1>5. /\ account' \in [Emails -> AccountRows \cup {None}]
      /\ account'[e].secret = account[e].secret
      /\ account'[e].status = account[e].status
      /\ account'[e] \in AccountRows
      /\ \A d \in Emails \ {e} : account'[d] = account[d]
  BY <1>2, <1>3, <1>4 DEF AccountsInv, Types, TablesTyped, AccountRows
<1>6. account[e] # None /\ account'[e] # None
  BY <1>2, <1>5, ConstantsAssumption
<1> HIDE DEF e
<1>7. /\ RequestsTyped'
      /\ req'[r] = Idle
      /\ \A s \in Requests \ {r} : req'[s] = req[s]
  BY <1>3, OneRequest DEF AccountsInv, Types, End
<1>8. /\ LocksTyped'
      /\ \A d \in Emails : accountLock'[d] = IF accountLock[d] = r THEN None
                                             ELSE accountLock[d]
      /\ \A l \in Links : linkLock'[l] = IF linkLock[l] = r THEN None
                                         ELSE linkLock[l]
  BY <1>3, LocksFreed DEF AccountsInv, Types, End
<1>9. Idle.op = "none" /\ Idle.pc = "idle" /\ Idle.todo = {}
  BY DEF Idle
<1>10. \A s \in Requests \ {r} : req[s].pc # "idle" => Email(s) \in Emails
  BY DEF AccountsInv, Types, RequestsTyped, Idle, Running, Email
<1>11. Types'
  BY <1>3, <1>5, <1>7, <1>8 DEF AccountsInv, Types, TablesTyped
<1>12. AccountLocksOK'
  BY <1>7, <1>8, <1>9, ConstantsAssumption DEF AccountsInv, AccountLocksOK, Holds
<1>13. RowsOK'
  BY <1>5, <1>6, <1>7, <1>9, <1>10 DEF AccountsInv, RowsOK, Holds, Found, Email
<1>14. InsertsOK'
  BY <1>5, <1>6, <1>7, <1>9, <1>10
     DEF AccountsInv, InsertsOK, Inserting, Inserts, Email
<1>15. SessionsOK'
  <2>1. \A s \in Sessions : session[s] # None => session[s].email \in Emails
    BY DEF AccountsInv, Types, TablesTyped, SessionRows
  <2> QED BY <1>3, <1>5, <1>6, <2>1 DEF AccountsInv, SessionsOK
<1>16. LinkLocksOK'
  <2>1. \A s \in Requests : UsesLink(s)' => s # r /\ UsesLink(s)
    BY <1>7, <1>9 DEF UsesLink, LinkOps
  <2>2. \A s \in Requests : UsesLink(s) => req[s].link \in Links
    BY DEF AccountsInv, Types, RequestsTyped, UsesLink, Idle, Running, LinkOps
  <2> QED
    BY <1>3, <1>7, <1>8, <2>1, <2>2, ConstantsAssumption
       DEF AccountsInv, LinkLocksOK, UsesLink, EndsSessions
<1>17. KindsOK'
  BY <1>3, <1>7, <1>9 DEF AccountsInv, KindsOK, LinkOps
<1>18. SweepsOK'
  BY <1>3, <1>7, <1>8, <1>9 DEF AccountsInv, SweepsOK, Deletes, Email
<1> QED
  BY <1>11, <1>12, <1>13, <1>14, <1>15, <1>16, <1>17, <1>18 DEF AccountsInv

-----------------------------------------------------------------------------
(***************************************************************************)
(* Links, passwords and the account's status.                              *)
(***************************************************************************)
LEMMA UseLinkInv ==
    ASSUME AccountsInv, NEW r \in Requests, UseLink(r) PROVE AccountsInv'
<1>1. CASE End(r)
  BY <1>1, EndInv DEF UseLink
<1>2. CASE ~End(r)
  <2> DEFINE q == [req[r] EXCEPT !.pc = "account"]
             l == req[r].link
  <2>1. /\ Running(req[r]) /\ req[r].pc = "use"
        /\ link[l] # None /\ linkLock[l] \in {None, r}
        /\ linkLock' = [linkLock EXCEPT ![l] = r]
        /\ GoTo(r, "account") /\ UNCHANGED accountLock
    BY <1>2, AtStatement DEF UseLink, At, BlockedBy, Others, AccountsInv, Types
  <2>2. req[r].op \in LinkOps /\ req[r].todo = {} /\ l \in Links
    BY <2>1 DEF Running, Flow, LinkOps
  <2>3. "account" \in Flow[req[r].op]
    BY <2>2 DEF Flow, LinkOps
  <2>4. Running(q) /\ req' = [req EXCEPT ![r] = q]
    BY <2>1, <2>2, <2>3, NextStatement DEF AccountsInv, Types
  <2>5. /\ q.pc = "account" /\ q.op = req[r].op /\ q.email = req[r].email
        /\ q.todo = {} /\ q.link = l
    BY <2>1, <2>2 DEF Running, ReqState
  <2> HIDE DEF q, l
  <2>6. /\ RequestsTyped'
        /\ req'[r] = q
        /\ \A s \in Requests \ {r} : req'[s] = req[s]
    BY <2>4, OneRequest DEF AccountsInv, Types
  <2>7. UNCHANGED <<account, link, session, attempts, compared, accountLock>>
    BY <2>1 DEF UseLink, tables
  <2>8. /\ LocksTyped'
        /\ linkLock'[l] = r
        /\ \A k \in Links \ {l} : linkLock'[k] = linkLock[k]
    BY <2>1, <2>2, <2>7 DEF AccountsInv, Types, LocksTyped
  <2>9. Types'
    BY <2>6, <2>7, <2>8 DEF AccountsInv, Types, TablesTyped
  <2>10. AccountLocksOK'
    BY <2>1, <2>5, <2>6, <2>7 DEF AccountsInv, AccountLocksOK, Holds
  <2>11. RowsOK'
    BY <2>5, <2>6, <2>7 DEF AccountsInv, RowsOK, Holds, Found, Email
  <2>12. InsertsOK'
    BY <2>5, <2>6, <2>7 DEF AccountsInv, InsertsOK, Inserting, Email
  <2>13. SessionsOK'
    BY <2>7 DEF AccountsInv, SessionsOK
  <2>14. LinkLocksOK'
    <3>1. \A s \in Requests : UsesLink(s) => req[s].link \in Links
      BY DEF AccountsInv, Types, RequestsTyped, UsesLink, Idle, Running, LinkOps
    <3>2. UsesLink(r)' /\ req'[r].link = l
      BY <2>2, <2>5, <2>6 DEF UsesLink
    <3>3. \A s \in Requests \ {r} : UsesLink(s)' <=> UsesLink(s)
      BY <2>6 DEF UsesLink
    <3>4. \A s \in Requests \ {r} : UsesLink(s) => req[s].link # l
      BY <2>1, ConstantsAssumption DEF AccountsInv, LinkLocksOK
    <3>5. ~UsesLink(r)
      BY <2>1 DEF UsesLink
    <3>6. \A s \in Requests : UsesLink(s)' =>
            (linkLock[req[s].link] = s /\ link[req[s].link] # None)'
      BY <2>1, <2>6, <2>7, <2>8, <3>1, <3>2, <3>3, <3>4 DEF AccountsInv, LinkLocksOK
    <3>7. ASSUME NEW s \in Requests, NEW k \in Links, (linkLock[k] = s)'
          PROVE  (\/ UsesLink(s) /\ req[s].link = k
                  \/ req[s].op \in EndsSessions /\ req[s].pc = "commit")'
      <4>1. CASE s = r
        <5>1. k = l
          BY <2>1, <2>8, <3>5, <3>7, <4>1 DEF AccountsInv, LinkLocksOK
        <5> QED BY <3>2, <4>1, <5>1
      <4>2. CASE s # r
        BY <2>6, <2>8, <3>3, <3>7, <4>2 DEF AccountsInv, LinkLocksOK
      <4> QED BY <4>1, <4>2
    <3> QED BY <3>6, <3>7 DEF LinkLocksOK
  <2>15. KindsOK'
    BY <2>5, <2>6, <2>7 DEF AccountsInv, KindsOK, l
  <2>16. SweepsOK'
    <3>1. \A s \in Requests \ {r}, k \in Links : linkLock[k] = s => linkLock'[k] = s
      BY <2>1, <2>8, ConstantsAssumption
    <3>2. \A s \in Requests : Deletes(s) \subseteq Links
      BY DEF Deletes
    <3> QED
      BY <2>2, <2>5, <2>6, <2>7, <3>1, <3>2
         DEF AccountsInv, SweepsOK, Deletes, Email, LinkOps
  <2> QED
    BY <2>9, <2>10, <2>11, <2>12, <2>13, <2>14, <2>15, <2>16 DEF AccountsInv
<1> QED BY <1>1, <1>2

LEMMA LockAccountInv ==
    ASSUME AccountsInv, NEW r \in Requests, LockAccount(r) PROVE AccountsInv'
<1>1. TablesTyped' /\ UNCHANGED <<account, link, session>>
  <2>1. Email(r) \in Emails
    BY AtStatement DEF LockAccount, At, AccountsInv, Types, Running, Email
  <2> QED
    BY <2>1 DEF LockAccount, CountComparison, AccountsInv, Types, TablesTyped
<1>2. CASE End(r)
  BY <1>1, <1>2, EndOfRequest
<1>3. CASE ~End(r)
  <2> DEFINE e == Email(r)
             next == AfterAccount(r)
             q == [req[r] EXCEPT !.pc = next]
  <2>1. /\ Running(req[r]) /\ req[r].pc = "account"
        /\ AccountMatches(r) /\ accountLock[e] \in {None, r}
        /\ accountLock' = [accountLock EXCEPT ![e] = r]
        /\ GoTo(r, next) /\ UNCHANGED linkLock
    BY <1>3, AtStatement
       DEF LockAccount, At, BlockedBy, Others, Email, AccountsInv, Types
  <2>2. req[r].todo = {} /\ e \in Emails /\ req[r].op \notin Inserts
    BY <2>1 DEF Running, Flow, Inserts, Email
  <2>3. /\ next \in Flow[req[r].op] /\ next \in {"scan", "commit"}
        /\ next = "scan" <=> req[r].op \in EndsSessions
    BY <2>1 DEF AfterAccount, EndsSessions, Running, Flow
  <2>4. Running(q) /\ req' = [req EXCEPT ![r] = q]
    BY <2>1, <2>2, <2>3, NextStatement DEF AccountsInv, Types
  <2>5. /\ q.pc = next /\ q.op = req[r].op /\ q.email = e
        /\ q.todo = {} /\ q.link = req[r].link /\ q.secret = req[r].secret
    BY <2>1, <2>2 DEF Running, ReqState, Email
  <2>6. Found(q, account[e])
    BY <2>1, <2>5 DEF AccountMatches, Verifies, Found
  <2> HIDE DEF q, e, next
  <2>7. /\ RequestsTyped'
        /\ req'[r] = q
        /\ \A s \in Requests \ {r} : req'[s] = req[s]
    BY <2>4, OneRequest DEF AccountsInv, Types
  <2>8. UNCHANGED <<account, link, session, linkLock>>
    BY <1>1, <2>1
  <2>9. /\ LocksTyped'
        /\ accountLock'[e] = r
        /\ \A d \in Emails \ {e} : accountLock'[d] = accountLock[d]
    BY <2>1, <2>2, <2>8 DEF AccountsInv, Types, LocksTyped
  <2>10. Types'
    BY <1>1, <2>7, <2>9 DEF Types
  <2>11. AccountLocksOK'
    <3>1. Holds(r)' /\ ~Holds(r)
      BY <2>1, <2>2, <2>3, <2>5, <2>7 DEF Holds
    <3>2. ASSUME NEW s \in Requests, NEW d \in Emails
          PROVE  (accountLock[d] = s <=> Holds(s) /\ req[s].email = d)'
      <4>1. CASE s = r
        BY <2>5, <2>7, <2>9, <3>1, <4>1 DEF AccountsInv, AccountLocksOK
      <4>2. CASE s # r
        BY <2>1, <2>7, <2>9, <4>2, ConstantsAssumption
           DEF AccountsInv, AccountLocksOK, Holds
      <4> QED BY <4>1, <4>2
    <3> QED BY <3>2 DEF AccountLocksOK
  <2>12. RowsOK'
    BY <2>3, <2>5, <2>6, <2>7, <2>8 DEF AccountsInv, RowsOK, Holds, Found, Email
  <2>13. InsertsOK'
    BY <2>2, <2>5, <2>7, <2>8 DEF AccountsInv, InsertsOK, Inserting, Email
  <2>14. SessionsOK'
    BY <2>8 DEF AccountsInv, SessionsOK
  <2>15. LinkLocksOK'
    <3>1. \A s \in Requests : UsesLink(s)' <=> UsesLink(s)
      BY <2>1, <2>3, <2>5, <2>7 DEF UsesLink
    <3>2. \A s \in Requests : req'[s].link = req[s].link
      BY <2>5, <2>7
    <3>3. \A s \in Requests : req[s].op \in EndsSessions /\ req[s].pc = "commit" =>
            req'[s].op \in EndsSessions /\ req'[s].pc = "commit"
      BY <2>1, <2>7
    <3> QED BY <2>8, <3>1, <3>2, <3>3 DEF AccountsInv, LinkLocksOK
  <2>16. KindsOK'
    BY <2>5, <2>7, <2>8 DEF AccountsInv, KindsOK, Email, e
  <2>17. SweepsOK'
    BY <2>3, <2>5, <2>7, <2>8
       DEF AccountsInv, SweepsOK, Deletes, Email, EndsSessions
  <2> QED
    BY <2>10, <2>11, <2>12, <2>13, <2>14, <2>15, <2>16, <2>17 DEF AccountsInv
<1> QED BY <1>2, <1>3

LEMMA ScanLinksInv ==
    ASSUME AccountsInv, NEW r \in Requests, ScanLinks(r) PROVE AccountsInv'
<1> DEFINE q == [req[r] EXCEPT !.pc = "delete", !.todo = Deletes(r)]
<1>1. Running(req[r]) /\ req[r].pc = "scan"
  BY AtStatement DEF ScanLinks, At, AccountsInv, Types
<1>2. "delete" \in Flow[req[r].op] /\ req[r].op \in EndsSessions
  BY <1>1 DEF Running, Flow, EndsSessions
<1>3. Running(q)
  BY <1>1, <1>2 DEF Running, ReqState, Statements, Deletes
<1>4. req' = [req EXCEPT ![r] = q]
  BY DEF ScanLinks, AccountsInv, Types, RequestsTyped
<1>5. /\ q.pc = "delete" /\ q.op = req[r].op /\ q.email = req[r].email
      /\ q.todo = Deletes(r) /\ q.link = req[r].link /\ q.secret = req[r].secret
  BY <1>1 DEF Running, ReqState
<1> HIDE DEF q
<1>6. /\ RequestsTyped'
      /\ req'[r] = q
      /\ \A s \in Requests \ {r} : req'[s] = req[s]
  BY <1>3, <1>4, OneRequest DEF AccountsInv, Types
<1>7. UNCHANGED <<account, link, session, attempts, compared, accountLock, linkLock>>
  BY DEF ScanLinks, tables, locks
<1>8. Types'
  BY <1>6, <1>7 DEF AccountsInv, Types, TablesTyped, LocksTyped
<1>9. AccountLocksOK'
  BY <1>1, <1>5, <1>6, <1>7 DEF AccountsInv, AccountLocksOK, Holds
<1>10. RowsOK'
  BY <1>1, <1>5, <1>6, <1>7 DEF AccountsInv, RowsOK, Holds, Found, Email
<1>11. InsertsOK'
  BY <1>5, <1>6, <1>7 DEF AccountsInv, InsertsOK, Inserting, Email
<1>12. SessionsOK'
  BY <1>7 DEF AccountsInv, SessionsOK
<1>13. LinkLocksOK'
  <2>1. \A s \in Requests : UsesLink(s)' <=> UsesLink(s)
    BY <1>1, <1>5, <1>6 DEF UsesLink
  <2>2. \A s \in Requests : req'[s].link = req[s].link
    BY <1>5, <1>6
  <2>3. \A s \in Requests : req[s].op \in EndsSessions /\ req[s].pc = "commit" =>
          req'[s].op \in EndsSessions /\ req'[s].pc = "commit"
    BY <1>1, <1>6
  <2> QED BY <1>7, <2>1, <2>2, <2>3 DEF AccountsInv, LinkLocksOK
<1>14. KindsOK'
  BY <1>5, <1>6, <1>7 DEF AccountsInv, KindsOK, Deletes
<1>15. SweepsOK'
  <2>1. \A s \in Requests : Deletes(s)' = Deletes(s)
    BY <1>5, <1>6, <1>7 DEF Deletes, Email
  <2> QED BY <1>5, <1>6, <1>7, <2>1 DEF AccountsInv, SweepsOK
<1> QED
  BY <1>8, <1>9, <1>10, <1>11, <1>12, <1>13, <1>14, <1>15 DEF AccountsInv

LEMMA DeleteLinksInv ==
    ASSUME AccountsInv, NEW r \in Requests, DeleteLinks(r) PROVE AccountsInv'
<1> DEFINE q == [req[r] EXCEPT !.pc = "commit", !.todo = {}]
<1>1. Running(req[r]) /\ req[r].pc = "delete"
  BY AtStatement DEF DeleteLinks, At, AccountsInv, Types
<1>2. "commit" \in Flow[req[r].op] /\ req[r].op \in EndsSessions
  BY <1>1 DEF Running, Flow, EndsSessions
<1>3. Running(q)
  BY <1>1, <1>2 DEF Running, ReqState, Statements
<1>4. req' = [req EXCEPT ![r] = q]
  BY DEF DeleteLinks, AccountsInv, Types, RequestsTyped
<1>5. /\ q.pc = "commit" /\ q.op = req[r].op /\ q.email = req[r].email
      /\ q.todo = {} /\ q.link = req[r].link /\ q.secret = req[r].secret
  BY <1>1 DEF Running, ReqState
<1> HIDE DEF q
<1>6. /\ RequestsTyped'
      /\ req'[r] = q
      /\ \A s \in Requests \ {r} : req'[s] = req[s]
  BY <1>3, <1>4, OneRequest DEF AccountsInv, Types
<1>7. UNCHANGED <<account, link, session, attempts, compared, accountLock>>
  BY DEF DeleteLinks, tables
<1>8. \A l \in req[r].todo : linkLock[l] \in {None, r}
  <2>1. BlockedBy(r) = UNION {Others(r, linkLock[l]) : l \in req[r].todo}
    BY <1>1 DEF BlockedBy
  <2>2. \A l \in req[r].todo : Others(r, linkLock[l]) = {}
    BY <2>1 DEF DeleteLinks, At
  <2> QED BY <2>2 DEF Others
<1>9. /\ LocksTyped'
      /\ \A l \in Links : linkLock'[l] = IF l \in req[r].todo THEN r ELSE linkLock[l]
  BY <1>7 DEF DeleteLinks, AccountsInv, Types, LocksTyped
<1>10. /\ \A l \in Links, s \in Requests : linkLock[l] = s => linkLock'[l] = s
       /\ \A l \in Links, s \in Requests \ {r} : linkLock'[l] = s => linkLock[l] = s
  BY <1>8, <1>9, ConstantsAssumption
<1>11. Types'
  BY <1>6, <1>7, <1>9 DEF AccountsInv, Types, TablesTyped
<1>12. AccountLocksOK'
  BY <1>1, <1>5, <1>6, <1>7 DEF AccountsInv, AccountLocksOK, Holds
<1>13. RowsOK'
  BY <1>1, <1>5, <1>6, <1>7 DEF AccountsInv, RowsOK, Holds, Found, Email
<1>14. InsertsOK'
  BY <1>2, <1>5, <1>6, <1>7
     DEF AccountsInv, InsertsOK, Inserting, Email, EndsSessions, Inserts
<1>15. SessionsOK'
  BY <1>7 DEF AccountsInv, SessionsOK
<1>16. LinkLocksOK'
  <2>1. \A s \in Requests : UsesLink(s)' <=> UsesLink(s)
    BY <1>1, <1>5, <1>6 DEF UsesLink
  <2>2. \A s \in Requests : UsesLink(s) => req[s].link \in Links
    BY DEF AccountsInv, Types, RequestsTyped, UsesLink, Idle, Running, LinkOps
  <2>3. \A s \in Requests : req'[s].link = req[s].link
    BY <1>5, <1>6
  <2>4. \A s \in Requests : UsesLink(s)' =>
          (linkLock[req[s].link] = s /\ link[req[s].link] # None)'
    BY <1>7, <1>10, <2>1, <2>2, <2>3 DEF AccountsInv, LinkLocksOK
  <2>5. ASSUME NEW s \in Requests, NEW l \in Links, (linkLock[l] = s)'
        PROVE  (\/ UsesLink(s) /\ req[s].link = l
                \/ req[s].op \in EndsSessions /\ req[s].pc = "commit")'
    <3>1. CASE s = r
      BY <1>2, <1>5, <1>6, <3>1
    <3>2. CASE s # r
      BY <1>6, <1>10, <2>1, <2>5, <3>2 DEF AccountsInv, LinkLocksOK
    <3> QED BY <3>1, <3>2
  <2> QED BY <2>4, <2>5 DEF LinkLocksOK
<1>17. KindsOK'
  BY <1>5, <1>6, <1>7 DEF AccountsInv, KindsOK
<1>18. SweepsOK'
  <2>1. \A s \in Requests : Deletes(s)' = Deletes(s) /\ Deletes(s) \subseteq Links
    BY <1>5, <1>6, <1>7 DEF Deletes, Email
  <2>2. req[r].op = "Change" => \A l \in Deletes(r) : linkLock'[l] = r
    BY <1>1, <1>9, <2>1 DEF AccountsInv, SweepsOK
  <2> QED BY <1>5, <1>6, <1>10, <2>1, <2>2 DEF AccountsInv, SweepsOK
<1> QED
  BY <1>11, <1>12, <1>13, <1>14, <1>15, <1>16, <1>17, <1>18 DEF AccountsInv

(* The changed row is the one the request has locked, the links that go are *)
(* those it has locked.                                                     *)
LEMMA CommitChangeInv ==
    ASSUME AccountsInv, NEW r \in Requests, CommitChange(r) PROVE AccountsInv'
<1> DEFINE e == Email(r)
           ends == req[r].op \in EndsSessions
           after == AccountAfter(r)
<1>1. Running(req[r]) /\ req[r].pc = "commit"
  BY AtStatement DEF CommitChange, At, AccountsInv, Types
<1>2. req[r].op \in EndsSessions \cup {"Verify", "Activate"}
  BY DEF CommitChange
<1>3. Holds(r) /\ e \in Emails
  BY <1>1, <1>2 DEF Holds, Inserts, EndsSessions, Running, Email
<1>4. accountLock[e] = r /\ account[e] # None
  BY <1>3 DEF AccountsInv, AccountLocksOK, RowsOK, Found, Email
<1>5. account[e] \in AccountRows
  BY <1>3, <1>4 DEF AccountsInv, Types, TablesTyped
<1>6. after \in AccountRows
  <2>1. req[r].op \in {"Reset", "Change"} => req[r].next \in Secrets
    BY <1>1 DEF Running
  <2> QED BY <1>2, <1>5, <2>1 DEF AccountAfter, AccountRows, Statuses, EndsSessions, Email
<1>7. ~ends => /\ after.secret = account[e].secret
               /\ account[e].status # "disabled" => after.status # "disabled"
  BY <1>2, <1>5 DEF AccountAfter, AccountRows, EndsSessions, Email
<1>8. /\ account' = [account EXCEPT ![e] = after]
      /\ link' = [l \in Links |-> IF linkLock[l] = r THEN None ELSE link[l]]
      /\ session' = [s \in Sessions |->
                       IF ends /\ session[s] # None /\ session[s].email = e
                       THEN None ELSE session[s]]
      /\ End(r)
      /\ UNCHANGED <<attempts, compared>>
  BY DEF CommitChange
<1> HIDE DEF e, ends, after
<1>9. TablesTyped'
  BY <1>6, <1>8 DEF AccountsInv, Types, TablesTyped
<1>10. /\ account'[e] = after /\ after # None
       /\ \A d \in Emails \ {e} : account'[d] = account[d]
  BY <1>3, <1>6, <1>8, ConstantsAssumption DEF AccountsInv, Types, TablesTyped
<1>11. /\ RequestsTyped'
       /\ req'[r] = Idle
       /\ \A s \in Requests \ {r} : req'[s] = req[s]
  BY <1>8, OneRequest DEF AccountsInv, Types, End
<1>12. /\ LocksTyped'
       /\ \A d \in Emails : accountLock'[d] = IF accountLock[d] = r THEN None
                                              ELSE accountLock[d]
       /\ \A l \in Links : linkLock'[l] = IF linkLock[l] = r THEN None
                                          ELSE linkLock[l]
  BY <1>8, LocksFreed DEF AccountsInv, Types, End
<1>13. Idle.op = "none" /\ Idle.pc = "idle" /\ Idle.todo = {}
  BY DEF Idle
<1>14. Types'
  BY <1>9, <1>11, <1>12 DEF Types
<1>15. AccountLocksOK'
  BY <1>11, <1>12, <1>13, ConstantsAssumption DEF AccountsInv, AccountLocksOK, Holds
<1>16. RowsOK'
  <2>1. \A s \in Requests \ {r} : Holds(s) => req[s].email # e
    BY <1>3, <1>4 DEF AccountsInv, AccountLocksOK
  <2>2. \A s \in Requests : Holds(s) \/ req[s].pc = "upgrade" => req[s].email \in Emails
    BY DEF AccountsInv, Types, RequestsTyped, Holds, Idle, Running
  <2>3. ASSUME NEW s \in Requests, Holds(s)'
        PROVE  Found(req[s], account[Email(s)])'
    <3>1. s # r
      BY <1>11, <1>13, <2>3 DEF Holds
    <3>2. Holds(s)
      BY <1>11, <2>3, <3>1 DEF Holds
    <3> QED
      BY <1>10, <1>11, <2>1, <2>2, <3>1, <3>2 DEF AccountsInv, RowsOK, Found, Email
  <2>4. ASSUME NEW s \in Requests, (req[s].pc = "upgrade")'
        PROVE  (account[Email(s)] # None)'
    BY <1>10, <1>11, <1>13, <2>2, <2>4 DEF AccountsInv, RowsOK, Email
  <2> QED BY <2>3, <2>4 DEF RowsOK
<1>17. InsertsOK'
  <2>1. \A s \in Requests : Inserting(s)' => s # r /\ Inserting(s) /\ Email(s)' = Email(s)
    BY <1>11, <1>13 DEF Inserting, Email
  <2>2. \A s \in Requests : Inserting(s) => Email(s) \in Emails \ {e}
    BY <1>4 DEF AccountsInv, InsertsOK, Types, RequestsTyped, Inserting, Idle,
                Running, Email
  <2> QED BY <1>10, <2>1, <2>2 DEF AccountsInv, InsertsOK
<1>18. SessionsOK'
  <2>1. \A s \in Sessions : session[s] # None => session[s].email \in Emails
    BY DEF AccountsInv, Types, TablesTyped, SessionRows
  <2>2. ASSUME NEW s \in Sessions, session'[s] # None
        PROVE  /\ session'[s] = session[s] /\ session[s] # None
               /\ ends => session[s].email # e
    BY <1>8, <2>2
  <2>3. ASSUME NEW s \in Sessions, session'[s] # None
        PROVE  LET a == account'[session'[s].email]
               IN  a # None /\ session'[s].secret = a.secret /\ a.status # "disabled"
    <3>1. CASE session[s].email = e
      BY <1>7, <1>10, <2>2, <2>3, <3>1 DEF AccountsInv, SessionsOK
    <3>2. CASE session[s].email # e
      BY <1>10, <2>1, <2>2, <2>3, <3>2 DEF AccountsInv, SessionsOK
    <3> QED BY <3>1, <3>2
  <2> QED BY <2>3 DEF SessionsOK
<1>19. LinkLocksOK'
  <2>1. \A s \in Requests : UsesLink(s)' => s # r /\ UsesLink(s)
    BY <1>11, <1>13 DEF UsesLink, LinkOps
  <2>2. \A s \in Requests : UsesLink(s) => req[s].link \in Links
    BY DEF AccountsInv, Types, RequestsTyped, UsesLink, Idle, Running, LinkOps
  <2>3. \A l \in Links : linkLock[l] # r => link'[l] = link[l]
    BY <1>8
  <2>4. \A s \in Requests : UsesLink(s)' =>
          (linkLock[req[s].link] = s /\ link[req[s].link] # None)'
    BY <1>11, <1>12, <2>1, <2>2, <2>3 DEF AccountsInv, LinkLocksOK
  <2>5. ASSUME NEW s \in Requests, NEW l \in Links, (linkLock[l] = s)'
        PROVE  (\/ UsesLink(s) /\ req[s].link = l
                \/ req[s].op \in EndsSessions /\ req[s].pc = "commit")'
    <3>1. s # r /\ linkLock[l] = s
      BY <1>12, <2>5, ConstantsAssumption
    <3> QED BY <1>11, <3>1 DEF AccountsInv, LinkLocksOK, UsesLink
  <2> QED BY <2>4, <2>5 DEF LinkLocksOK
<1>20. \A l \in Links : link'[l] = None \/ link'[l] = link[l]
  BY <1>8
<1>21. KindsOK'
  <2>1. \A s \in Requests : req[s].op \in LinkOps => req[s].link \in Links
    BY DEF AccountsInv, Types, RequestsTyped, Idle, Running, LinkOps
  <2>2. \A s \in Requests : req[s].todo \subseteq Links
    BY DEF AccountsInv, Types, RequestsTyped, ReqState
  <2> QED BY <1>11, <1>13, <1>20, <2>1, <2>2 DEF AccountsInv, KindsOK, LinkOps
<1>22. SweepsOK'
  BY <1>11, <1>12, <1>13, <1>20 DEF AccountsInv, SweepsOK, Deletes, Email
<1> QED
  BY <1>14, <1>15, <1>16, <1>17, <1>18, <1>19, <1>21, <1>22 DEF AccountsInv

-----------------------------------------------------------------------------
(***************************************************************************)
(* Time and the cleanup; every step.                                       *)
(***************************************************************************)
(* A link that nobody has locked may expire or go. *)
LEMMA LinkInv ==
    ASSUME AccountsInv, NEW l \in Links, NEW row \in LinkRows \cup {None},
           link[l] # None,
           IF row = None THEN linkLock[l] = None
                         ELSE row.kind = link[l].kind /\ row.email = link[l].email,
           link' = [link EXCEPT ![l] = row],
           UNCHANGED <<account, session, attempts, compared, locks, req>>
    PROVE  AccountsInv'
<1>1. UNCHANGED <<account, session, attempts, compared, accountLock, linkLock, req>>
  BY DEF locks
<1>2. /\ link'[l] = row
      /\ \A k \in Links \ {l} : link'[k] = link[k]
  BY DEF AccountsInv, Types, TablesTyped
<1>3. Types'
  BY <1>1 DEF AccountsInv, Types, TablesTyped, LocksTyped, RequestsTyped
<1>4. AccountLocksOK' /\ RowsOK' /\ InsertsOK' /\ SessionsOK'
  BY <1>1 DEF AccountsInv, AccountLocksOK, RowsOK, InsertsOK, SessionsOK,
              Holds, Found, Inserting, Email
<1>5. LinkLocksOK'
  <2>1. \A s \in Requests : UsesLink(s) => req[s].link \in Links
    BY DEF AccountsInv, Types, RequestsTyped, UsesLink, Idle, Running, LinkOps
  <2>2. \A s \in Requests : UsesLink(s)' <=> UsesLink(s)
    BY <1>1 DEF UsesLink
  <2>3. \A s \in Requests : UsesLink(s) => link'[req[s].link] # None
    BY <1>2, <2>1, ConstantsAssumption DEF AccountsInv, LinkLocksOK
  <2> QED BY <1>1, <2>2, <2>3 DEF AccountsInv, LinkLocksOK
<1>6. KindsOK'
  <2>1. \A s \in Requests : req[s].op \in LinkOps => req[s].link \in Links
    BY DEF AccountsInv, Types, RequestsTyped, Idle, Running, LinkOps
  <2>2. \A s \in Requests : req[s].todo \subseteq Links
    BY DEF AccountsInv, Types, RequestsTyped, ReqState
  <2> QED BY <1>1, <1>2, <2>1, <2>2 DEF AccountsInv, KindsOK
<1>7. SweepsOK'
  <2>1. \A s \in Requests : Deletes(s)' \subseteq Deletes(s)
    BY <1>1, <1>2 DEF Deletes, Email
  <2> QED BY <1>1, <2>1 DEF AccountsInv, SweepsOK
<1> QED BY <1>3, <1>4, <1>5, <1>6, <1>7 DEF AccountsInv

(* Tables no running request depends on. *)
LEMMA TableInv ==
    ASSUME AccountsInv, TablesTyped', SessionsOK',
           UNCHANGED <<account, link, locks, req>>
    PROVE  AccountsInv'
<1>1. UNCHANGED <<account, link, accountLock, linkLock, req>>
  BY DEF locks
<1>2. Types'
  BY <1>1 DEF AccountsInv, Types, LocksTyped, RequestsTyped
<1>3. AccountLocksOK' /\ RowsOK' /\ InsertsOK'
  BY <1>1 DEF AccountsInv, AccountLocksOK, RowsOK, InsertsOK, Holds, Found,
              Inserting, Email
<1>4. LinkLocksOK' /\ KindsOK' /\ SweepsOK'
  BY <1>1 DEF AccountsInv, LinkLocksOK, KindsOK, SweepsOK, UsesLink, Deletes, Email
<1> QED BY <1>2, <1>3, <1>4 DEF AccountsInv

LEMMA TimeInv ==
    ASSUME AccountsInv,
           \/ \E l \in Links : ExpireLink(l) \/ CleanupLink(l)
           \/ \E s \in Sessions : DeleteSession(s)
           \/ \E e \in Emails : WindowEnds(e)
    PROVE  AccountsInv'
<1>1. ASSUME NEW l \in Links, ExpireLink(l) PROVE AccountsInv'
  <2> DEFINE row == [link[l] EXCEPT !.late = TRUE]
  <2>1. link[l] \in LinkRows /\ link[l] # None
    BY <1>1 DEF ExpireLink, AccountsInv, Types, TablesTyped
  <2>2. row \in LinkRows /\ row.kind = link[l].kind /\ row.email = link[l].email
    BY <2>1 DEF LinkRows
  <2>3. row # None
    BY <2>2, ConstantsAssumption
  <2>4. link' = [link EXCEPT ![l] = row]
    BY <1>1, <2>1 DEF ExpireLink, LinkRows, AccountsInv, Types, TablesTyped
  <2> HIDE DEF row
  <2> QED BY <1>1, <2>1, <2>2, <2>3, <2>4, LinkInv DEF ExpireLink
<1>2. ASSUME NEW l \in Links, CleanupLink(l) PROVE AccountsInv'
  BY <1>2, LinkInv DEF CleanupLink
<1>3. ASSUME NEW s \in Sessions, DeleteSession(s) PROVE AccountsInv'
  <2>1. \A t \in Sessions : session'[t] # None => session'[t] = session[t]
    BY <1>3 DEF DeleteSession, AccountsInv, Types, TablesTyped
  <2>2. SessionsOK' /\ TablesTyped'
    BY <1>3, <2>1 DEF DeleteSession, AccountsInv, Types, TablesTyped, SessionsOK
  <2> QED BY <1>3, <2>2, TableInv DEF DeleteSession
<1>4. ASSUME NEW e \in Emails, WindowEnds(e) PROVE AccountsInv'
  <2>1. TablesTyped'
    BY <1>4, LetThroughFinite, ConstantsAssumption
       DEF WindowEnds, AccountsInv, Types, TablesTyped
  <2>2. SessionsOK'
    BY <1>4 DEF WindowEnds, AccountsInv, SessionsOK
  <2> QED BY <1>4, <2>1, <2>2, TableInv DEF WindowEnds
<1> QED BY <1>1, <1>2, <1>3, <1>4

LEMMA StepInv ==
    ASSUME AccountsInv, NEW r \in Requests, Step(r) PROVE AccountsInv'
  BY CheckImportInv, InsertAccountInv, CommitAccountInv, FindAccountInv, AddLinkInv,
     CountAttemptInv, CreateSessionInv, UpgradeHashInv, UseLinkInv, LockAccountInv,
     ScanLinksInv, DeleteLinksInv, CommitChangeInv, EndInv DEF Step, Send

LEMMA InitAccountsInv == Init => AccountsInv
<1> SUFFICES ASSUME Init PROVE AccountsInv
  OBVIOUS
<1>1. Idle.op = "none" /\ Idle.pc = "idle" /\ Idle.todo = {}
  BY DEF Idle
<1>2. Types
  BY IdleTyped, ConstantsAssumption
     DEF Init, Types, TablesTyped, LocksTyped, RequestsTyped
<1>3. AccountLocksOK /\ RowsOK /\ InsertsOK
  BY <1>1, ConstantsAssumption
     DEF Init, AccountLocksOK, RowsOK, InsertsOK, Holds, Inserting
<1>4. SessionsOK
  BY ConstantsAssumption DEF Init, SessionsOK
<1>5. LinkLocksOK /\ KindsOK /\ SweepsOK
  BY <1>1, ConstantsAssumption
     DEF Init, LinkLocksOK, KindsOK, SweepsOK, UsesLink, LinkOps
<1> QED BY <1>2, <1>3, <1>4, <1>5 DEF AccountsInv

LEMMA NextAccountsInv == AccountsInv /\ [Next]_vars => AccountsInv'
<1> SUFFICES ASSUME AccountsInv, [Next]_vars PROVE AccountsInv'
  OBVIOUS
<1>1. CASE UNCHANGED vars
  BY <1>1, TableInv DEF vars, tables, AccountsInv, Types, TablesTyped, SessionsOK
<1>2. ASSUME NEW r \in Requests,
             Begin(r) \/ BeginLink(r) \/ BeginChange(r) \/ Step(r) \/ Fail(r)
               \/ DeadlockAbort(r)
      PROVE  AccountsInv'
  BY <1>2, BeginInv, BeginLinkInv, BeginChangeInv, StepInv, EndInv
     DEF Fail, DeadlockAbort
<1> QED BY <1>1, <1>2, TimeInv DEF Next

(* In every reachable state the locks, the tables and the running requests  *)
(* fit together: the inductive invariant of Accounts.                       *)
THEOREM AccountsInvariant == Spec => []AccountsInv
  BY InitAccountsInv, NextAccountsInv, PTL DEF Spec

-----------------------------------------------------------------------------
(***************************************************************************)
(* What the invariant says of every reachable state.                       *)
(***************************************************************************)
(* Tables, locks and requests keep their types. *)
THEOREM AccountsTypes == Spec => []TypeOK
<1>1. AccountsInv => TypeOK
  BY DEF AccountsInv, Types, TablesTyped, LocksTyped, RequestsTyped, TypeOK
<1> QED BY <1>1, AccountsInvariant, PTL

(* Login locks the account before it compares the password and holds it     *)
(* until the session is there, and whoever changes the password deletes the *)
(* sessions under the same lock: no session outlives its password.          *)
THEOREM NoSessionOutlivesItsPassword == Spec => []SessionsFollowPassword
<1>1. AccountsInv => SessionsFollowPassword
  BY DEF AccountsInv, SessionsOK, SessionsFollowPassword
<1> QED BY <1>1, AccountsInvariant, PTL

(* The same lock keeps sessions away from accounts that an administrator    *)
(* disables while they log in.                                              *)
THEOREM DisabledAccountsHaveNoSession == Spec => []NoSessionOfDisabled
<1>1. AccountsInv => NoSessionOfDisabled
  BY DEF AccountsInv, SessionsOK, NoSessionOfDisabled
<1> QED BY <1>1, AccountsInvariant, PTL

(* The passwords compared, and those let through to it, were counted in the *)
(* window or let through in an earlier one.                                 *)
CountsOK ==
    \A e \in Emails : compared[e] + Cardinality(LetThrough(e)) <=
                       IF attempts[e] < Limit THEN attempts[e] ELSE Limit

(* A step of r that lets no login through, and compares for none. *)
LEMMA CountsKept ==
    ASSUME Types, CountsOK, NEW r \in Requests,
           \A s \in Requests \ {r} : req'[s] = req[s],
           req'[r].op # "Login" \/ req'[r].pc # "account",
           UNCHANGED <<attempts, compared>>
    PROVE  CountsOK'
<1> SUFFICES ASSUME NEW e \in Emails
             PROVE  (compared[e] + Cardinality(LetThrough(e)) <=
                       IF attempts[e] < Limit THEN attempts[e] ELSE Limit)'
  BY DEF CountsOK
<1>1. LetThrough(e)' \in SUBSET LetThrough(e)
  BY DEF LetThrough, Email
<1>2. Cardinality(LetThrough(e)') <= Cardinality(LetThrough(e))
  BY <1>1, LetThroughFinite, FS_Subset
<1>3. Cardinality(LetThrough(e)') \in Nat
  BY <1>1, LetThroughFinite, FS_Subset, FS_CardinalityType
<1> QED
  BY <1>2, <1>3, LetThroughFinite, ConstantsAssumption DEF CountsOK, Types, TablesTyped

(* Login is let through by the upsert alone. *)
LEMMA NobodyLetThrough ==
    ASSUME AccountsInv, NEW r \in Requests,
           \/ Begin(r) \/ BeginLink(r) \/ BeginChange(r)
           \/ Step(r) /\ ~CountAttempt(r) /\ ~LockAccount(r)
           \/ Fail(r) \/ DeadlockAbort(r)
    PROVE  /\ \A s \in Requests \ {r} : req'[s] = req[s]
           /\ req'[r].op # "Login" \/ req'[r].pc # "account"
           /\ UNCHANGED <<attempts, compared>>
<1>1. req \in [Requests -> ReqState]
  BY DEF AccountsInv, Types, RequestsTyped
<1>2. CASE Begin(r) \/ BeginLink(r) \/ BeginChange(r)
  <2>1. ASSUME NEW op, NEW statement, NEW e, NEW secret, NEW next,
               Start(r, op, statement, e, secret, next),
               op # "Login" \/ statement # "account"
        PROVE  /\ \A s \in Requests \ {r} : req'[s] = req[s]
               /\ req'[r].op # "Login" \/ req'[r].pc # "account"
    BY <1>1, <2>1 DEF Start, Idle
  <2>2. CASE Begin(r)
    BY <2>1, <2>2 DEF Begin, tables
  <2>3. CASE BeginLink(r)
    BY <1>1, <2>3 DEF BeginLink, tables
  <2>4. CASE BeginChange(r)
    BY <2>1, <2>4 DEF BeginChange, tables
  <2> QED BY <1>2, <2>2, <2>3, <2>4
<1>3. CASE Fail(r) \/ DeadlockAbort(r)
  BY <1>1, <1>3 DEF Fail, DeadlockAbort, End, Idle, tables
<1>4. CASE CheckImport(r) \/ InsertAccount(r) \/ FindAccount(r) \/ Send(r)
  BY <1>1, <1>4 DEF CheckImport, InsertAccount, FindAccount, Send, End, GoTo, Idle,
                    ReqState, tables
<1>5. CASE CommitAccount(r) \/ AddLink(r)
  BY <1>1, <1>5 DEF CommitAccount, AddLink, End, Idle, ReqState
<1>6. CASE CreateSession(r) \/ UpgradeHash(r) \/ CommitChange(r)
  BY <1>1, <1>6 DEF CreateSession, UpgradeHash, CommitChange, End, Idle, ReqState
<1>7. CASE UseLink(r)
  <2>1. req[r].op # "Login"
    BY <1>7, AtStatement DEF UseLink, At, AccountsInv, Types, Running, Flow
  <2> QED BY <1>1, <1>7, <2>1 DEF UseLink, End, GoTo, Idle, ReqState, tables
<1>8. CASE ScanLinks(r) \/ DeleteLinks(r)
  BY <1>1, <1>8 DEF ScanLinks, DeleteLinks, ReqState, tables
<1> QED BY <1>2, <1>3, <1>4, <1>5, <1>6, <1>7, <1>8 DEF Step

(* An attempt below the limit lets one login more through. *)
LEMMA CountAttemptCounts ==
    ASSUME AccountsInv, CountsOK, NEW r \in Requests, CountAttempt(r)
    PROVE  CountsOK'
<1>1. req \in [Requests -> ReqState] /\ Email(r) \in Emails /\ req[r].pc = "count"
  BY AtStatement DEF CountAttempt, At, AccountsInv, Types, RequestsTyped, Running, Email
<1>2. compared' = compared /\ attempts \in [Emails -> 0..(Limit + 1)]
      /\ compared \in [Emails -> Int] /\ Limit \in Nat
  BY ConstantsAssumption DEF CountAttempt, AccountsInv, Types, TablesTyped
<1> SUFFICES ASSUME NEW e \in Emails
             PROVE  (compared[e] + Cardinality(LetThrough(e)) <=
                       IF attempts[e] < Limit THEN attempts[e] ELSE Limit)'
  BY DEF CountsOK
<1>3. compared[e] + Cardinality(LetThrough(e)) <=
        IF attempts[e] < Limit THEN attempts[e] ELSE Limit
  BY DEF CountsOK
<1>4. CASE Allowed(Email(r))
  <2>1. /\ attempts' = [attempts EXCEPT ![Email(r)] = @ + 1]
        /\ req' = [req EXCEPT ![r].pc = "account"]
    BY <1>4 DEF CountAttempt, GoTo
  <2>2. LetThrough(e)' \in SUBSET (LetThrough(e) \cup IF Email(r) = e THEN {r} ELSE {})
    BY <1>1, <2>1 DEF LetThrough, Email, ReqState
  <2>3. CASE Email(r) = e
    <3>1. LetThrough(e)' \in SUBSET (LetThrough(e) \cup {r})
      BY <2>2, <2>3
    <3>2. /\ IsFiniteSet(LetThrough(e) \cup {r})
          /\ Cardinality(LetThrough(e) \cup {r}) <= Cardinality(LetThrough(e)) + 1
      <4>1. IsFiniteSet(LetThrough(e)) /\ Cardinality(LetThrough(e)) \in Nat
        BY LetThroughFinite
      <4>2. /\ IsFiniteSet(LetThrough(e) \cup {r})
            /\ Cardinality(LetThrough(e) \cup {r}) =
                 IF r \in LetThrough(e) THEN Cardinality(LetThrough(e))
                                        ELSE Cardinality(LetThrough(e)) + 1
        BY <4>1, FS_AddElement
      <4> QED BY <4>1, <4>2
    <3>3. Cardinality(LetThrough(e)') \in Nat
          /\ Cardinality(LetThrough(e)') <= Cardinality(LetThrough(e) \cup {r})
      BY <3>1, <3>2, FS_Subset, FS_CardinalityType
    <3>4. Cardinality(LetThrough(e) \cup {r}) \in Nat
      BY <3>2, FS_CardinalityType
    <3>5. attempts'[e] = attempts[e] + 1 /\ attempts[e] < Limit
      BY <1>2, <1>4, <2>1, <2>3 DEF Allowed
    <3> QED BY <1>2, <1>3, <3>2, <3>3, <3>4, <3>5, LetThroughFinite
  <2>4. CASE Email(r) # e
    <3>1. LetThrough(e)' \in SUBSET LetThrough(e)
      BY <2>2, <2>4
    <3>2. Cardinality(LetThrough(e)') \in Nat
          /\ Cardinality(LetThrough(e)') <= Cardinality(LetThrough(e))
      BY <3>1, LetThroughFinite, FS_Subset, FS_CardinalityType
    <3>3. attempts'[e] = attempts[e]
      BY <1>2, <2>1, <2>4
    <3> QED BY <1>2, <1>3, <3>2, <3>3, LetThroughFinite
  <2> QED BY <2>3, <2>4
<1>5. CASE ~Allowed(Email(r))
  <2>1. /\ attempts' = [attempts EXCEPT ![Email(r)] = Limit + 1]
        /\ req' = [req EXCEPT ![r] = Idle]
    BY <1>5 DEF CountAttempt, End
  <2>2. LetThrough(e)' \in SUBSET LetThrough(e)
    BY <1>1, <2>1 DEF LetThrough, Email, Idle
  <2>3. Cardinality(LetThrough(e)') \in Nat
        /\ Cardinality(LetThrough(e)') <= Cardinality(LetThrough(e))
    BY <2>2, LetThroughFinite, FS_Subset, FS_CardinalityType
  <2>4. attempts'[e] = attempts[e] \/ (~(attempts[e] < Limit) /\ ~(attempts'[e] < Limit))
    BY <1>1, <1>2, <1>5, <2>1 DEF Allowed
  <2> QED BY <1>2, <1>3, <2>3, <2>4, LetThroughFinite
<1> QED BY <1>4, <1>5

(* A comparison takes one login from those let through. *)
LEMMA LockAccountCounts ==
    ASSUME AccountsInv, CountsOK, NEW r \in Requests, LockAccount(r)
    PROVE  CountsOK'
<1>1. req \in [Requests -> ReqState] /\ Email(r) \in Emails /\ req[r].pc = "account"
  BY AtStatement DEF LockAccount, At, AccountsInv, Types, RequestsTyped, Running, Email
<1>2. attempts' = attempts /\ attempts \in [Emails -> 0..(Limit + 1)]
      /\ compared \in [Emails -> Int] /\ Limit \in Nat
  BY ConstantsAssumption
     DEF LockAccount, CountComparison, AccountsInv, Types, TablesTyped
<1>3. /\ \A s \in Requests \ {r} : req'[s] = req[s]
      /\ req'[r].pc # "account"
  BY <1>1 DEF LockAccount, End, GoTo, Idle, AfterAccount, ReqState
<1>4. CASE ComparesPassword(r)
  <2> SUFFICES ASSUME NEW e \in Emails
               PROVE  (compared[e] + Cardinality(LetThrough(e)) <=
                         IF attempts[e] < Limit THEN attempts[e] ELSE Limit)'
    BY DEF CountsOK
  <2>1. compared[e] + Cardinality(LetThrough(e)) <=
          IF attempts[e] < Limit THEN attempts[e] ELSE Limit
    BY DEF CountsOK
  <2>2. compared' = [compared EXCEPT ![Email(r)] = @ + 1]
    BY <1>4 DEF LockAccount, CountComparison
  <2>3. LetThrough(e)' \in SUBSET (LetThrough(e) \ {r})
    BY <1>3 DEF LetThrough, Email
  <2>4. /\ IsFiniteSet(LetThrough(e) \ {r})
        /\ Cardinality(LetThrough(e) \ {r}) =
             IF r \in LetThrough(e) THEN Cardinality(LetThrough(e)) - 1
                                    ELSE Cardinality(LetThrough(e))
    BY LetThroughFinite, FS_RemoveElement
  <2>5. /\ Cardinality(LetThrough(e)') \in Nat
        /\ Cardinality(LetThrough(e)') <= Cardinality(LetThrough(e) \ {r})
    BY <2>3, <2>4, FS_Subset, FS_CardinalityType
  <2>6. r \in LetThrough(e) <=> Email(r) = e
    BY <1>1, <1>4 DEF LetThrough, ComparesPassword
  <2>7. compared'[e] = IF Email(r) = e THEN compared[e] + 1 ELSE compared[e]
    BY <1>2, <2>2
  <2> QED BY <1>2, <2>1, <2>4, <2>5, <2>6, <2>7, LetThroughFinite
<1>5. CASE ~ComparesPassword(r)
  <2>1. compared' = compared
    BY <1>5 DEF LockAccount, CountComparison
  <2> QED BY <1>2, <1>3, <2>1, CountsKept DEF AccountsInv
<1> QED BY <1>4, <1>5

(* Logins still to compare are taken off the new window. *)
LEMMA WindowEndsCounts ==
    ASSUME AccountsInv, CountsOK, NEW d \in Emails, WindowEnds(d)
    PROVE  CountsOK'
<1> SUFFICES ASSUME NEW e \in Emails
             PROVE  (compared[e] + Cardinality(LetThrough(e)) <=
                       IF attempts[e] < Limit THEN attempts[e] ELSE Limit)'
  BY DEF CountsOK
<1>1. LetThrough(e)' = LetThrough(e)
  BY DEF WindowEnds, LetThrough, Email
<1>2. CASE e = d
  BY <1>1, <1>2, LetThroughFinite, ConstantsAssumption
     DEF WindowEnds, AccountsInv, Types, TablesTyped
<1>3. CASE e # d
  BY <1>1, <1>3 DEF WindowEnds, CountsOK, AccountsInv, Types, TablesTyped
<1> QED BY <1>2, <1>3

(* Whatever runs at once, and wherever a window ends: every comparison of a *)
(* password was counted by the upsert, in the window it is made in or in    *)
(* the one that let the login through.                                      *)
THEOREM AttemptsLimited == Spec => []ComparisonsLimited
<1>1. Init => CountsOK
  <2> SUFFICES ASSUME Init, NEW e \in Emails
               PROVE  compared[e] + Cardinality(LetThrough(e)) <=
                        IF attempts[e] < Limit THEN attempts[e] ELSE Limit
    BY DEF CountsOK
  <2>1. LetThrough(e) = {}
    BY DEF Init, LetThrough, Idle
  <2> QED BY <2>1, FS_EmptySet, ConstantsAssumption DEF Init
<1>2. AccountsInv /\ CountsOK /\ [Next]_vars => CountsOK'
  <2> SUFFICES ASSUME AccountsInv, CountsOK, [Next]_vars PROVE CountsOK'
    OBVIOUS
  <2>1. ASSUME UNCHANGED <<attempts, compared, req>> PROVE CountsOK'
    BY <2>1 DEF CountsOK, LetThrough, Email
  <2>2. CASE UNCHANGED vars
    BY <2>1, <2>2 DEF vars, tables
  <2>3. ASSUME NEW l \in Links, ExpireLink(l) \/ CleanupLink(l) PROVE CountsOK'
    BY <2>1, <2>3 DEF ExpireLink, CleanupLink
  <2>4. ASSUME NEW s \in Sessions, DeleteSession(s) PROVE CountsOK'
    BY <2>1, <2>4 DEF DeleteSession
  <2>5. ASSUME NEW r \in Requests,
               Begin(r) \/ BeginLink(r) \/ BeginChange(r) \/ Step(r) \/ Fail(r)
                 \/ DeadlockAbort(r)
        PROVE  CountsOK'
    BY <2>5, CountAttemptCounts, LockAccountCounts, NobodyLetThrough, CountsKept
       DEF AccountsInv
  <2> QED BY <2>2, <2>3, <2>4, <2>5, WindowEndsCounts DEF Next
<1>3. AccountsInv /\ CountsOK => ComparisonsLimited
  <2> SUFFICES ASSUME AccountsInv, CountsOK, NEW e \in Emails
               PROVE  compared[e] <= Limit
    BY DEF ComparisonsLimited
  <2>1. compared[e] + Cardinality(LetThrough(e)) <=
          IF attempts[e] < Limit THEN attempts[e] ELSE Limit
    BY DEF CountsOK
  <2> QED
    BY <2>1, LetThroughFinite, ConstantsAssumption DEF AccountsInv, Types, TablesTyped
<1> QED BY <1>1, <1>2, <1>3, AccountsInvariant, PTL DEF Spec

(* Requests in a cycle of waits are at a statement that waits. *)
LEMMA WaitingStatements ==
    ASSUME NEW D \in SUBSET Requests, WaitCycle(D), NEW r \in D
    PROVE  req[r].pc \in {"insert", "link", "use", "account", "upgrade", "delete"}
<1>1. BlockedBy(r) # {}
  BY DEF WaitCycle
<1> QED BY <1>1 DEF BlockedBy

(* Without a reset in it there is nobody a cycle could close with.  Inserts *)
(* and accounts are waited for only when their holder has nothing to wait   *)
(* for but links; those a deletion waits for are in the hands of resets.    *)
LEMMA NoCycleWithoutReset ==
    ASSUME AccountsInv, NEW D \in SUBSET Requests, WaitCycle(D)
    PROVE  \E r \in D : req[r].op = "Reset"
<1> SUFFICES ASSUME \A r \in D : req[r].op # "Reset" PROVE FALSE
  OBVIOUS
<1>1. \A r \in D : req[r].pc # "commit" /\ req[r].pc # "scan"
  BY WaitingStatements
<1>2. \A r \in D : \E s \in D : s \in BlockedBy(r)
  BY DEF WaitCycle
<1>3. \A s \in D : Running(req[s])
  BY WaitingStatements, AtStatement DEF AccountsInv, Types
<1>4. ASSUME NEW s \in D, NEW l \in Links, linkLock[l] = s
      PROVE  req[s].op = "Verify" /\ req[s].pc = "account" /\ req[s].link = l
  <2>1. UsesLink(s) /\ req[s].link = l
    BY <1>1, <1>4 DEF AccountsInv, LinkLocksOK
  <2> QED BY <1>1, <1>3, <2>1 DEF UsesLink, LinkOps, Running, Flow
<1>5. \A r \in D : req[r].pc # "insert"
  <2> SUFFICES ASSUME NEW r \in D, req[r].pc = "insert" PROVE FALSE
    OBVIOUS
  <2>1. BlockedBy(r) = InsertedBy(r)
    BY DEF BlockedBy
  <2> QED BY <1>1, <1>2, <2>1 DEF InsertedBy
<1>6. \A r \in D : req[r].pc # "delete"
  <2> SUFFICES ASSUME NEW r \in D, req[r].pc = "delete" PROVE FALSE
    OBVIOUS
  <2>1. BlockedBy(r) = UNION {Others(r, linkLock[l]) : l \in req[r].todo}
    BY DEF BlockedBy
  <2>2. PICK s \in D, l \in req[r].todo : linkLock[l] = s
    BY <1>2, <2>1 DEF Others
  <2>3. l \in Links
    BY <1>3 DEF Running, ReqState
  <2>4. req[s].op = "Verify" /\ req[s].link = l /\ UsesLink(s)
    BY <1>4, <2>2, <2>3 DEF UsesLink, LinkOps
  <2>5. link[l] # None
    BY <2>4 DEF AccountsInv, LinkLocksOK
  <2>6. link[l].kind = "verify"
    BY <2>4, <2>5 DEF AccountsInv, KindsOK, LinkOps
  <2>7. link[l].kind = "reset"
    BY <2>2, <2>5 DEF AccountsInv, KindsOK
  <2> QED BY <2>6, <2>7
<1>7. \A s \in D, e \in Emails : accountLock[e] # s
  BY <1>1, <1>6 DEF AccountsInv, AccountLocksOK, Holds
<1>8. \A r \in D : req[r].pc \notin {"account", "upgrade"}
  <2> SUFFICES ASSUME NEW r \in D, req[r].pc \in {"account", "upgrade"} PROVE FALSE
    OBVIOUS
  <2>1. BlockedBy(r) = Others(r, accountLock[req[r].email])
    BY DEF BlockedBy
  <2>2. PICK s \in D : accountLock[req[r].email] = s
    BY <1>2, <2>1 DEF Others
  <2> QED BY <1>3, <1>7, <2>2 DEF Running
<1>9. \A r \in D : req[r].pc # "link"
  <2> SUFFICES ASSUME NEW r \in D, req[r].pc = "link" PROVE FALSE
    OBVIOUS
  <2>1. BlockedBy(r) = KeyLocked(r)
    BY DEF BlockedBy
  <2>2. PICK s \in D : accountLock[req[r].email] = s
    BY <1>2, <2>1 DEF KeyLocked, Others, Email
  <2> QED BY <1>3, <1>7, <2>2 DEF Running
<1>10. \A r \in D : req[r].pc # "use"
  <2> SUFFICES ASSUME NEW r \in D, req[r].pc = "use" PROVE FALSE
    OBVIOUS
  <2>1. BlockedBy(r) = Others(r, linkLock[req[r].link])
    BY DEF BlockedBy
  <2>2. PICK s \in D : linkLock[req[r].link] = s
    BY <1>2, <2>1 DEF Others
  <2>3. req[r].link \in Links
    <3>1. req[r].op \in LinkOps
      BY <1>3 DEF Running, Flow, LinkOps
    <3> QED BY <1>3, <3>1 DEF Running
  <2>4. req[s].pc = "account"
    BY <1>4, <2>2, <2>3
  <2> QED BY <1>8, <2>4
<1> QED BY <1>5, <1>6, <1>8, <1>9, <1>10, WaitingStatements DEF WaitCycle

(* PostgreSQL has no cycle of waits to break but one with a reset in it.    *)
THEOREM OnlyResetsCanDeadlock == Spec => []OnlyResetsDeadlock
<1>1. AccountsInv => OnlyResetsDeadlock
  BY NoCycleWithoutReset DEF OnlyResetsDeadlock
<1> QED BY <1>1, AccountsInvariant, PTL

-----------------------------------------------------------------------------
(***************************************************************************)
(* What no step does.                                                      *)
(***************************************************************************)
(* The rows of accounts are written by three statements. *)
LEMMA AccountWriters ==
    ASSUME [Next]_vars
    PROVE  \/ UNCHANGED account
           \/ \E r \in Requests : CommitAccount(r) \/ UpgradeHash(r) \/ CommitChange(r)
  BY DEF Next, Step, Begin, BeginLink, BeginChange, CheckImport, InsertAccount,
         FindAccount, AddLink, Send, CountAttempt, CreateSession, UseLink,
         LockAccount, CountComparison, ScanLinks, DeleteLinks, Fail,
         DeadlockAbort, ExpireLink,
         CleanupLink, DeleteSession, WindowEnds, vars, tables

(* A password is replaced only by a Change that presented it or by a Reset: *)
(* the row was locked when it was compared, and an upgrade of a legacy hash *)
(* writes the same password.                                                *)
THEOREM PasswordsChangeEarned == Spec => PasswordChangesEarned
<1>1. AccountsInv /\ [Next]_vars =>
        [\A e \in Emails :
           account[e] # None /\ account'[e].secret # account[e].secret =>
             \E r \in Requests :
               /\ CommitChange(r)
               /\ Email(r) = e
               /\ \/ req[r].op = "Change" /\ req[r].secret = account[e].secret
                  \/ req[r].op = "Reset"]_vars
  <2> SUFFICES ASSUME AccountsInv, [Next]_vars, NEW e \in Emails, account[e] # None,
                      account'[e].secret # account[e].secret
               PROVE  \E r \in Requests :
                        /\ CommitChange(r)
                        /\ Email(r) = e
                        /\ \/ req[r].op = "Change" /\ req[r].secret = account[e].secret
                           \/ req[r].op = "Reset"
    OBVIOUS
  <2>1. PICK r \in Requests : CommitAccount(r) \/ UpgradeHash(r) \/ CommitChange(r)
    BY AccountWriters
  <2>2. Running(req[r])
    BY <2>1, AtStatement
       DEF CommitAccount, UpgradeHash, CommitChange, At, AccountsInv, Types
  <2>3. Email(r) \in Emails
    BY <2>2 DEF Running, Email
  <2>4. account[e] \in AccountRows
    BY DEF AccountsInv, Types, TablesTyped
  <2>5. CASE CommitAccount(r)
    <3>1. account[Email(r)] = None
      BY <2>5 DEF CommitAccount, At, AccountsInv, InsertsOK, Inserting
    <3> QED
      BY <2>3, <2>5, <3>1 DEF CommitAccount, AccountsInv, Types, TablesTyped
  <2>6. CASE UpgradeHash(r)
    <3>1. account' = [account EXCEPT ![Email(r)].legacy =
                        @ /\ account[Email(r)].secret # req[r].secret]
      BY <2>6 DEF UpgradeHash
    <3> QED BY <2>3, <2>4, <3>1 DEF AccountsInv, Types, TablesTyped, AccountRows
  <2>7. CASE CommitChange(r)
    <3>1. account' = [account EXCEPT ![Email(r)] = AccountAfter(r)] /\ req[r].pc = "commit"
      BY <2>7 DEF CommitChange, At
    <3>2. Email(r) = e /\ AccountAfter(r).secret # account[e].secret
      BY <2>3, <3>1 DEF AccountsInv, Types, TablesTyped
    <3>3. req[r].op \in {"Reset", "Change"}
      BY <2>4, <2>7, <3>2 DEF CommitChange, AccountAfter, AccountRows, EndsSessions
    <3>4. req[r].op = "Change" => req[r].secret = account[e].secret
      BY <3>1, <3>2 DEF AccountsInv, RowsOK, Holds, Found, Inserts, Email
    <3> QED BY <2>7, <3>2, <3>3, <3>4
  <2> QED BY <2>1, <2>5, <2>6, <2>7
<1> QED BY <1>1, AccountsInvariant, PTL DEF Spec, PasswordChangesEarned

(* The transaction that follows a link has locked its row: when it commits, *)
(* nobody has used or deleted the link.                                     *)
THEOREM LinksAreUsedOnce == Spec => LinksUsedOnce
<1>1. AccountsInv =>
        [\A r \in Requests :
           CommitChange(r) /\ req[r].link # None => link[req[r].link] # None]_vars
  <2> SUFFICES ASSUME AccountsInv, NEW r \in Requests, CommitChange(r),
                      req[r].link # None
               PROVE  link[req[r].link] # None
    OBVIOUS
  <2>1. Running(req[r]) /\ req[r].pc = "commit"
    BY AtStatement DEF CommitChange, At, AccountsInv, Types
  <2>2. UsesLink(r)
    BY <2>1 DEF Running, UsesLink
  <2> QED BY <2>2 DEF AccountsInv, LinkLocksOK
<1> QED BY <1>1, AccountsInvariant, PTL DEF LinksUsedOnce

(* ChangePassword locks the account before it deletes the links, so that no *)
(* link is inserted between its snapshot and its commit, and has locked all *)
(* of them as it commits: a reset that has marked one would hold it.        *)
THEOREM ChangesEndResetLinks == Spec => ChangeEndsResetLinks
<1>1. AccountsInv =>
        [\A r \in Requests :
           CommitChange(r) /\ req[r].op = "Change" =>
             /\ \A l \in Links : link'[l] = None \/ link'[l].kind # "reset"
                                   \/ link'[l].email # Email(r)
             /\ \A s \in Requests : req'[s].op = "Reset" /\ req'[s].email = Email(r) =>
                                   req'[s].pc = "use"]_vars
  <2> SUFFICES ASSUME AccountsInv, NEW r \in Requests, CommitChange(r),
                      req[r].op = "Change"
               PROVE  /\ \A l \in Links : link'[l] = None \/ link'[l].kind # "reset"
                                            \/ link'[l].email # Email(r)
                      /\ \A s \in Requests :
                           req'[s].op = "Reset" /\ req'[s].email = Email(r) =>
                             req'[s].pc = "use"
    OBVIOUS
  <2>1. \A l \in Deletes(r) : linkLock[l] = r
    BY DEF CommitChange, At, AccountsInv, SweepsOK
  <2>2. \A l \in Links : link'[l] = IF linkLock[l] = r THEN None ELSE link[l]
    BY DEF CommitChange
  <2>3. ASSUME NEW s \in Requests, req'[s].op = "Reset", req'[s].email = Email(r),
               req'[s].pc # "use"
        PROVE  FALSE
    <3>1. /\ req'[r] = Idle
          /\ \A t \in Requests \ {r} : req'[t] = req[t]
      BY DEF CommitChange, End, AccountsInv, Types, RequestsTyped
    <3>2. s # r /\ req[s].op = "Reset" /\ req[s].email = Email(r) /\ UsesLink(s)
      BY <2>3, <3>1 DEF Idle, UsesLink, LinkOps
    <3>3. req[s].link \in Links /\ linkLock[req[s].link] = s /\ link[req[s].link] # None
      BY <3>2 DEF AccountsInv, Types, RequestsTyped, Running, Idle, LinkOps, LinkLocksOK
    <3>4. req[s].link \in Deletes(r)
      BY <3>2, <3>3 DEF Deletes, AccountsInv, KindsOK, LinkOps
    <3> QED BY <2>1, <3>2, <3>3, <3>4
  <2> QED BY <2>1, <2>2, <2>3 DEF Deletes
<1> QED BY <1>1, AccountsInvariant, PTL DEF ChangeEndsResetLinks

(* The unique index: whoever commits an account found none of that address, *)
(* and nobody has inserted one since.                                       *)
THEOREM NoAccountReplaced == Spec => AccountsKept
<1>1. AccountsInv =>
        [\A r \in Requests : CommitAccount(r) => account[Email(r)] = None]_vars
  BY DEF CommitAccount, At, AccountsInv, InsertsOK, Inserting
<1> QED BY <1>1, AccountsInvariant, PTL DEF AccountsKept
=============================================================================
