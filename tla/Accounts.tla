------------------------------ MODULE Accounts ------------------------------
(***************************************************************************)
(* Accounts, mailed links, browser sessions and attempt limits:            *)
(* internal/service/identity.go and limits.go over                         *)
(* internal/repository/postgres/identity.go, beside the administrator's    *)
(* ActivateAccount and DisableAccount and the import of Octopus users.     *)
(*                                                                         *)
(* Requests are interleaved statement by statement as PostgreSQL does at   *)
(* READ COMMITTED.  A password is the secret that hashes to the stored     *)
(* value; legacy tells a bcrypt hash from the salted ones this program     *)
(* makes, so that the row still holds a legacy hash exactly while legacy.  *)
(***************************************************************************)
EXTENDS Integers, FiniteSets

CONSTANTS
    Emails,     \* accounts.email, unique; a login name is one account's alike
    Secrets,    \* passwords
    Links,      \* bound: tokens of mailed links in the tables at a time
    Sessions,   \* bound: browser sessions at a time
    Requests,   \* slots for concurrently running requests
    Limit,      \* attempts an identifier has in a window
    None        \* no request, no row, no value

Statuses == {"pending", "active", "disabled"}

AccountRows == [secret : Secrets, legacy : BOOLEAN, verified : BOOLEAN,
                status : Statuses]

(* Rows of email_verifications and password_resets that were not used: a    *)
(* used row is refused like a missing one.  late: past expires_at.          *)
LinkRows == [kind : {"verify", "reset"}, email : Emails, late : BOOLEAN]

(* secret: the password the session was opened with. *)
SessionRows == [email : Emails, secret : Secrets]

ASSUME ConstantsAssumption ==
    /\ Limit \in Nat
    /\ IsFiniteSet(Requests)
    /\ None \notin Requests \cup Secrets \cup Links \cup AccountRows
                     \cup LinkRows \cup SessionRows

VARIABLES
    account,     \* accounts
    link,        \* email_verifications and password_resets
    session,     \* browser_sessions
    attempts,    \* auth_limits: attempts in the current window
    compared,    \* passwords compared in the current window, less the logins
                 \* that an earlier one had let through when it ended
    accountLock, \* holder of the lock on an accounts row
    linkLock,    \* holder of the lock on a link's row
    req          \* the running requests

tables == <<account, link, session, attempts, compared>>
locks == <<accountLock, linkLock>>
vars == <<tables, locks, req>>

Idle == [op |-> "none", pc |-> "idle", email |-> None, secret |-> None,
         next |-> None, link |-> None, late |-> FALSE, todo |-> {}]

Init ==
    /\ account = [e \in Emails |-> None]
    /\ link = [l \in Links |-> None]
    /\ session = [s \in Sessions |-> None]
    /\ attempts = [e \in Emails |-> 0]
    /\ compared = [e \in Emails |-> 0]
    /\ accountLock = [e \in Emails |-> None]
    /\ linkLock = [l \in Links |-> None]
    /\ req = [r \in Requests |-> Idle]

Email(r) == req[r].email

(* Link tokens are random: one not in the tables nor in anybody's hands. *)
FreeLinks == {l \in Links : /\ link[l] = None
                            /\ linkLock[l] = None
                            /\ \A r \in Requests : req[r].link # l /\ l \notin req[r].todo}

-----------------------------------------------------------------------------
(***************************************************************************)
(* Waiting, going on, ending.                                              *)
(***************************************************************************)
Others(r, holder) == {holder} \ {None, r}

(* A version in which ChangePassword selects the account without FOR UPDATE. *)
KeyLockedByLogin(r) ==
    {s \in Others(r, accountLock[Email(r)]) : req[s].op = "Login"}

(* WithLogin and ChangePassword select the account FOR UPDATE; the INSERT of *)
(* a link, which refers to the account, waits for that and not for an UPDATE. *)
KeyLocked(r) ==
    {s \in Others(r, accountLock[Email(r)]) : req[s].op \in {"Login", "Change"}}

Inserts == {"Register", "Import"}

(* A version without the unique index of accounts.email. *)
InsertedByNobody(r) == {s \in Requests \ {r} : FALSE}

(* A unique value waits for the transaction that has inserted it. *)
InsertedBy(r) ==
    {s \in Requests \ {r} : /\ req[s].op \in Inserts
                            /\ req[s].pc = "commit"
                            /\ Email(s) = Email(r)}

(* PostgreSQL: the requests whose locks the pending statement waits for.    *)
BlockedBy(r) ==
    LET q == req[r]
    IN  CASE q.pc = "insert" -> InsertedBy(r)
          [] q.pc = "link" -> KeyLocked(r)
          [] q.pc = "use" -> Others(r, linkLock[q.link])
          [] q.pc \in {"account", "upgrade"} -> Others(r, accountLock[q.email])
          [] q.pc = "delete" -> UNION {Others(r, linkLock[l]) : l \in q.todo}
          [] OTHER -> {}

At(r, statement) == req[r].pc = statement /\ BlockedBy(r) = {}

GoTo(r, statement) == req' = [req EXCEPT ![r].pc = statement]

Freed(lock, r) == [x \in DOMAIN lock |-> IF lock[x] = r THEN None ELSE lock[x]]

ReleaseLocks(r) ==
    /\ accountLock' = Freed(accountLock, r)
    /\ linkLock' = Freed(linkLock, r)

(* The request is answered; what it has not committed is rolled back. *)
End(r) == req' = [req EXCEPT ![r] = Idle] /\ ReleaseLocks(r)

-----------------------------------------------------------------------------
(***************************************************************************)
(* Requests.                                                               *)
(***************************************************************************)
Start(r, op, statement, e, secret, next) ==
    req' = [req EXCEPT ![r] = [Idle EXCEPT !.op = op, !.pc = statement,
                                 !.email = e, !.secret = secret, !.next = next]]

Registered(p) == [secret |-> p, legacy |-> FALSE, verified |-> FALSE,
                  status |-> "pending"]

(* approved, pending and rejected users of Octopus. *)
Imported(p, status) == [secret |-> p, legacy |-> TRUE,
                        verified |-> status = "active", status |-> status]

(* readUsers refuses records of any other kind. *)
LegacyUsers == {Imported(p, status) : p \in Secrets, status \in Statuses}

(* What anybody may ask for, and an administrator. *)
Begin(r) ==
    /\ req[r].pc = "idle"
    /\ \E e \in Emails :
         \/ \E p \in Secrets : Start(r, "Register", "insert", e, None, Registered(p))
         \/ \E user \in LegacyUsers : Start(r, "Import", "check", e, None, user)
         \/ \E p \in Secrets : Start(r, "Login", "count", e, p, None)
         \/ \E op \in {"Resend", "Forgot"} : Start(r, op, "find", e, None, None)
         \/ \E op \in {"Activate", "Disable"} : Start(r, op, "account", e, None, None)
    /\ UNCHANGED <<tables, locks>>

(* A mailed link is followed.  now() is the transaction's start, so whether *)
(* the link has expired is settled before it waits for the row.             *)
BeginLink(r) ==
    /\ req[r].pc = "idle"
    /\ \E l \in Links :
         /\ link[l] # None
         /\ \A s \in Requests : req[s].link = l => req[s].pc # "send"
         /\ \E op \in {"Verify", "Reset"},
               next \in IF link[l].kind = "reset" THEN Secrets ELSE {None} :
              /\ (op = "Reset") <=> (link[l].kind = "reset")
              /\ req' = [req EXCEPT ![r] =
                           [op |-> op, pc |-> "use", email |-> link[l].email,
                            secret |-> None, next |-> next, link |-> l,
                            late |-> link[l].late, todo |-> {}]]
    /\ UNCHANGED <<tables, locks>>

SessionAccount(s) ==
    session[s] # None /\ account[session[s].email].status # "disabled"

(* The browser's session is read before the transaction. *)
BeginChange(r) ==
    /\ req[r].pc = "idle"
    /\ \E s \in Sessions, current, next \in Secrets :
         /\ SessionAccount(s)
         /\ Start(r, "Change", "account", session[s].email, current, next)
    /\ UNCHANGED <<tables, locks>>

-----------------------------------------------------------------------------
(***************************************************************************)
(* New accounts and links.                                                 *)
(***************************************************************************)
(* The import looks for conflicts before its transaction ... *)
CheckImport(r) ==
    /\ At(r, "check")
    /\ IF account[Email(r)] # None THEN End(r) ELSE GoTo(r, "insert") /\ UNCHANGED locks
    /\ UNCHANGED tables

(* ... and whatever was inserted since fails it, or is an earlier import.   *)
InsertAccount(r) ==
    /\ At(r, "insert")
    /\ IF account[Email(r)] # None THEN End(r) ELSE GoTo(r, "commit") /\ UNCHANGED locks
    /\ UNCHANGED tables

AddedLink(r, l) ==
    link' = [link EXCEPT ![l] =
               [kind |-> IF req[r].op = "Forgot" THEN "reset" ELSE "verify",
                email |-> Email(r), late |-> FALSE]]

CommitAccount(r) ==
    /\ At(r, "commit")
    /\ req[r].op \in Inserts
    /\ account' = [account EXCEPT ![Email(r)] = req[r].next]
    /\ \/ /\ req[r].op = "Register"
          /\ \E l \in FreeLinks :
               /\ AddedLink(r, l)
               /\ req' = [req EXCEPT ![r].pc = "send", ![r].link = l]
          /\ UNCHANGED locks
       \/ req[r].op = "Import" /\ End(r) /\ UNCHANGED link
    /\ UNCHANGED <<session, attempts, compared>>

(* UnverifiedAccountID and PasswordResetAccount. *)
MayGetLink(r) ==
    LET a == account[Email(r)]
    IN  /\ a # None
        /\ a.verified <=> req[r].op = "Forgot"
        /\ req[r].op = "Forgot" => a.status # "disabled"

FindAccount(r) ==
    /\ At(r, "find")
    /\ IF MayGetLink(r) THEN GoTo(r, "link") /\ UNCHANGED locks ELSE End(r)
    /\ UNCHANGED tables

AddLink(r) ==
    /\ At(r, "link")
    /\ \E l \in FreeLinks :
         /\ AddedLink(r, l)
         /\ req' = [req EXCEPT ![r].pc = "send", ![r].link = l]
    /\ UNCHANGED <<account, session, attempts, compared, locks>>

(* The mail is accepted, or refused and the row stays. *)
Send(r) == At(r, "send") /\ End(r) /\ UNCHANGED tables

-----------------------------------------------------------------------------
(***************************************************************************)
(* Login.                                                                  *)
(***************************************************************************)
Allowed(e) == attempts[e] < Limit

(* A version in which a failing limits table lets everyone through. *)
CountAttemptOrPass(r) ==
    /\ At(r, "count")
    /\ LET e == Email(r)
       IN  \/ /\ Allowed(e)
              /\ attempts' = [attempts EXCEPT ![e] = @ + 1]
              /\ GoTo(r, "account")
              /\ UNCHANGED locks
           \/ GoTo(r, "account") /\ UNCHANGED <<attempts, locks>>
    /\ UNCHANGED <<account, link, session, compared>>

(* IncrementAttempt, one upsert; counting stops to matter past the limit.   *)
CountAttempt(r) ==
    /\ At(r, "count")
    /\ LET e == Email(r)
       IN  IF Allowed(e)
           THEN /\ attempts' = [attempts EXCEPT ![e] = @ + 1]
                /\ GoTo(r, "account")
                /\ UNCHANGED locks
           ELSE /\ attempts' = [attempts EXCEPT ![e] = Limit + 1]
                /\ End(r)
    /\ UNCHANGED <<account, link, session, compared>>

CreateSession(r) ==
    /\ At(r, "commit")
    /\ req[r].op = "Login"
    /\ \E s \in Sessions :
         /\ session[s] = None
         /\ session' = [session EXCEPT ![s] = [email |-> Email(r),
                                               secret |-> req[r].secret]]
    /\ req' = [req EXCEPT ![r] = IF account[Email(r)].legacy
                                 THEN [@ EXCEPT !.pc = "upgrade"] ELSE Idle]
    /\ ReleaseLocks(r)
    /\ UNCHANGED <<account, link, attempts, compared>>

(* A version whose UPDATE does not compare the hash. *)
UpgradeAnyHash(r) ==
    /\ At(r, "upgrade")
    /\ account' = [account EXCEPT ![Email(r)].secret = req[r].secret,
                                  ![Email(r)].legacy = FALSE]
    /\ End(r)
    /\ UNCHANGED <<link, session, attempts, compared>>

(* UpgradePasswordHash, after the session's transaction: no effect unless   *)
(* the row still has the legacy hash the password was compared with.        *)
UpgradeHash(r) ==
    /\ At(r, "upgrade")
    /\ account' = [account EXCEPT ![Email(r)].legacy =
                     @ /\ account[Email(r)].secret # req[r].secret]
    /\ End(r)
    /\ UNCHANGED <<link, session, attempts, compared>>

-----------------------------------------------------------------------------
(***************************************************************************)
(* Links, passwords and the account's status.                              *)
(***************************************************************************)
(* A version that reads the link without locking its row. *)
ReadLink(r) ==
    /\ At(r, "use")
    /\ IF link[req[r].link] = None \/ req[r].late
       THEN End(r)
       ELSE GoTo(r, "account") /\ UNCHANGED locks
    /\ UNCHANGED tables

(* The UPDATE that marks the link used. *)
UseLink(r) ==
    /\ At(r, "use")
    /\ LET l == req[r].link
       IN  IF link[l] = None \/ req[r].late
           THEN End(r)
           ELSE /\ linkLock' = [linkLock EXCEPT ![l] = r]
                /\ GoTo(r, "account")
                /\ UNCHANGED accountLock
    /\ UNCHANGED tables

Verifies(password, a) == a.secret = password

(* A version of Login that does not look at the status. *)
AccountMatchesAnyStatus(r) ==
    LET a == account[Email(r)]
    IN  /\ a # None
        /\ CASE req[r].op = "Login" -> Verifies(req[r].secret, a) /\ a.verified
             [] req[r].op = "Change" -> Verifies(req[r].secret, a) /\ a.status # "disabled"
             [] req[r].op = "Activate" -> a.verified /\ a.status # "active"
             [] req[r].op = "Disable" -> a.status # "disabled"
             [] OTHER -> TRUE

AccountMatches(r) ==
    LET a == account[Email(r)]
    IN  /\ a # None
        /\ CASE req[r].op = "Login" ->
                  Verifies(req[r].secret, a) /\ a.verified /\ a.status # "disabled"
             [] req[r].op = "Change" -> Verifies(req[r].secret, a) /\ a.status # "disabled"
             [] req[r].op = "Activate" -> a.verified /\ a.status # "active"
             [] req[r].op = "Disable" -> a.status # "disabled"
             [] OTHER -> TRUE

EndsSessions == {"Reset", "Change", "Disable"}

AfterAccount(r) == IF req[r].op \in EndsSessions THEN "scan" ELSE "commit"

(* Login compares the password, right or wrong, once the row is read. *)
ComparesPassword(r) == req[r].op = "Login" /\ account[Email(r)] # None

CountComparison(r) ==
    /\ compared' = IF ComparesPassword(r)
                   THEN [compared EXCEPT ![Email(r)] = @ + 1] ELSE compared
    /\ UNCHANGED <<account, link, session, attempts>>

(* A version of WithLogin that reads the account without FOR UPDATE. *)
ReadAccount(r) ==
    /\ At(r, "account")
    /\ IF ~AccountMatches(r)
       THEN End(r)
       ELSE /\ GoTo(r, AfterAccount(r))
            /\ accountLock' = [accountLock EXCEPT ![Email(r)] =
                                 IF req[r].op = "Login" THEN @ ELSE r]
            /\ UNCHANGED linkLock
    /\ CountComparison(r)

(* The UPDATE or the SELECT FOR UPDATE of the account, and its conditions.  *)
LockAccount(r) ==
    /\ At(r, "account")
    /\ IF ~AccountMatches(r)
       THEN End(r)
       ELSE /\ accountLock' = [accountLock EXCEPT ![Email(r)] = r]
            /\ GoTo(r, AfterAccount(r))
            /\ UNCHANGED linkLock
    /\ CountComparison(r)

(* A version with one table for both kinds of links. *)
DeletesEveryLink(r) == {l \in Links : link[l] # None /\ link[l].email = Email(r)}

(* DELETE FROM password_resets WHERE account_id=$1. *)
Deletes(r) == {l \in Links : /\ link[l] # None
                             /\ link[l].kind = "reset"
                             /\ link[l].email = Email(r)}

(* The DELETE takes its snapshot: links added later are not its own ... *)
ScanLinks(r) ==
    /\ At(r, "scan")
    /\ req' = [req EXCEPT ![r].pc = "delete", ![r].todo = Deletes(r)]
    /\ UNCHANGED <<tables, locks>>

(* ... and it locks the rows it saw, once nobody else holds one. *)
DeleteLinks(r) ==
    /\ At(r, "delete")
    /\ linkLock' = [l \in Links |-> IF l \in req[r].todo THEN r ELSE linkLock[l]]
    /\ req' = [req EXCEPT ![r].pc = "commit", ![r].todo = {}]
    /\ UNCHANGED <<tables, accountLock>>

(* A status the schema does not know. *)
AccountAfterBlocked(r) ==
    LET a == account[Email(r)]
    IN  CASE req[r].op = "Verify" -> [a EXCEPT !.verified = TRUE]
          [] req[r].op = "Disable" -> [a EXCEPT !.status = "blocked"]
          [] req[r].op = "Activate" -> [a EXCEPT !.status = "active"]
          [] OTHER -> [a EXCEPT !.secret = req[r].next, !.legacy = FALSE]

AccountAfter(r) ==
    LET a == account[Email(r)]
    IN  CASE req[r].op = "Verify" -> [a EXCEPT !.verified = TRUE]
          [] req[r].op = "Disable" -> [a EXCEPT !.status = "disabled"]
          [] req[r].op = "Activate" -> [a EXCEPT !.status = "active"]
          [] OTHER -> [a EXCEPT !.secret = req[r].next, !.legacy = FALSE]

(* The locked links are used up or deleted.  No session is inserted while   *)
(* the account is locked, so the sessions deleted are those of this state.  *)
CommitChange(r) ==
    /\ At(r, "commit")
    /\ req[r].op \in EndsSessions \cup {"Verify", "Activate"}
    /\ account' = [account EXCEPT ![Email(r)] = AccountAfter(r)]
    /\ link' = [l \in Links |-> IF linkLock[l] = r THEN None ELSE link[l]]
    /\ session' = [s \in Sessions |->
                     IF /\ req[r].op \in EndsSessions
                        /\ session[s] # None
                        /\ session[s].email = Email(r)
                     THEN None ELSE session[s]]
    /\ End(r)
    /\ UNCHANGED <<attempts, compared>>

-----------------------------------------------------------------------------
(* Time passes, and CleanupExpired follows it. *)
ExpireLink(l) ==
    /\ link[l] # None
    /\ ~link[l].late
    /\ link' = [link EXCEPT ![l].late = TRUE]
    /\ UNCHANGED <<account, session, attempts, compared, locks, req>>

(* A day later: whoever began before the link expired has ended. *)
CleanupLink(l) ==
    /\ link[l] # None
    /\ link[l].late
    /\ \A r \in Requests : req[r].link # l \/ req[r].late
    /\ linkLock[l] = None
    /\ link' = [link EXCEPT ![l] = None]
    /\ UNCHANGED <<account, session, attempts, compared, locks, req>>

(* Logout, or seven days and the cleanup. *)
DeleteSession(s) ==
    /\ session[s] # None
    /\ session' = [session EXCEPT ![s] = None]
    /\ UNCHANGED <<account, link, attempts, compared, locks, req>>

(* Logins let through whose password is not compared yet. *)
LetThrough(e) ==
    {r \in Requests : req[r].op = "Login" /\ req[r].pc = "account" /\ Email(r) = e}

(* The window ends; the next attempt counts as the first. *)
WindowEnds(e) ==
    /\ attempts[e] # 0
    /\ attempts' = [attempts EXCEPT ![e] = 0]
    /\ compared' = [compared EXCEPT ![e] = -Cardinality(LetThrough(e))]
    /\ UNCHANGED <<account, link, session, locks, req>>

(* A statement fails, the client goes away or the process dies. *)
Fail(r) == req[r].pc # "idle" /\ End(r) /\ UNCHANGED tables

(* Requests each of which waits for another one of them. *)
WaitCycle(D) == D # {} /\ \A r \in D : BlockedBy(r) \cap D # {}

(* PostgreSQL aborts one transaction of a cycle of waits. *)
DeadlockAbort(r) ==
    /\ \E D \in SUBSET Requests : r \in D /\ WaitCycle(D)
    /\ End(r)
    /\ UNCHANGED tables

Step(r) ==
    \/ CheckImport(r)
    \/ InsertAccount(r)
    \/ CommitAccount(r)
    \/ FindAccount(r)
    \/ AddLink(r)
    \/ Send(r)
    \/ CountAttempt(r)
    \/ CreateSession(r)
    \/ UpgradeHash(r)
    \/ UseLink(r)
    \/ LockAccount(r)
    \/ ScanLinks(r)
    \/ DeleteLinks(r)
    \/ CommitChange(r)

Next ==
    \/ \E r \in Requests : Begin(r) \/ BeginLink(r) \/ BeginChange(r) \/ Step(r)
                             \/ Fail(r) \/ DeadlockAbort(r)
    \/ \E l \in Links : ExpireLink(l) \/ CleanupLink(l)
    \/ \E s \in Sessions : DeleteSession(s)
    \/ \E e \in Emails : WindowEnds(e)

Spec == Init /\ [][Next]_vars

-----------------------------------------------------------------------------
(***************************************************************************)
(* Properties.                                                             *)
(***************************************************************************)
Operations ==
    {"none", "Register", "Import", "Login", "Resend", "Forgot", "Activate",
     "Disable", "Verify", "Reset", "Change"}

Statements ==
    {"idle", "check", "insert", "find", "link", "send", "count", "upgrade", "use",
     "account", "scan", "delete", "commit"}

ReqState == [op : Operations, pc : Statements, email : Emails \cup {None},
             secret : Secrets \cup {None},
             next : AccountRows \cup Secrets \cup {None},
             link : Links \cup {None}, late : BOOLEAN, todo : SUBSET Links]

(* Every variable has its type; locks are held by requests. *)
TypeOK ==
    /\ account \in [Emails -> AccountRows \cup {None}]
    /\ link \in [Links -> LinkRows \cup {None}]
    /\ session \in [Sessions -> SessionRows \cup {None}]
    /\ attempts \in [Emails -> 0..(Limit + 1)]
    /\ compared \in [Emails -> Int]
    /\ accountLock \in [Emails -> Requests \cup {None}]
    /\ linkLock \in [Links -> Requests \cup {None}]
    /\ req \in [Requests -> ReqState]

(* A session is open only to who knew the account's present password: one   *)
(* that a login opens beside a change or a reset does not outlive it.       *)
SessionsFollowPassword ==
    \A s \in Sessions :
      session[s] # None => session[s].secret = account[session[s].email].secret

(* A disabled account has no session, though logins compare the password    *)
(* while the administrator disables it.                                     *)
NoSessionOfDisabled ==
    \A s \in Sessions :
      session[s] # None => account[session[s].email].status # "disabled"

(* Whatever a cycle of waits for accounts and links, a reset is in it: it    *)
(* alone locks a link before the account, while changes and disablings lock *)
(* links after it.  Locks of other tables are not in this module.           *)
OnlyResetsDeadlock ==
    \A D \in SUBSET Requests : WaitCycle(D) => \E r \in D : req[r].op = "Reset"

(* In one window at most Limit passwords are compared for an identifier,    *)
(* and one more for each login that an earlier window let through and that  *)
(* was still to compare when it ended: the attempt is counted in a          *)
(* transaction of its own, before the one that compares.                    *)
ComparisonsLimited == \A e \in Emails : compared[e] <= Limit

(* An account's password changes only when a Change commits that presented  *)
(* the password it replaces, or a Reset does: no upgrade of a legacy hash   *)
(* brings an old password back, no change undoes one it did not see.        *)
PasswordChangesEarned ==
    [][\A e \in Emails :
         account[e] # None /\ account'[e].secret # account[e].secret =>
           \E r \in Requests :
             /\ CommitChange(r)
             /\ Email(r) = e
             /\ \/ req[r].op = "Change" /\ req[r].secret = account[e].secret
                \/ req[r].op = "Reset"]_vars

(* A link sets a password, or verifies the address, once: when the          *)
(* transaction commits the link is there and nobody has used it.            *)
LinksUsedOnce ==
    [][\A r \in Requests :
         CommitChange(r) /\ req[r].link # None => link[req[r].link] # None]_vars

(* A Change has the last word over the links that exist when it commits:    *)
(* none of them is left in the table, nor has a Reset under way marked one  *)
(* used and yet to set its password, so whoever follows one later is        *)
(* refused.  A link inserted afterwards is not among them: AddLink of a     *)
(* Forgot that has found the account waits for the FOR UPDATE and goes      *)
(* through after the commit, and its link works.                            *)
ChangeEndsResetLinks ==
    [][\A r \in Requests :
         CommitChange(r) /\ req[r].op = "Change" =>
           /\ \A l \in Links : link'[l] = None \/ link'[l].kind # "reset"
                                 \/ link'[l].email # Email(r)
           /\ \A s \in Requests : req'[s].op = "Reset" /\ req'[s].email = Email(r) =>
                                 req'[s].pc = "use"]_vars

(* A registration or an import never takes the place of an account. *)
AccountsKept ==
    [][\A r \in Requests : CommitAccount(r) => account[Email(r)] = None]_vars
=============================================================================
