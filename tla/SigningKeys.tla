---------------------------- MODULE SigningKeys ----------------------------
(***************************************************************************)
(* The keys that sign the provider's JWTs: internal/token/keys.go over     *)
(* internal/repository/postgres/keys.go.  Every process makes sure at its  *)
(* start that a key is active; a rotation retires the active key and       *)
(* inserts another in one transaction, and the retired key is published    *)
(* for a while longer.  A token carries its key and the time it expires,   *)
(* and is verified with the key if it is still published.                  *)
(*                                                                         *)
(* Nothing in the code ties the two periods together: whether a token      *)
(* verifies until it expires depends on how long a rotation and a          *)
(* signature may take.                                                     *)
(***************************************************************************)
EXTENDS Naturals

CONSTANTS
    Processes,    \* servers, their requests, and operator commands
    Kids,         \* bound: the keys ever generated
    Lifetime,     \* of a token (5 minutes)
    Publication,  \* of a retired key (10 minutes)
    MaxRotation,  \* longest time from BEGIN to COMMIT of a rotation
    MaxSigning,   \* longest time from reading the key to the token's exp
    MaxTime,      \* bound: the end of time
    None

(* What the service relies on. *)
ASSUME PeriodsAssumption ==
    /\ {Lifetime, Publication, MaxRotation, MaxSigning, MaxTime} \subseteq Nat
    /\ MaxRotation + MaxSigning + Lifetime <= Publication

KeyRows == [created : Nat, retired : BOOLEAN, until : Nat]

ASSUME NoneAssumption == None \notin Processes \cup Kids \cup KeyRows

VARIABLES
    now,      \* the clock of the database and the servers
    key,      \* signing_keys
    keyLock,  \* holder of pg_advisory_xact_lock(77213002)
    lastExp,  \* the latest exp of the tokens signed with a key
    proc      \* the running processes

vars == <<now, key, keyLock, lastExp, proc>>

Off == [pc |-> "off", kid |-> None, at |-> 0, rows |-> {}]

Init ==
    /\ now = 0
    /\ key = [k \in Kids |-> None]
    /\ keyLock = None
    /\ lastExp = [k \in Kids |-> 0]
    /\ proc = [p \in Processes |-> Off]

Active == {k \in Kids : key[k] # None /\ ~key[k].retired}

(* VerificationKey and PublicSigningKeys. *)
Published(k) == key[k] # None /\ (~key[k].retired \/ key[k].until > now)

GoTo(p, statement) == proc' = [proc EXCEPT ![p].pc = statement]

-----------------------------------------------------------------------------
(* Ensure, at the start of every process: how many keys are active?         *)
Start(p) ==
    /\ proc[p].pc = "off"
    /\ GoTo(p, "count")
    /\ UNCHANGED <<now, key, keyLock, lastExp>>

CountKeys(p) ==
    /\ proc[p].pc = "count"
    /\ GoTo(p, IF Active = {} THEN "generate" ELSE "serving")
    /\ UNCHANGED <<now, key, keyLock, lastExp>>

(* The operator's --rotate-key, or SSO_ROTATE_KEY at the start of a server. *)
RotateKey(p) ==
    /\ proc[p].pc = "serving"
    /\ GoTo(p, "generate")
    /\ UNCHANGED <<now, key, keyLock, lastExp>>

UnusedKids == {k \in Kids : key[k] = None /\ \A p \in Processes : proc[p].kid # k}

(* A key pair and a random kid; then BEGIN, which fixes now() for the        *)
(* transaction.  Once the bound is reached the process gives up.            *)
Generate(p) ==
    /\ proc[p].pc = "generate"
    /\ \/ \E k \in UnusedKids :
            proc' = [proc EXCEPT ![p].pc = "lock", ![p].kid = k, ![p].at = now]
       \/ UnusedKids = {} /\ proc' = [proc EXCEPT ![p] = Off]
    /\ UNCHANGED <<now, key, keyLock, lastExp>>

(* A version of TakeLock without the advisory lock. *)
GoOnUnlocked(p) ==
    /\ proc[p].pc = "lock"
    /\ GoTo(p, "retire")
    /\ UNCHANGED <<now, key, keyLock, lastExp>>

TakeLock(p) ==
    /\ proc[p].pc = "lock"
    /\ keyLock = None
    /\ keyLock' = p
    /\ GoTo(p, "retire")
    /\ UNCHANGED <<now, key, lastExp>>

(* A version of PublishedUntil that forgets that time passes between the     *)
(* signature, the retirement and the commit.                                *)
UntilExpiry(p) == proc[p].at + Lifetime

(* A version that leaves publish_until empty. *)
NoLimit(p) == None

(* now() + '10 minutes', of a transaction that began before it had the lock. *)
PublishedUntil(p) == proc[p].at + Publication

RetiredRow(p, k) == [key[k] EXCEPT !.retired = TRUE, !.until = PublishedUntil(p)]

(* A version of RetireKeys outside the transaction. *)
RetireAtOnce(p) ==
    /\ proc[p].pc = "retire"
    /\ key' = [k \in Kids |-> IF k \in Active THEN RetiredRow(p, k) ELSE key[k]]
    /\ GoTo(p, "insert")
    /\ UNCHANGED <<now, keyLock, lastExp>>

(* UPDATE signing_keys ... WHERE retired_at IS NULL. *)
RetireKeys(p) ==
    /\ proc[p].pc = "retire"
    /\ proc' = [proc EXCEPT ![p].pc = "insert", ![p].rows = Active]
    /\ UNCHANGED <<now, key, keyLock, lastExp>>

NewRow(p) == [created |-> proc[p].at, retired |-> FALSE, until |-> 0]

Released(p) == IF keyLock = p THEN None ELSE keyLock

(* The INSERT of the new key, and the commit. *)
CommitRotation(p) ==
    /\ proc[p].pc = "insert"
    /\ key' = [k \in Kids |-> IF k \in proc[p].rows THEN RetiredRow(p, k)
                              ELSE IF k = proc[p].kid THEN NewRow(p)
                              ELSE key[k]]
    /\ keyLock' = Released(p)
    /\ proc' = [proc EXCEPT ![p] = [Off EXCEPT !.pc = "serving"]]
    /\ UNCHANGED <<now, lastExp>>

-----------------------------------------------------------------------------
(* Sign: the newest active key is read, and used a little later.            *)
ReadActiveKey(p) ==
    /\ proc[p].pc = "serving"
    /\ \E k \in Active :
         /\ \A j \in Active : key[j].created <= key[k].created
         /\ proc' = [proc EXCEPT ![p].pc = "sign", ![p].kid = k, ![p].at = now]
    /\ UNCHANGED <<now, key, keyLock, lastExp>>

SignToken(p) ==
    /\ proc[p].pc = "sign"
    /\ lastExp' = [lastExp EXCEPT ![proc[p].kid] = now + Lifetime]
    /\ proc' = [proc EXCEPT ![p] = [Off EXCEPT !.pc = "serving"]]
    /\ UNCHANGED <<now, key, keyLock>>

-----------------------------------------------------------------------------
(* A version of Stop for a lock of the session, on a pooled connection.      *)
StopLocked(p) ==
    /\ proc[p].pc # "off"
    /\ proc' = [proc EXCEPT ![p] = Off]
    /\ UNCHANGED <<now, key, keyLock, lastExp>>

(* A command is done, a statement fails at the start, or the process dies: a *)
(* transaction is rolled back.                                              *)
Stop(p) ==
    /\ proc[p].pc # "off"
    /\ proc' = [proc EXCEPT ![p] = Off]
    /\ keyLock' = Released(p)
    /\ UNCHANGED <<now, key, lastExp>>

Rotating(p) == proc[p].pc \in {"lock", "retire", "insert"}

(* Time passes, within the longest a rotation and a signature may take.     *)
Tick ==
    /\ now < MaxTime
    /\ \A p \in Processes :
         /\ Rotating(p) => now < proc[p].at + MaxRotation
         /\ proc[p].pc = "sign" => now < proc[p].at + MaxSigning
    /\ now' = now + 1
    /\ UNCHANGED <<key, keyLock, lastExp, proc>>

Step(p) ==
    \/ CountKeys(p)
    \/ Generate(p)
    \/ TakeLock(p)
    \/ RetireKeys(p)
    \/ CommitRotation(p)
    \/ SignToken(p)

Next ==
    \/ \E p \in Processes :
         Start(p) \/ RotateKey(p) \/ ReadActiveKey(p) \/ Step(p) \/ Stop(p)
    \/ Tick

Spec == Init /\ [][Next]_vars

-----------------------------------------------------------------------------
(***************************************************************************)
(* Properties.                                                             *)
(***************************************************************************)
Statements == {"off", "count", "generate", "lock", "retire", "insert", "serving", "sign"}

(* Every variable has its type. *)
TypeOK ==
    /\ now \in Nat
    /\ key \in [Kids -> KeyRows \cup {None}]
    /\ keyLock \in Processes \cup {None}
    /\ lastExp \in [Kids -> Nat]
    /\ proc \in [Processes -> [pc : Statements, kid : Kids \cup {None}, at : Nat,
                               rows : SUBSET Kids]]

(* A token that has not expired is verified: its key is still published, in  *)
(* whatever order keys are read, retired and used.                          *)
UnexpiredVerify == \A k \in Kids : lastExp[k] > now => Published(k)

(* Never two active keys, however many processes start or rotate at once.    *)
OneActiveKey == \A j, k \in Active : j = k

(* A process that serves finds a key to sign with: the start and a rotation  *)
(* that fails half-way leave one.                                           *)
ServingHasKey ==
    \A p \in Processes : proc[p].pc \in {"serving", "sign"} => Active # {}
=============================================================================
