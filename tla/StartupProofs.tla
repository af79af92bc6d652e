---------------------------- MODULE StartupProofs ----------------------------
(***************************************************************************)
(* Theorems about SigningKeys and Startup.  The keys come first, for any   *)
(* number of processes and keys and any periods that meet                  *)
(* PeriodsAssumption; then Startup, which implements SigningKeys, so that  *)
(* what is proved about keys holds of processes that migrate first; and    *)
(* migrations run once, for any number of processes and releases.          *)
(***************************************************************************)
EXTENDS Startup, TLAPS

-----------------------------------------------------------------------------
(* The inductive invariant.                                                 *)

(* From the UPDATE to the commit a rotation holds the advisory lock.        *)
LockOK ==
    \A p \in Processes : proc[p].pc \in {"retire", "insert"} => keyLock = p

(* The key a rotation will insert is its own, and new.                      *)
NewKeysOK ==
    \A p \in Processes :
      Rotating(p) =>
        /\ proc[p].kid \in Kids /\ key[proc[p].kid] = None
        /\ \A q \in Processes \ {p} : Rotating(q) => proc[q].kid # proc[p].kid

(* The rows that a rotation has retired are still the active ones.          *)
RowsOK == \A p \in Processes : proc[p].pc = "insert" => proc[p].rows = Active

(* No rotation and no signature has taken longer than it may.               *)
TimesOK ==
    \A p \in Processes :
      /\ Rotating(p) => proc[p].at <= now /\ now <= proc[p].at + MaxRotation
      /\ proc[p].pc = "sign" => proc[p].at <= now /\ now <= proc[p].at + MaxSigning

(* A key that was active when it was read is published for at least          *)
(* Publication - MaxRotation from then.                                     *)
ReadKeysOK ==
    \A p \in Processes :
      proc[p].pc = "sign" =>
        /\ proc[p].kid \in Kids /\ key[proc[p].kid] # None
        /\ key[proc[p].kid].retired =>
             proc[p].at + Publication <= key[proc[p].kid].until + MaxRotation

(* A retired key is published until the last of its tokens has expired.     *)
RetiredOK ==
    \A k \in Kids :
      /\ lastExp[k] <= now + Lifetime
      /\ key[k] = None => lastExp[k] = 0
      /\ key[k] # None /\ key[k].retired => lastExp[k] <= key[k].until

KeysInv ==
    /\ TypeOK
    /\ LockOK /\ NewKeysOK /\ RowsOK
    /\ TimesOK /\ ReadKeysOK /\ RetiredOK
    /\ OneActiveKey /\ ServingHasKey

ProcState == [pc : Statements, kid : Kids \cup {None}, at : Nat, rows : SUBSET Kids]

LEMMA Periods ==
    /\ Lifetime \in Nat /\ Publication \in Nat /\ MaxRotation \in Nat /\ MaxSigning \in Nat
    /\ MaxRotation + MaxSigning + Lifetime <= Publication
BY PeriodsAssumption

LEMMA InitKeys == Init => KeysInv
<1> SUFFICES ASSUME Init PROVE KeysInv
  OBVIOUS
<1> USE Periods DEF Init, Off
<1>1. TypeOK
  BY DEF TypeOK, Statements
<1>2. LockOK /\ NewKeysOK /\ RowsOK /\ TimesOK /\ ReadKeysOK /\ ServingHasKey
  BY DEF LockOK, NewKeysOK, RowsOK, TimesOK, ReadKeysOK, ServingHasKey, Rotating
<1>3. RetiredOK /\ OneActiveKey
  BY DEF RetiredOK, OneActiveKey, Active
<1> QED BY <1>1, <1>2, <1>3 DEF KeysInv

-----------------------------------------------------------------------------
(* A statement of one process that leaves the keys as they are.             *)
Quietly(p, s) ==
    /\ proc' = [proc EXCEPT ![p] = s]
    /\ UNCHANGED <<now, key, lastExp>>
    /\ \A q \in Processes \ {p} : keyLock = q => keyLock' = q

(* What the next state s of process p must be for the invariant to go on.    *)
Sound(p, s) ==
    /\ s \in ProcState
    /\ keyLock' \in Processes \cup {None}
    /\ s.pc \in {"retire", "insert"} => keyLock' = p
    /\ s.pc \in {"lock", "retire", "insert"} =>
         /\ s.kid \in Kids /\ key[s.kid] = None
         /\ \A q \in Processes \ {p} : Rotating(q) => proc[q].kid # s.kid
         /\ s.at <= now /\ now <= s.at + MaxRotation
    /\ s.pc = "insert" => s.rows = Active
    /\ s.pc = "sign" => /\ s.kid \in Active
                        /\ s.at = now
    /\ s.pc \in {"serving", "sign"} => Active # {}

LEMMA QuietKeeps ==
    ASSUME KeysInv, NEW p \in Processes, NEW s, Quietly(p, s), Sound(p, s)
    PROVE  KeysInv'
<1> USE Periods DEF KeysInv, Quietly
<1>1. TypeOK'
  BY DEF TypeOK, Sound, ProcState
<1>2. /\ proc'[p] = s
      /\ \A q \in Processes \ {p} : proc'[q] = proc[q]
      /\ Active' = Active
  BY DEF TypeOK, Active
<1>3. LockOK'
  BY <1>2 DEF LockOK, Sound
<1>4. NewKeysOK'
  BY <1>2 DEF NewKeysOK, Sound, Rotating
<1>5. RowsOK' /\ ServingHasKey'
  BY <1>2 DEF RowsOK, ServingHasKey, Sound
<1>6. TimesOK'
  BY <1>2 DEF TimesOK, Sound, Rotating, ProcState, TypeOK
<1>7. ReadKeysOK'
  BY <1>2 DEF ReadKeysOK, Sound, Active
<1>8. RetiredOK' /\ OneActiveKey'
  BY <1>2 DEF RetiredOK, OneActiveKey
<1> QED BY <1>1, <1>3, <1>4, <1>5, <1>6, <1>7, <1>8

LEMMA QuietSteps ==
    ASSUME KeysInv, NEW p \in Processes,
           \/ Start(p) \/ CountKeys(p) \/ RotateKey(p) \/ Generate(p) \/ TakeLock(p)
           \/ RetireKeys(p) \/ ReadActiveKey(p) \/ Stop(p)
    PROVE  KeysInv'
<1> USE Periods, NoneAssumption DEF KeysInv, TypeOK, GoTo
<1> DEFINE At(statement) == [proc[p] EXCEPT !.pc = statement]
<1>1. ASSUME NEW t \in Statements
      PROVE  At(t) \in ProcState /\ At(t).pc = t /\ At(t).kid = proc[p].kid
             /\ At(t).at = proc[p].at /\ At(t).rows = proc[p].rows
  BY DEF ProcState
<1>2. Off \in ProcState /\ Off.pc = "off"
  BY DEF Off, ProcState, Statements
<1>3. CASE Start(p)
  <2>1. Quietly(p, At("count"))
    BY <1>3 DEF Start, Quietly
  <2>2. Sound(p, At("count"))
    BY <1>1, <1>3 DEF Start, Sound, Statements
  <2> QED BY <2>1, <2>2, QuietKeeps
<1>4. CASE CountKeys(p)
  <2> DEFINE t == IF Active = {} THEN "generate" ELSE "serving"
  <2>1. Quietly(p, At(t))
    BY <1>4 DEF CountKeys, Quietly
  <2>2. Sound(p, At(t))
    BY <1>1, <1>4 DEF CountKeys, Sound, Statements
  <2> QED BY <2>1, <2>2, QuietKeeps
<1>5. CASE RotateKey(p)
  <2>1. Quietly(p, At("generate"))
    BY <1>5 DEF RotateKey, Quietly
  <2>2. Sound(p, At("generate"))
    BY <1>1, <1>5 DEF RotateKey, Sound, Statements
  <2> QED BY <2>1, <2>2, QuietKeeps
<1>6. CASE Generate(p)
  <2>1. CASE proc' = [proc EXCEPT ![p] = Off]
    <3>1. Quietly(p, Off) /\ Sound(p, Off)
      BY <1>2, <1>6, <2>1 DEF Generate, Quietly, Sound
    <3> QED BY <3>1, QuietKeeps
  <2>2. CASE \E k \in UnusedKids :
               proc' = [proc EXCEPT ![p].pc = "lock", ![p].kid = k, ![p].at = now]
    <3>1. PICK k \in UnusedKids :
            proc' = [proc EXCEPT ![p].pc = "lock", ![p].kid = k, ![p].at = now]
      BY <2>2
    <3> DEFINE s == [proc[p] EXCEPT !.pc = "lock", !.kid = k, !.at = now]
    <3>2. Quietly(p, s)
      BY <1>6, <3>1 DEF Generate, Quietly
    <3>3. s \in ProcState /\ s.pc = "lock" /\ s.kid = k /\ s.at = now
      BY DEF ProcState, Statements, UnusedKids
    <3>4. k \in Kids /\ key[k] = None /\ \A q \in Processes : proc[q].kid # k
      BY DEF UnusedKids
    <3>5. now \in Nat /\ keyLock' = keyLock /\ keyLock \in Processes \cup {None}
      BY <1>6 DEF Generate
    <3> HIDE DEF s
    <3>6. Sound(p, s)
      BY <3>3, <3>4, <3>5 DEF Sound
    <3> QED BY <3>2, <3>6, QuietKeeps
  <2> QED BY <1>6, <2>1, <2>2 DEF Generate
<1>7. CASE TakeLock(p)
  <2>1. Quietly(p, At("retire"))
    BY <1>7 DEF TakeLock, Quietly
  <2>2. Sound(p, At("retire"))
    BY <1>1, <1>7 DEF TakeLock, Sound, Statements, NewKeysOK, TimesOK, Rotating
  <2> QED BY <2>1, <2>2, QuietKeeps
<1>8. CASE RetireKeys(p)
  <2> DEFINE s == [proc[p] EXCEPT !.pc = "insert", !.rows = Active]
  <2>1. Quietly(p, s)
    BY <1>8 DEF RetireKeys, Quietly
  <2>2. s \in ProcState /\ s.pc = "insert" /\ s.kid = proc[p].kid /\ s.at = proc[p].at
        /\ s.rows = Active
    BY DEF ProcState, Statements, Active
  <2> HIDE DEF s
  <2>3. Rotating(p) /\ keyLock = p /\ keyLock' = keyLock
    BY <1>8 DEF RetireKeys, LockOK, Rotating
  <2>4. /\ proc[p].kid \in Kids /\ key[proc[p].kid] = None
        /\ \A q \in Processes \ {p} : Rotating(q) => proc[q].kid # proc[p].kid
    BY <2>3 DEF NewKeysOK
  <2>5. proc[p].at <= now /\ now <= proc[p].at + MaxRotation
    BY <2>3 DEF TimesOK
  <2>6. Sound(p, s)
    BY <2>2, <2>3, <2>4, <2>5 DEF Sound
  <2> QED BY <2>1, <2>6, QuietKeeps
<1>9. CASE ReadActiveKey(p)
  <2>1. PICK k \in Active :
          proc' = [proc EXCEPT ![p].pc = "sign", ![p].kid = k, ![p].at = now]
    BY <1>9 DEF ReadActiveKey
  <2> DEFINE s == [proc[p] EXCEPT !.pc = "sign", !.kid = k, !.at = now]
  <2>2. Quietly(p, s)
    BY <1>9, <2>1 DEF ReadActiveKey, Quietly
  <2>3. s \in ProcState /\ s.pc = "sign" /\ s.kid = k /\ s.at = now
    BY DEF ProcState, Statements, Active
  <2>4. Sound(p, s)
    BY <1>9, <2>3 DEF ReadActiveKey, Sound
  <2> QED BY <2>2, <2>4, QuietKeeps
<1>10. CASE Stop(p)
  <2>1. Quietly(p, Off) /\ Sound(p, Off)
    BY <1>2, <1>10 DEF Stop, Released, Quietly, Sound
  <2> QED BY <2>1, QuietKeeps
<1> QED BY <1>3, <1>4, <1>5, <1>6, <1>7, <1>8, <1>9, <1>10

-----------------------------------------------------------------------------
(* The commit of a rotation.                                                *)
LEMMA CommitKeeps ==
    ASSUME KeysInv, NEW p \in Processes, CommitRotation(p)
    PROVE  KeysInv'
<1> USE Periods, NoneAssumption DEF KeysInv
<1> DEFINE n == proc[p].kid
           at == proc[p].at
<1>1. /\ proc[p].pc = "insert" /\ Rotating(p) /\ keyLock = p
      /\ proc[p].rows = Active
      /\ n \in Kids /\ key[n] = None /\ n \notin Active
      /\ at \in Nat /\ at <= now /\ now <= at + MaxRotation
  BY DEF CommitRotation, Rotating, LockOK, RowsOK, NewKeysOK, TimesOK, Active, TypeOK
<1>2. \A q \in Processes \ {p} : proc[q].pc \notin {"retire", "insert"}
  BY <1>1 DEF LockOK
<1>3. \A k \in Active : RetiredRow(p, k) \in KeyRows /\ RetiredRow(p, k).retired
                        /\ RetiredRow(p, k).until = at + Publication
  <2> SUFFICES ASSUME NEW k \in Active
               PROVE  RetiredRow(p, k) \in KeyRows /\ RetiredRow(p, k).retired
                      /\ RetiredRow(p, k).until = at + Publication
    OBVIOUS
  <2>1. key[k] \in KeyRows /\ at + Publication \in Nat
    BY <1>1 DEF Active, TypeOK
  <2> QED BY <2>1 DEF RetiredRow, PublishedUntil, KeyRows
<1>4. NewRow(p) \in KeyRows /\ ~NewRow(p).retired
  BY <1>1 DEF NewRow, KeyRows
<1>5. \A k \in Kids :
        /\ k \in Active => key'[k] = RetiredRow(p, k)
        /\ k = n => key'[k] = NewRow(p)
        /\ k \notin Active /\ k # n => key'[k] = key[k]
  BY <1>1 DEF CommitRotation
<1>6. key' \in [Kids -> KeyRows \cup {None}]
  BY <1>1, <1>3, <1>4 DEF CommitRotation, TypeOK
<1>7. /\ proc'[p].pc = "serving"
      /\ \A q \in Processes \ {p} : proc'[q] = proc[q]
      /\ proc' \in [Processes -> ProcState]
      /\ keyLock' = None /\ UNCHANGED <<now, lastExp>>
  BY <1>1 DEF CommitRotation, TypeOK, Off, Released, ProcState, Statements
<1>8. Active' = {n}
  BY <1>1, <1>3, <1>4, <1>5 DEF Active
<1>9. TypeOK'
  BY <1>6, <1>7 DEF TypeOK, ProcState
<1>10. LockOK' /\ RowsOK'
  BY <1>2, <1>7 DEF LockOK, RowsOK
<1>11. NewKeysOK'
  <2> SUFFICES ASSUME NEW q \in Processes \ {p}, Rotating(q)
               PROVE  /\ proc[q].kid \in Kids /\ key'[proc[q].kid] = None
                      /\ \A r \in Processes \ {q} :
                            Rotating(r) => proc[r].kid # proc[q].kid
    BY <1>7 DEF NewKeysOK, Rotating
  <2>1. proc[q].kid \in Kids /\ key[proc[q].kid] = None /\ proc[q].kid # n
        /\ \A r \in Processes \ {q} : Rotating(r) => proc[r].kid # proc[q].kid
    BY <1>1 DEF NewKeysOK
  <2> QED BY <1>5, <2>1 DEF Active
<1>12. TimesOK'
  BY <1>7 DEF TimesOK, Rotating
<1>13. ReadKeysOK'
  <2> SUFFICES ASSUME NEW q \in Processes \ {p}, proc[q].pc = "sign"
               PROVE  LET k == proc[q].kid
                      IN /\ k \in Kids /\ key'[k] # None
                         /\ key'[k].retired =>
                              proc[q].at + Publication <= key'[k].until + MaxRotation
    BY <1>7 DEF ReadKeysOK
  <2> DEFINE k == proc[q].kid
  <2>1. k \in Kids /\ key[k] # None /\ k # n
    BY <1>1 DEF ReadKeysOK
  <2>2. CASE k \in Active
    <3>1. proc[q].at \in Nat /\ proc[q].at <= now /\ now \in Nat
      BY DEF TimesOK, TypeOK
    <3>2. key'[k] # None /\ key'[k].until = at + Publication
      BY <1>3, <1>5, <2>1, <2>2
    <3> QED BY <1>1, <2>1, <3>1, <3>2
  <2>3. CASE k \notin Active
    BY <1>5, <2>1, <2>3 DEF ReadKeysOK
  <2> QED BY <2>2, <2>3
<1>14. RetiredOK'
  <2> SUFFICES ASSUME NEW k \in Kids
               PROVE  /\ lastExp[k] <= now + Lifetime
                      /\ key'[k] = None => lastExp[k] = 0
                      /\ key'[k] # None /\ key'[k].retired => lastExp[k] <= key'[k].until
    BY <1>7 DEF RetiredOK
  <2>1. lastExp[k] \in Nat /\ now \in Nat /\ lastExp[k] <= now + Lifetime
    BY DEF RetiredOK, TypeOK
  <2>2. CASE k \in Active
    <3>1. key'[k] # None /\ key'[k].until = at + Publication
      BY <1>3, <1>5, <2>2
    <3> QED BY <1>1, <2>1, <3>1
  <2>3. CASE k = n
    BY <1>4, <1>5, <2>1, <2>3
  <2>4. CASE k \notin Active /\ k # n
    BY <1>5, <2>4 DEF RetiredOK
  <2> QED BY <2>2, <2>3, <2>4
<1>15. OneActiveKey' /\ ServingHasKey'
  BY <1>8 DEF OneActiveKey, ServingHasKey
<1> QED BY <1>9, <1>10, <1>11, <1>12, <1>13, <1>14, <1>15

(* A signature: the key's period of publication covers the token.           *)
LEMMA SignKeeps ==
    ASSUME KeysInv, NEW p \in Processes, SignToken(p)
    PROVE  KeysInv'
<1> USE Periods, NoneAssumption DEF KeysInv
<1> DEFINE n == proc[p].kid
<1>1. /\ proc[p].pc = "sign" /\ n \in Kids /\ key[n] \in KeyRows /\ key[n] # None
      /\ proc[p].at \in Nat /\ now \in Nat /\ now <= proc[p].at + MaxSigning
      /\ key[n].retired => proc[p].at + Publication <= key[n].until + MaxRotation
  BY DEF SignToken, ReadKeysOK, TimesOK, TypeOK
<1>2. /\ proc'[p].pc = "serving"
      /\ \A q \in Processes \ {p} : proc'[q] = proc[q]
      /\ proc' \in [Processes -> ProcState]
      /\ UNCHANGED <<now, key, keyLock>>
      /\ lastExp' \in [Kids -> Nat]
      /\ lastExp'[n] = now + Lifetime
      /\ \A k \in Kids \ {n} : lastExp'[k] = lastExp[k]
  BY <1>1 DEF SignToken, TypeOK, Off, ProcState, Statements
<1>3. Active' = Active /\ Active # {}
  BY <1>1, <1>2 DEF Active, ServingHasKey
<1>4. TypeOK'
  BY <1>2 DEF TypeOK, ProcState
<1>5. LockOK' /\ RowsOK' /\ NewKeysOK'
  BY <1>2, <1>3 DEF LockOK, RowsOK, NewKeysOK, Rotating
<1>6. TimesOK' /\ ReadKeysOK'
  BY <1>2 DEF TimesOK, ReadKeysOK, Rotating
<1>7. RetiredOK'
  <2> SUFFICES ASSUME NEW k \in Kids
               PROVE  /\ lastExp'[k] <= now + Lifetime
                      /\ key[k] = None => lastExp'[k] = 0
                      /\ key[k] # None /\ key[k].retired => lastExp'[k] <= key[k].until
    BY <1>2 DEF RetiredOK
  <2>1. CASE k = n
    <3>1. key[n].until \in Nat
      BY <1>1 DEF KeyRows
    <3> QED BY <1>1, <1>2, <2>1, <3>1
  <2>2. CASE k # n
    BY <1>2, <2>2 DEF RetiredOK
  <2> QED BY <2>1, <2>2
<1>8. OneActiveKey' /\ ServingHasKey'
  BY <1>2, <1>3 DEF OneActiveKey, ServingHasKey
<1> QED BY <1>4, <1>5, <1>6, <1>7, <1>8

LEMMA TickKeeps == ASSUME KeysInv, Tick PROVE KeysInv'
<1> USE Periods DEF KeysInv
<1>1. now' = now + 1 /\ now \in Nat /\ UNCHANGED <<key, keyLock, lastExp, proc>>
  BY DEF Tick, TypeOK
<1>2. Active' = Active
  BY <1>1 DEF Active
<1>3. TypeOK'
  BY <1>1 DEF TypeOK
<1>4. LockOK' /\ NewKeysOK' /\ RowsOK' /\ ReadKeysOK' /\ OneActiveKey' /\ ServingHasKey'
  BY <1>1, <1>2
     DEF LockOK, NewKeysOK, RowsOK, ReadKeysOK, OneActiveKey, ServingHasKey, Rotating
<1>5. TimesOK'
  <2> SUFFICES ASSUME NEW p \in Processes
               PROVE  /\ Rotating(p) => proc[p].at <= now + 1
                                        /\ now + 1 <= proc[p].at + MaxRotation
                      /\ proc[p].pc = "sign" => proc[p].at <= now + 1
                                                /\ now + 1 <= proc[p].at + MaxSigning
    BY <1>1 DEF TimesOK, Rotating
  <2>1. proc[p].at \in Nat
    BY DEF TypeOK
  <2> QED BY <1>1, <2>1 DEF Tick, TimesOK
<1>6. RetiredOK'
  <2> SUFFICES ASSUME NEW k \in Kids PROVE lastExp[k] <= now + 1 + Lifetime
    BY <1>1 DEF RetiredOK
  <2> QED BY <1>1 DEF RetiredOK, TypeOK
<1> QED BY <1>3, <1>4, <1>5, <1>6

-----------------------------------------------------------------------------
(* Keys are inserted and retired under the lock, and published long enough:  *)
(* of every behaviour, for all instances.                                   *)
THEOREM KeysInvariant == Spec => []KeysInv
<1>1. KeysInv /\ [Next]_vars => KeysInv'
  <2> SUFFICES ASSUME KeysInv, [Next]_vars PROVE KeysInv'
    OBVIOUS
  <2>1. CASE UNCHANGED vars
    BY <2>1 DEF vars, KeysInv, TypeOK, LockOK, NewKeysOK, RowsOK, TimesOK, ReadKeysOK,
                RetiredOK, OneActiveKey, ServingHasKey, Active, Rotating
  <2>2. CASE Tick
    BY <2>2, TickKeeps
  <2>3. ASSUME NEW p \in Processes,
               Start(p) \/ RotateKey(p) \/ ReadActiveKey(p) \/ Step(p) \/ Stop(p)
        PROVE  KeysInv'
    BY <2>3, QuietSteps, CommitKeeps, SignKeeps DEF Step
  <2> QED BY <2>1, <2>2, <2>3 DEF Next
<1> QED BY <1>1, InitKeys, PTL DEF Spec

(* Every variable has its type, the rows of the table included.              *)
THEOREM KeysTyped == Spec => []TypeOK
<1>1. KeysInv => TypeOK
  BY DEF KeysInv
<1> QED BY <1>1, KeysInvariant, PTL

(* token/keys.go and postgres/keys.go: a token that has not expired finds    *)
(* its key published, if a rotation and a signature are not slower than the  *)
(* difference of the two periods.                                           *)
THEOREM TokensVerify == Spec => []UnexpiredVerify
<1>1. KeysInv => UnexpiredVerify
  <2> SUFFICES ASSUME KeysInv, NEW k \in Kids, lastExp[k] > now PROVE Published(k)
    BY DEF UnexpiredVerify
  <2>1. now \in Nat /\ lastExp[k] \in Nat /\ key[k] \in KeyRows \cup {None}
    BY DEF KeysInv, TypeOK
  <2>2. key[k] # None
    BY <2>1 DEF KeysInv, RetiredOK
  <2>3. key[k].retired => key[k].until > now
    BY <2>1, <2>2 DEF KeysInv, RetiredOK, KeyRows
  <2> QED BY <2>2, <2>3 DEF Published
<1> QED BY <1>1, KeysInvariant, PTL

(* Starts and rotations, however many at once, leave one active key.         *)
THEOREM ActiveKeyUnique == Spec => []OneActiveKey
<1>1. KeysInv => OneActiveKey
  BY DEF KeysInv
<1> QED BY <1>1, KeysInvariant, PTL

(* A process that serves finds an active key, whoever fails when.            *)
THEOREM ServingFindsKey == Spec => []ServingHasKey
<1>1. KeysInv => ServingHasKey
  BY DEF KeysInv
<1> QED BY <1>1, KeysInvariant, PTL

-----------------------------------------------------------------------------
(***************************************************************************)
(* Starts and migrations.                                                  *)
(***************************************************************************)
(* A start is a start of SigningKeys, a migration changes none of its state. *)
THEOREM StartupImplementsKeys == StartupSafety => Spec
<1>1. [StartupNext]_startupVars => [Next]_vars
  <2> SUFFICES ASSUME [StartupNext]_startupVars PROVE [Next]_vars
    OBVIOUS
  <2>1. CASE UNCHANGED startupVars
    BY <2>1 DEF startupVars
  <2>2. CASE KeyNext
    BY <2>2 DEF KeyNext, Next
  <2>3. ASSUME NEW p \in Processes,
               OpenDatabase(p) \/ LockMigrations(p) \/ ReadVersion(p) \/ FailMigration(p)
        PROVE  UNCHANGED vars
    BY <2>3 DEF OpenDatabase, LockMigrations, ReadVersion, FailMigration
  <2>4. ASSUME NEW p \in Processes, CommitMigrations(p)
        PROVE  Next
    BY <2>4 DEF CommitMigrations, Next
  <2> QED
    BY <2>1, <2>2, <2>3, <2>4 DEF StartupNext, MigrationStep
<1> QED
  BY <1>1, PTL DEF StartupSafety, StartupInit, Spec

-----------------------------------------------------------------------------
MigrationTypes ==
    /\ schema \in 0..(Newest + 1)
    /\ ran \in [Migrations -> Nat]
    /\ migrationLock \in Processes \cup {None}
    /\ opener \in [Processes -> [pc : {"closed", "lock", "read", "apply"},
                                 version : 0..(Newest + 1)]]

(* Who has read the version holds the lock, and the version is still so.    *)
OpenersOK ==
    \A p \in Processes :
      /\ opener[p].pc \in {"read", "apply"} => migrationLock = p
      /\ opener[p].pc = "apply" => opener[p].version = schema /\ schema <= Newest

MigrationInv == MigrationTypes /\ OpenersOK /\ MigratedOnce /\ KnownSchemaServed

LEMMA InitMigrationInv == Init /\ MigrationInit => MigrationInv
<1> SUFFICES ASSUME Init, MigrationInit PROVE MigrationInv
  OBVIOUS
<1>1. PICK version \in 0..(Newest + 1), early \in BOOLEAN :
         /\ schema = version
         /\ ran = [m \in Migrations |-> IF m <= version \/ (early /\ m = 1) THEN 1 ELSE 0]
  BY DEF MigrationInit
<1>2. MigrationTypes
  BY <1>1, NewestAssumption DEF MigrationInit, MigrationTypes, Closed, Migrations
<1>3. OpenersOK
  BY DEF MigrationInit, OpenersOK, Closed
<1>4. MigratedOnce
  BY <1>1, NewestAssumption DEF MigratedOnce, Migrations
<1>5. KnownSchemaServed
  BY DEF Init, Off, KnownSchemaServed
<1> QED
  BY <1>2, <1>3, <1>4, <1>5 DEF MigrationInv

(* Steps of the keys neither start a process nor touch the schema. *)
LEMMA KeysMigrationInv ==
  ASSUME MigrationInv, TypeOK, KeyNext PROVE MigrationInv'
<1>1. ASSUME NEW p \in Processes, proc'[p].pc # "off" PROVE proc[p].pc # "off"
  <2>1. CASE Tick
    BY <1>1, <2>1 DEF Tick
  <2>2. ASSUME NEW q \in Processes, proc[q].pc # "off",
               \E s : proc' = [proc EXCEPT ![q] = s]
        PROVE  proc[p].pc # "off"
    BY <1>1, <2>2 DEF TypeOK
  <2>3. ASSUME NEW q \in Processes,
               RotateKey(q) \/ ReadActiveKey(q) \/ Step(q) \/ Stop(q)
        PROVE  proc[q].pc # "off" /\ \E s : proc' = [proc EXCEPT ![q] = s]
    BY <2>3 DEF RotateKey, ReadActiveKey, Step, Stop, CountKeys, Generate, TakeLock,
                RetireKeys, CommitRotation, SignToken, GoTo
  <2> QED
    BY <2>1, <2>2, <2>3 DEF KeyNext
<1>2. MigrationTypes' /\ OpenersOK' /\ MigratedOnce'
  BY DEF KeyNext, migrationVars, MigrationInv, MigrationTypes, OpenersOK, MigratedOnce
<1>3. KnownSchemaServed'
  BY <1>1 DEF KeyNext, migrationVars, MigrationInv, KnownSchemaServed
<1> QED
  BY <1>2, <1>3 DEF MigrationInv

(* Before the commit an opener changes nothing but itself and the lock.     *)
LEMMA OpeningMigrationInv ==
  ASSUME MigrationInv, NEW p \in Processes,
         OpenDatabase(p) \/ LockMigrations(p) \/ ReadVersion(p) \/ FailMigration(p)
  PROVE  MigrationInv'
<1> USE DEF MigrationInv
<1>1. UNCHANGED <<vars, schema, ran>>
  BY DEF OpenDatabase, LockMigrations, ReadVersion, FailMigration
<1>2. MigratedOnce' /\ KnownSchemaServed'
  BY <1>1 DEF MigratedOnce, KnownSchemaServed, vars
<1>3. MigrationTypes'
  BY <1>1, NewestAssumption
     DEF MigrationTypes, OpenDatabase, LockMigrations, ReadVersion, FailMigration,
         GiveUp, Closed
<1>4. OpenersOK'
  BY <1>1, NewestAssumption, NoneAssumption
     DEF MigrationTypes, OpenersOK, OpenDatabase, LockMigrations, ReadVersion,
         FailMigration, GiveUp, Closed
<1> QED
  BY <1>2, <1>3, <1>4

(* The commit: the lock's holder alone has read the version, so exactly the *)
(* migrations above it had not run.                                         *)
LEMMA CommitMigrationInv ==
  ASSUME MigrationInv, TypeOK, NEW p \in Processes, CommitMigrations(p)
  PROVE  MigrationInv'
<1> USE DEF MigrationInv
<1>1. opener[p].version = schema /\ schema \in 0..Newest /\ migrationLock = p
  BY NewestAssumption DEF CommitMigrations, OpenersOK, MigrationTypes
<1>2. schema' = Newest
  BY <1>1, NewestAssumption DEF CommitMigrations
<1>3. ASSUME NEW m \in Migrations PROVE ran'[m] = 1
  <2>1. ran'[m] = ran[m] + IF m \in Missing(p) THEN 1 ELSE 0
    BY DEF CommitMigrations
  <2>2. m \in 1..Newest /\ 1 \in Migrations
    BY NewestAssumption DEF Migrations
  <2>3. CASE m <= schema
    BY <1>1, <2>1, <2>2, <2>3, NewestAssumption DEF Missing, MigratedOnce
  <2>4. CASE ~(m <= schema) /\ m = 1
    <3>1. schema = 0
      BY <1>1, <2>4, NewestAssumption
    <3>2. ran[1] = 0 \/ ran[1] = 1
      BY <2>2, <2>4 DEF MigratedOnce
    <3>3. m \in Missing(p) <=> ran[1] = 0
      BY <1>1, <2>2, <2>4, <3>1, <3>2, NewestAssumption DEF Missing, Existing
    <3> QED
      BY <2>1, <2>4, <3>2, <3>3
  <2>5. CASE ~(m <= schema) /\ m # 1
    BY <1>1, <2>1, <2>2, <2>5, NewestAssumption DEF Missing, Existing, MigratedOnce
  <2> QED
    BY <2>3, <2>4, <2>5
<1>4. MigratedOnce'
  BY <1>2, <1>3, NewestAssumption DEF MigratedOnce, Migrations
<1>5. KnownSchemaServed'
  BY <1>2 DEF KnownSchemaServed
<1>6. ran' \in [Migrations -> Nat]
  BY DEF CommitMigrations, MigrationTypes
<1>7. MigrationTypes'
  BY <1>1, <1>2, <1>6, NewestAssumption DEF MigrationTypes, CommitMigrations, GiveUp, Closed
<1>8. OpenersOK'
  BY <1>1, <1>2, NoneAssumption
     DEF MigrationTypes, OpenersOK, CommitMigrations, GiveUp, Closed
<1> QED
  BY <1>4, <1>5, <1>7, <1>8

(* Every process that has read the version holds the lock; the tables have  *)
(* gone through the recorded migrations once; who serves knows the schema.  *)
THEOREM MigrationsInvariant == StartupSafety => []MigrationInv
<1>1. MigrationInv /\ TypeOK /\ [StartupNext]_startupVars => MigrationInv'
  <2> SUFFICES ASSUME MigrationInv, TypeOK, [StartupNext]_startupVars PROVE MigrationInv'
    OBVIOUS
  <2>1. CASE UNCHANGED startupVars
    BY <2>1 DEF startupVars, vars, migrationVars, MigrationInv, MigrationTypes, OpenersOK,
                MigratedOnce, KnownSchemaServed
  <2>2. CASE KeyNext
    BY <2>2, KeysMigrationInv
  <2>3. CASE \E p \in Processes : \/ OpenDatabase(p)
                                  \/ LockMigrations(p)
                                  \/ ReadVersion(p)
                                  \/ FailMigration(p)
    BY <2>3, OpeningMigrationInv
  <2>4. CASE \E p \in Processes : CommitMigrations(p)
    BY <2>4, CommitMigrationInv
  <2> QED
    BY <2>1, <2>2, <2>3, <2>4 DEF StartupNext, MigrationStep
<1> QED
  BY <1>1, InitMigrationInv, StartupImplementsKeys, KeysTyped, PTL DEF StartupSafety, StartupInit

(* Every migration up to the recorded version has run once, no other has.   *)
THEOREM MigrationsRunOnce == StartupSpec => []MigratedOnce
<1>1. MigrationInv => MigratedOnce
  BY DEF MigrationInv
<1>2. StartupSpec => StartupSafety
  BY PTL DEF StartupSpec
<1> QED BY <1>1, <1>2, MigrationsInvariant, PTL

(* Whoever uses the tables finds the schema of its own release. *)
THEOREM ServersKnowSchema == StartupSpec => []KnownSchemaServed
<1>1. MigrationInv => KnownSchemaServed
  BY DEF MigrationInv
<1>2. StartupSpec => StartupSafety
  BY PTL DEF StartupSpec
<1> QED BY <1>1, <1>2, MigrationsInvariant, PTL

(* Every variable keeps its type, whatever starts interleave. *)
THEOREM StartupTypes == StartupSpec => []StartupTyped
<1>1. MigrationInv /\ TypeOK => StartupTyped
  BY DEF MigrationInv, MigrationTypes, StartupTyped
<1>2. StartupSpec => StartupSafety
  BY PTL DEF StartupSpec
<1> QED BY <1>1, <1>2, MigrationsInvariant, StartupImplementsKeys, KeysTyped, PTL
=============================================================================
