---------------------------- MODULE SyncConsumer ----------------------------
(***************************************************************************)
(* The HTTP synchronisation and an application that keeps a copy:          *)
(* /sync/snapshot and /sync/changes (internal/transport/httpapi/sync.go,   *)
(* internal/service/sync.go, Snapshot and Changes of                       *)
(* internal/repository/postgres/events.go) over the feed that SyncFeed     *)
(* promises, read by an application that does what                         *)
(* docs/integration.ru.md, section 3, tells it to.                         *)
(*                                                                         *)
(* The application pages through the snapshot while SSO goes on changing   *)
(* the table, stores the copy with the first page's cursor in one          *)
(* transaction, then applies pages of changes, each with its cursor.       *)
(* Answers get lost, the application crashes and loads everything again.   *)
(***************************************************************************)
EXTENDS Naturals, FiniteSets

CONSTANTS
    Users,          \* account ids, in their order
    Projects,
    Project,        \* the application's project (ClientProject)
    Roles,
    InitialTable,   \* the table when the journal is empty
    PageSize,       \* 200 in the code
    MaxEvents,      \* bound: events ever written
    MaxFaults,      \* bound: lost answers, crashes and repeated full loads
    None

Profile == "profile"

(* What the table has for a user of a project. *)
Entries == [roles : Roles, profile : {Profile}] \cup {None}

ASSUME ConsumerAssumption ==
    /\ Users \subseteq Nat \ {0}
    /\ Project \in Projects
    /\ PageSize \in Nat \ {0}
    /\ MaxFaults \in Nat
    /\ None \notin Nat
    /\ InitialTable \in [Users \X Projects -> Entries]

VARIABLES
    table,      \* who has access to what, with which roles and profile
    feed,       \* the published events
    copy,       \* the application's rows: user -> entry or None
    cursor,     \* the cursor stored with them, or None before the first load
    load,       \* the full load under way: [after, cursor, staged], or None
    answer,     \* an answer the application has not processed, or None
    faults

serverVars == <<table, feed>>
consumerVars == <<copy, cursor, load, answer, faults>>

Feed == INSTANCE SyncFeed

NoRows == [u \in Users |-> None]

ConsumerInit ==
    /\ Feed!Init
    /\ copy = NoRows
    /\ cursor = None
    /\ load = None
    /\ answer = None
    /\ faults = 0

-----------------------------------------------------------------------------
(***************************************************************************)
(* SSO: one event at a time, numbered in the order of the commits; what a  *)
(* commit does to the table is SyncFeed's business.                        *)
(***************************************************************************)
LastId == Cardinality(feed)

Write(u, p) ==
    /\ LastId < MaxEvents
    /\ LET Event(kind, roles) == [id |-> LastId + 1, user |-> u, project |-> p,
                                  kind |-> kind, roles |-> roles, profile |-> Profile]
           old == table[<<u, p>>]
       IN  \/ /\ old # None
              /\ \E kind \in {"access.revoked", "sessions.revoked"} :
                   feed' = feed \cup {Event(kind, None)}
           \/ \E roles \in Roles :
                /\ IF old = None THEN TRUE ELSE old.roles # roles
                /\ feed' = feed \cup
                     {Event(IF old = None THEN "access.granted" ELSE "roles.changed",
                            roles)}
    /\ Feed!Publish
    /\ UNCHANGED consumerVars

Listed(after) == {u \in Users : u > after /\ table[<<u, Project>>] # None}

(* ORDER BY ... LIMIT. *)
FirstPage(S) == {x \in S : Cardinality({y \in S : y < x}) < PageSize}

Last(S) == CHOOSE x \in S : \A y \in S : y <= x

(* A version that names the first user left out. *)
NextLeftOut(S) ==
    IF S = FirstPage(S) THEN 0
    ELSE CHOOSE x \in S \ FirstPage(S) : \A y \in S \ FirstPage(S) : x <= y

(* next_after_user: the last user of a page that is not the last one. *)
NextAfterUser(S) == IF S = FirstPage(S) THEN 0 ELSE Last(FirstPage(S))

(* Snapshot: the cursor and the page are read in one REPEATABLE READ        *)
(* transaction, the cursor of a later page is the one asked for.            *)
SnapshotAnswer(after, requestedCursor) ==
    LET S == Listed(after)
    IN  [cursor |-> IF requestedCursor = None THEN LastId ELSE requestedCursor,
         users |-> [u \in FirstPage(S) |-> table[<<u, Project>>]],
         next |-> NextAfterUser(S)]

(* A version that skips to the end of the journal after any page. *)
NextCursorAtEnd(ids, after) == IF ids = {} THEN after ELSE LastId

NextCursor(ids, after) == IF ids = {} THEN after ELSE Last(ids)

(* Changes: the next events of the project in their order. *)
ChangesAnswer(after) ==
    LET ids == FirstPage({e.id : e \in {d \in feed : d.project = Project /\ d.id > after}})
    IN  [events |-> {e \in feed : e.id \in ids}, next |-> NextCursor(ids, after)]

-----------------------------------------------------------------------------
(***************************************************************************)
(* The application.                                                        *)
(***************************************************************************)
Fault == faults < MaxFaults /\ faults' = faults + 1

(* The first full load, or a repeated one. *)
StartLoad ==
    /\ load = None
    /\ answer = None
    /\ IF cursor = None THEN UNCHANGED faults ELSE Fault
    /\ load' = [after |-> 0, cursor |-> None, staged |-> NoRows]
    /\ UNCHANGED <<serverVars, copy, cursor, answer>>

AskSnapshot ==
    /\ load # None
    /\ answer = None
    /\ answer' = SnapshotAnswer(load.after, load.cursor)
    /\ UNCHANGED <<serverVars, copy, cursor, load, faults>>

(* A page is staged; the last one replaces the copy and its cursor. *)
StagePage ==
    /\ load # None
    /\ answer # None
    /\ LET staged == [u \in Users |-> IF u \in DOMAIN answer.users THEN answer.users[u]
                                      ELSE load.staged[u]]
       IN  IF answer.next = 0
           THEN copy' = staged /\ cursor' = answer.cursor /\ load' = None
           ELSE /\ load' = [after |-> answer.next, cursor |-> answer.cursor,
                            staged |-> staged]
                /\ UNCHANGED <<copy, cursor>>
    /\ answer' = None
    /\ UNCHANGED <<serverVars, faults>>

AskChanges ==
    /\ load = None
    /\ cursor # None
    /\ answer = None
    /\ answer' = ChangesAnswer(cursor)
    /\ UNCHANGED <<serverVars, copy, cursor, load, faults>>

(* A page of changes and its cursor, in one transaction. *)
ApplyChanges ==
    /\ load = None
    /\ answer # None
    /\ copy' = [u \in Users |->
                  LET known == Feed!About(<<u, Project>>, answer.events)
                  IN  IF known = {} THEN copy[u]
                      ELSE Feed!Effect(CHOOSE e \in known : Feed!IsLatest(e, known))]
    /\ cursor' = answer.next
    /\ answer' = None
    /\ UNCHANGED <<serverVars, load, faults>>

LoseAnswer ==
    /\ answer # None
    /\ Fault
    /\ answer' = None
    /\ UNCHANGED <<serverVars, copy, cursor, load>>

(* Staged rows are lost, the copy and its cursor are in the database. *)
CrashApplication ==
    /\ load # None
    /\ Fault
    /\ load' = None
    /\ answer' = None
    /\ UNCHANGED <<serverVars, copy, cursor>>

ApplicationNext ==
    \/ StartLoad
    \/ AskSnapshot
    \/ StagePage
    \/ AskChanges
    \/ ApplyChanges
    \/ LoseAnswer
    \/ CrashApplication

-----------------------------------------------------------------------------
EventRecords ==
    [id : 1..MaxEvents, user : Users, project : Projects,
     kind : {"access.granted", "roles.changed", "access.revoked", "sessions.revoked"},
     roles : Roles \cup {None}, profile : {Profile}]

ServerTyped ==
    /\ table \in [Users \X Projects -> Entries]
    /\ feed \subseteq EventRecords

SnapshotPages == [cursor : Nat, users : UNION {[S -> Entries] : S \in SUBSET Users},
                  next : Nat]

ChangesPages == [events : SUBSET EventRecords, next : Nat]

(* A full load waits for a page of the snapshot, otherwise the application  *)
(* waits for changes.                                                       *)
AnswerTyped ==
    answer = None \/ answer \in IF load = None THEN ChangesPages ELSE SnapshotPages

ConsumerTyped ==
    /\ copy \in [Users -> Entries]
    /\ cursor \in Nat \cup {None}
    /\ load = None \/ load \in [after : Nat, cursor : Nat \cup {None},
                                staged : [Users -> Entries]]
    /\ faults \in 0..MaxFaults

(* The table's row of u once the events up to n were published. *)
EntryAt(u, n) ==
    LET known == Feed!About(<<u, Project>>, {e \in feed : e.id <= n})
    IN  IF known = {} THEN InitialTable[<<u, Project>>]
        ELSE Feed!Effect(CHOOSE e \in known : Feed!IsLatest(e, known))

(* Each row of the copy is the table's row at some point of the journal not *)
(* before the stored cursor, however the pages of the snapshot were read:   *)
(* the events after the cursor include all the row still lacks.             *)
CopyWithinReach ==
    cursor # None =>
      \A u \in Users : \E n \in cursor..LastId : copy[u] = EntryAt(u, n)

(* The stored cursor never goes back, not even when a full load repeats what *)
(* later changes had brought; and it passes an event of the project, one     *)
(* that only ends sessions included, without having delivered it in a full  *)
(* load alone, never in a page of changes cut while others committed.       *)
EventsReadInTurn ==
    [][cursor # None /\ cursor' # cursor =>
         /\ cursor < cursor'
         /\ load = None =>
              answer.events = {e \in feed : /\ e.project = Project
                                            /\ cursor < e.id /\ e.id <= cursor'}
      ]_consumerVars

(* Once nothing changes any more the copy becomes, and stays, the table.    *)
CopyCatchesUp == <>[](copy = [u \in Users |-> table[<<u, Project>>]])
=============================================================================
