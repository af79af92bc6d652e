------------------------------ MODULE SyncFeed ------------------------------
(***************************************************************************)
(* What the synchronisation feed promises to the applications that read    *)
(* it, independently of how SSO produces it: there is a table of who has   *)
(* access to which project, with which roles and which profile, and a      *)
(* journal of numbered events.  Every change of the table is published     *)
(* with the events that describe it, in one step, and the numbers of newly *)
(* published events are above every number published before, so a client   *)
(* that keeps a cursor never misses an event.                              *)
(*                                                                         *)
(* A replica starts from a snapshot of the table (InitialTable) and        *)
(* applies events in cursor order.                                         *)
(***************************************************************************)
EXTENDS Naturals

CONSTANTS
    Users,          \* accounts
    Projects,       \* client projects
    InitialTable,   \* the snapshot the replicas started from
    None            \* the entry of a user who has no access

VARIABLES
    table,          \* <<user, project>> -> None or [roles, profile]
    feed            \* the set of published events

Rows == Users \X Projects

(* "sessions.revoked" closes sessions and keeps the assigned roles; every   *)
(* other kind carries the new state of the user in the project.            *)
ViewKinds == {"access.granted", "roles.changed", "profile.updated",
              "access.revoked"}

RowOf(e) == <<e.user, e.project>>

(* The entry a replica holds after applying e: the full payload is an      *)
(* upsert, a revocation deletes the entry.                                 *)
Effect(e) == IF e.kind = "access.revoked"
             THEN None
             ELSE [roles |-> e.roles, profile |-> e.profile]

About(r, E) == {e \in E : RowOf(e) = r /\ e.kind \in ViewKinds}

IsLatest(e, E) == e \in E /\ \A d \in E : d.id <= e.id

(* The entry for r of a replica that has read the whole journal.           *)
Replica(r) ==
    LET known == About(r, feed)
    IN  IF known = {} THEN InitialTable[r]
        ELSE Effect(CHOOSE e \in known : IsLatest(e, known))

Init ==
    /\ table = InitialTable
    /\ feed = {}

(* One transaction becomes visible: its events and the rows they describe. *)
Publish ==
    LET new == feed' \ feed
    IN  /\ feed \subseteq feed'
        /\ new # {}
        /\ \A e \in new, d \in feed : d.id < e.id
        /\ \A e \in new, d \in new : e.id = d.id => e = d
        /\ table' = [r \in Rows |->
                       IF About(r, new) = {} THEN table[r]
                       ELSE Effect(CHOOSE e \in About(r, new) :
                                     IsLatest(e, About(r, new)))]

Next == Publish

Spec == Init /\ [][Next]_<<table, feed>>

(***************************************************************************)
(* A replica that has read the whole journal agrees with the table.        *)
(***************************************************************************)
ReplicaAgrees == \A r \in Rows : Replica(r) = table[r]
=============================================================================
