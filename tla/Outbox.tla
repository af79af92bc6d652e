------------------------------- MODULE Outbox -------------------------------
(***************************************************************************)
(* The outbox and its publishers: PublishNext of                           *)
(* internal/repository/postgres/outbox.go, run every second by             *)
(* PublishOutbox of internal/events/outbox.go in every SSO process, with   *)
(* the broker it writes to.                                                *)
(*                                                                         *)
(* A publisher's transaction locks the oldest unpublished row that nobody  *)
(* else has locked, sends it and records the result.  One send is several  *)
(* tries of kafka.Writer, which repeats a message whose acknowledgement    *)
(* was lost.  The broker may refuse a message, acknowledge it too late for *)
(* the five seconds the publisher waits, or write it to the topic after    *)
(* those.                                                                  *)
(***************************************************************************)
EXTENDS Naturals, FiniteSets

CONSTANTS
    Events,     \* bound: the rows ever inserted
    Stamps,     \* values of created_at, the start of the inserting transaction
    Publishers, \* SSO processes with a broker
    MaxAttempts, \* bound: sends of a row that fail or are cut off by a crash
    WriterTries, \* kafka.Writer.MaxAttempts, the library's default (10)
    Nothing      \* no row, no publisher, no event

OutboxRows == [stamp : Stamps, state : {"pending", "published", "deleted"},
               attempts : Nat]

ASSUME OutboxAssumption ==
    /\ Stamps \subseteq Nat
    /\ WriterTries \in Nat \ {0}
    /\ Nothing \notin Publishers \cup Events \cup OutboxRows

VARIABLES
    row,        \* outbox: Nothing, or [stamp, state, attempts]
    rowLock,    \* the publisher whose transaction holds the row
    publisher,  \* what each publisher is doing, and with which row
    topic,      \* how many copies of the event the topic has
    underway,   \* copies the broker may yet write, or never does
    crashes     \* transactions that rolled back after sending the row

outboxVars == <<row, rowLock, publisher, topic, underway, crashes>>

Waiting == [pc |-> "waiting", event |-> Nothing]

OutboxInit ==
    /\ row = [e \in Events |-> Nothing]
    /\ rowLock = [e \in Events |-> Nothing]
    /\ publisher = [p \in Publishers |-> Waiting]
    /\ topic = [e \in Events |-> 0]
    /\ underway = [e \in Events |-> 0]
    /\ crashes = [e \in Events |-> 0]

(* QueueEvent, committed with the caller's transaction: transactions need   *)
(* not commit in the order they started in.                                 *)
InsertRow(e) ==
    /\ row[e] = Nothing
    /\ \E t \in Stamps :
         row' = [row EXCEPT ![e] = [stamp |-> t, state |-> "pending", attempts |-> 0]]
    /\ UNCHANGED <<rowLock, publisher, topic, underway, crashes>>

Pending(e) == row[e] # Nothing /\ row[e].state = "pending"

-----------------------------------------------------------------------------
(* A version that locks nothing. *)
SelectUnlocked(p) ==
    /\ publisher[p].pc = "waiting"
    /\ \E e \in Events :
         /\ Pending(e)
         /\ \A f \in Events : Pending(f) => row[e].stamp <= row[f].stamp
         /\ publisher' = [publisher EXCEPT ![p] = [pc |-> "send", event |-> e]]
    /\ UNCHANGED <<row, rowLock, topic, underway, crashes>>

(* SELECT ... ORDER BY created_at LIMIT 1 FOR UPDATE SKIP LOCKED. *)
SelectRow(p) ==
    /\ publisher[p].pc = "waiting"
    /\ LET free == {e \in Events : Pending(e) /\ rowLock[e] = Nothing}
       IN  \E e \in free :
             /\ \A f \in free : row[e].stamp <= row[f].stamp
             /\ publisher' = [publisher EXCEPT ![p] = [pc |-> "send", event |-> e]]
             /\ rowLock' = [rowLock EXCEPT ![e] = p]
    /\ UNCHANGED <<row, topic, underway, crashes>>

Then(p, pc) == publisher' = [publisher EXCEPT ![p].pc = pc]

(* WriteMessages: the writer tries until one try is acknowledged, or all    *)
(* were in vain.  Each try without an acknowledgement may have been made,   *)
(* and the broker may write its copy, at once, later or never.              *)
Writes(e, acknowledged) ==
    /\ topic' = [topic EXCEPT ![e] = @ + acknowledged]
    /\ underway' = [underway EXCEPT ![e] = @ + (WriterTries - acknowledged)]

(* The broker acknowledges a try. *)
Acknowledged(p, e) ==
    /\ publisher[p] = [pc |-> "send", event |-> e]
    /\ Writes(e, 1)
    /\ Then(p, "published")
    /\ UNCHANGED <<row, rowLock, crashes>>

Failures(e) == row[e].attempts + crashes[e]

(* The send ends with an error: the tries are used up, or the five seconds  *)
(* are over while the writer still holds the message.                       *)
SendFails(p) ==
    LET e == publisher[p].event
    IN  /\ publisher[p].pc = "send"
        /\ Failures(e) < MaxAttempts
        /\ Writes(e, 0)
        /\ Then(p, "failed")
        /\ UNCHANGED <<row, rowLock, crashes>>

(* The broker writes the copy of a try it has not acknowledged. *)
BrokerWrites(e) ==
    /\ underway[e] > 0
    /\ underway' = [underway EXCEPT ![e] = @ - 1]
    /\ topic' = [topic EXCEPT ![e] = @ + 1]
    /\ UNCHANGED <<row, rowLock, publisher, crashes>>

(* A version that records a failed send like an acknowledged one. *)
RecordPublished(p) ==
    LET e == publisher[p].event
    IN  /\ publisher[p].pc \in {"published", "failed"}
        /\ row' = [row EXCEPT ![e].attempts = @ + 1, ![e].state = "published"]
        /\ rowLock' = [rowLock EXCEPT ![e] = Nothing]
        /\ publisher' = [publisher EXCEPT ![p] = Waiting]
        /\ UNCHANGED <<topic, underway, crashes>>

(* A version that gives a row back with a state of its own after a failure. *)
RecordRetry(p) ==
    LET e == publisher[p].event
    IN  /\ publisher[p].pc \in {"published", "failed"}
        /\ row' = [row EXCEPT ![e].attempts = @ + 1, ![e].state = publisher[p].pc]
        /\ rowLock' = [rowLock EXCEPT ![e] = Nothing]
        /\ publisher' = [publisher EXCEPT ![p] = Waiting]
        /\ UNCHANGED <<topic, underway, crashes>>

(* The result is recorded and committed; a failed row stays pending. *)
RecordResult(p) ==
    LET e == publisher[p].event
    IN  /\ publisher[p].pc \in {"published", "failed"}
        /\ row' = [row EXCEPT ![e].attempts = @ + 1,
                              ![e].state = IF publisher[p].pc = "published"
                                           THEN "published" ELSE @]
        /\ rowLock' = [rowLock EXCEPT ![e] = Nothing]
        /\ publisher' = [publisher EXCEPT ![p] = Waiting]
        /\ UNCHANGED <<topic, underway, crashes>>

(* A version whose rows stay claimed by the process that crashed. *)
CrashKeepsRow(p) ==
    LET e == publisher[p].event
    IN  /\ publisher[p].pc # "waiting"
        /\ Failures(e) < MaxAttempts
        /\ crashes' = [crashes EXCEPT ![e] = @ + 1]
        /\ publisher' = [publisher EXCEPT ![p] = Waiting]
        /\ UNCHANGED <<row, rowLock, topic, underway>>

(* The process stops or a statement fails: the transaction rolls back.      *)
CrashPublisher(p) ==
    LET e == publisher[p].event
    IN  /\ publisher[p].pc # "waiting"
        /\ Failures(e) < MaxAttempts
        /\ crashes' = [crashes EXCEPT ![e] = @ + 1]
        /\ rowLock' = [rowLock EXCEPT ![e] = Nothing]
        /\ publisher' = [publisher EXCEPT ![p] = Waiting]
        /\ UNCHANGED <<row, topic, underway>>

(* CleanupExpired, 30 days after the row was published. *)
CleanupRow(e) ==
    /\ row[e] # Nothing
    /\ row[e].state = "published"
    /\ row' = [row EXCEPT ![e].state = "deleted"]
    /\ UNCHANGED <<rowLock, publisher, topic, underway, crashes>>

OutboxNext ==
    \/ \E p \in Publishers :
         \/ SelectRow(p)
         \/ \E e \in Events : Acknowledged(p, e)
         \/ SendFails(p)
         \/ RecordResult(p)
         \/ CrashPublisher(p)
    \/ \E e \in Events : BrokerWrites(e) \/ CleanupRow(e)

-----------------------------------------------------------------------------
OutboxTyped ==
    /\ row \in [Events -> OutboxRows \cup {Nothing}]
    /\ rowLock \in [Events -> Publishers \cup {Nothing}]
    /\ publisher \in [Publishers -> [pc : {"waiting", "send", "published", "failed"},
                                     event : Events \cup {Nothing}]]
    /\ topic \in [Events -> Nat]
    /\ underway \in [Events -> Nat]
    /\ crashes \in [Events -> Nat]

(* "PublishOutbox keeps rows until Kafka acknowledges them"                 *)
(* (internal/events/outbox.go): what is marked published, or was and has    *)
(* been cleaned up, is in the topic, whatever failed or crashed before.     *)
PublishedIsInTopic ==
    \A e \in Events : row[e] # Nothing /\ ~Pending(e) => topic[e] > 0

(* "Duplicate sends are safe for consumers" (internal/events/outbox.go), and *)
(* come of sends that failed, were cut off or were tried again: however many *)
(* publishers there are, a row is in the topic, or may get there, at most    *)
(* once for each try of a send, and its sends are those that the row counts  *)
(* in attempts, those that were rolled back, and one that is under way.      *)
DuplicatesFromFailures ==
    \A e \in Events :
      topic[e] + underway[e]
        <= WriterTries *
             ((IF row[e] = Nothing THEN 0 ELSE row[e].attempts) + crashes[e]
                + (IF \E p \in Publishers : publisher[p].event = e THEN 1 ELSE 0))

(* Every committed row reaches the topic and is marked: rows are not lost   *)
(* to failures, crashes or other rows before them.                          *)
EveryRowPublished == \A e \in Events : row[e] # Nothing ~> row[e] # Nothing /\ ~Pending(e)
=============================================================================
