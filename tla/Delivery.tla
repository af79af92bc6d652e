------------------------------ MODULE Delivery ------------------------------
(***************************************************************************)
(* How a committed event reaches the applications.  QueueEvent writes it   *)
(* to both channels in one transaction: the journal that applications poll *)
(* over HTTP, and the outbox that publishers send to Kafka.                *)
(*                                                                         *)
(* An instance serves one channel, chosen at its start: without            *)
(* KAFKA_BROKER PublishOutbox returns at once and the rows stay pending;   *)
(* with it, the applications of this instance read the topic alone.        *)
(***************************************************************************)
EXTENDS Outbox, SyncConsumer

(* A row of the outbox has the number of its event in the journal. *)
ASSUME EventsAssumption == MaxEvents \in Nat /\ Events = 1..MaxEvents

VARIABLE channel

vars == <<outboxVars, serverVars, consumerVars, channel>>

Init ==
    /\ OutboxInit
    /\ ConsumerInit
    /\ channel \in {"kafka", "http"}

(* A transaction that queues an event commits.  Publishers do not look at   *)
(* what they send, so in an instance with Kafka every event is about one    *)
(* user of the project.                                                     *)
CommitEvent ==
    /\ \E u \in Users, p \in Projects :
         /\ channel = "kafka" => p = Project /\ \A v \in Users : u <= v
         /\ Write(u, p)
    /\ InsertRow(LastId + 1)
    /\ UNCHANGED channel

Publishing ==
    /\ channel = "kafka"
    /\ OutboxNext
    /\ UNCHANGED <<serverVars, consumerVars, channel>>

Reading ==
    /\ channel = "http"
    /\ ApplicationNext
    /\ UNCHANGED <<outboxVars, channel>>

Next == CommitEvent \/ Publishing \/ Reading

(* Every process looks at the outbox each second.  The broker comes back: a *)
(* row that is sent over and over is acknowledged some time, and some time  *)
(* the process lives to record it.                                          *)
KafkaFairness ==
    /\ \A p \in Publishers :
         /\ WF_outboxVars(channel = "kafka" /\ SelectRow(p))
         /\ SF_outboxVars(channel = "kafka" /\ RecordResult(p))
    /\ \A e \in Events :
         SF_outboxVars(channel = "kafka" /\ \E p \in Publishers : Acknowledged(p, e))

(* The application loads the snapshot, polls "every few seconds"            *)
(* (docs/integration.ru.md, section 3), and SSO answers.                    *)
HttpFairness ==
    /\ WF_consumerVars(channel = "http" /\ cursor = None /\ StartLoad)
    /\ WF_consumerVars(channel = "http" /\ AskSnapshot)
    /\ WF_consumerVars(channel = "http" /\ StagePage)
    /\ WF_consumerVars(channel = "http" /\ AskChanges)
    /\ WF_consumerVars(channel = "http" /\ ApplyChanges)

Spec == Init /\ [][Next]_vars /\ KafkaFairness /\ HttpFairness

-----------------------------------------------------------------------------
(* Every variable has its type, and an answer is of the kind of what the    *)
(* application asked for last: a page of the snapshot never reaches the code *)
(* that applies changes, nor the other way round.                           *)
TypeOK ==
    /\ OutboxTyped
    /\ ServerTyped
    /\ ConsumerTyped
    /\ AnswerTyped
    /\ channel \in {"kafka", "http"}

(* With a broker, every committed row reaches the topic and is marked: rows *)
(* are not lost to failures, crashes or the rows before them.               *)
EveryRowReachesTopic == channel = "kafka" => EveryRowPublished

(* An application that follows the changes has the table once nothing       *)
(* changes any more, whatever was lost and reloaded on the way.             *)
CopyFollows == channel = "http" => CopyCatchesUp
=============================================================================
