--------------------------- MODULE DeliveryProofs ---------------------------
(***************************************************************************)
(* Theorems about Delivery: the outbox, for any number of events,          *)
(* publishers and failures, and an application that keeps a copy, for any  *)
(* accounts, projects, roles, page size and length of the journal.         *)
(***************************************************************************)
EXTENDS Delivery, FiniteSetTheorems, WellFoundedInduction, TLAPS

-----------------------------------------------------------------------------
(***************************************************************************)
(* The inductive invariant of the outbox.                                  *)
(***************************************************************************)
(* A publisher with a row has locked it; the row is pending, and in the     *)
(* topic once it was acknowledged.                                          *)
WorkOK ==
    \A p \in Publishers :
      IF publisher[p].pc = "waiting" THEN publisher[p].event = Nothing
      ELSE LET e == publisher[p].event
           IN  /\ e \in Events
               /\ rowLock[e] = p
               /\ Pending(e)
               /\ publisher[p].pc = "published" => topic[e] > 0

RowLocksOK == \A e \in Events, p \in Publishers : rowLock[e] = p => publisher[p].event = e

Attempts(e) == IF row[e] = Nothing THEN 0 ELSE row[e].attempts

(* The row was sent in a transaction that has not ended. *)
SentBy(p, e) == publisher[p].event = e /\ publisher[p].pc \in {"published", "failed"}

Sent(e) == IF \E p \in Publishers : SentBy(p, e) THEN 1 ELSE 0

(* Each copy of an event is the copy of a try of a send that was recorded,  *)
(* that was cut off or that is still to be recorded.                        *)
Sends(e) == Attempts(e) + crashes[e] + Sent(e)

CopiesOK ==
    \A e \in Events : topic[e] + underway[e] <= WriterTries * Sends(e)

OutboxInv ==
    /\ OutboxTyped
    /\ WorkOK
    /\ RowLocksOK
    /\ CopiesOK
    /\ PublishedIsInTopic

-----------------------------------------------------------------------------
(***************************************************************************)
(* The inductive invariant of the feed and the application.                *)
(***************************************************************************)
(* The events are numbered as they were published. *)
FeedOK ==
    /\ IsFiniteSet(feed)
    /\ \A e \in feed :
         /\ e.id \in 1..LastId
         /\ e.kind \in Feed!ViewKinds => Feed!Effect(e) \in Entries
    /\ \A e, d \in feed : e.id = d.id => e = d

(* The table is what the whole journal makes of the initial one. *)
TableOK ==
    /\ table \in [Users \X Projects -> Entries]
    /\ \A u \in Users : table[<<u, Project>>] = EntryAt(u, LastId)

(* An entry that the events after cursor c bring up to date. *)
WithinReach(u, entry, c) == \E n \in c..LastId : entry = EntryAt(u, n)

CopyOK ==
    cursor # None =>
      /\ cursor \in 0..LastId
      /\ \A u \in Users : WithinReach(u, copy[u], cursor)

(* The rows staged so far are those of the users up to load.after. *)
LoadOK ==
    load # None =>
      /\ load.cursor = None => load.after = 0
      /\ load.cursor # None =>
           /\ load.cursor \in 0..LastId
           /\ \A u \in Users :
                u <= load.after => WithinReach(u, load.staged[u], load.cursor)
      /\ \A u \in Users : u > load.after => load.staged[u] = None

(* The users a page is about: those it leaves out have no access. *)
Covers(page, after, u) == u > after /\ (page.next = 0 \/ u <= page.next)

Listing(page, u) == IF u \in DOMAIN page.users THEN page.users[u] ELSE None

PageOK(page, after, requested) ==
    /\ page.cursor \in 0..LastId
    /\ requested # None => page.cursor = requested
    /\ page.next \in Nat
    /\ page.next # 0 => page.next > after
    /\ \A u \in DOMAIN page.users :
         u \in Users /\ Covers(page, after, u) /\ page.users[u] \in Entries
    /\ \A u \in Users :
         Covers(page, after, u) => WithinReach(u, Listing(page, u), page.cursor)

SnapshotOK == load # None /\ answer # None => PageOK(answer, load.after, load.cursor)

(* A page of changes has all the events of the project up to its cursor.    *)
ChangesOK ==
    load = None /\ answer # None =>
      /\ cursor # None
      /\ answer.next \in cursor..LastId
      /\ answer.events =
           {e \in feed : e.project = Project /\ cursor < e.id /\ e.id <= answer.next}

ConsumerInv ==
    /\ ConsumerTyped
    /\ FeedOK
    /\ TableOK
    /\ CopyOK
    /\ LoadOK
    /\ SnapshotOK
    /\ ChangesOK

-----------------------------------------------------------------------------
(***************************************************************************)
(* Publishers.                                                             *)
(***************************************************************************)
(* Two publishers do not work on one row. *)
LEMMA OneWorker ==
    ASSUME OutboxInv, NEW p \in Publishers, NEW q \in Publishers, NEW e \in Events,
           publisher[p].event = e, publisher[q].event = e
    PROVE  p = q
<1>1. publisher[p].pc # "waiting" /\ publisher[q].pc # "waiting"
  BY OutboxAssumption DEF OutboxInv, WorkOK
<1> QED BY <1>1 DEF OutboxInv, WorkOK

(* The row a publisher works on. *)
LEMMA RowAtWork ==
    ASSUME OutboxInv, NEW p \in Publishers, publisher[p].pc # "waiting"
    PROVE  LET e == publisher[p].event
           IN  /\ e \in Events /\ rowLock[e] = p /\ Pending(e)
               /\ row[e] \in OutboxRows /\ row[e] # Nothing
               /\ publisher[p].pc = "published" => topic[e] > 0
  BY DEF OutboxInv, WorkOK, OutboxTyped, Pending

(* One send more is as many copies more as the writer tries. *)
LEMMA OneSendMore ==
    ASSUME NEW n \in Nat PROVE WriterTries * (n + 1) = WriterTries * n + WriterTries
  BY OutboxAssumption

LEMMA MoreSends ==
    ASSUME NEW m \in Nat, NEW n \in Nat, m <= n PROVE WriterTries * m <= WriterTries * n
  BY OutboxAssumption

(* A send ends: there are at most as many copies more of its row as the     *)
(* writer tries, and one in the topic if it was acknowledged.               *)
LEMMA WorkGoesOn ==
    ASSUME OutboxInv, NEW p \in Publishers, publisher[p].pc = "send",
           NEW pc \in {"published", "failed"}, NEW e, e = publisher[p].event,
           Then(p, pc), UNCHANGED <<row, rowLock, crashes>>,
           topic' \in [Events -> Nat], underway' \in [Events -> Nat],
           \A f \in Events \ {e} : topic'[f] = topic[f] /\ underway'[f] = underway[f],
           topic'[e] >= topic[e], pc = "published" => topic'[e] > 0,
           topic'[e] + underway'[e] <= topic[e] + underway[e] + WriterTries
    PROVE  OutboxInv'
<1>1. /\ e \in Events /\ rowLock[e] = p /\ Pending(e)
      /\ topic[e] \in Nat /\ underway[e] \in Nat /\ crashes[e] \in Nat
  BY RowAtWork DEF OutboxInv, OutboxTyped
<1>2. /\ publisher'[p].pc = pc /\ publisher'[p].event = e
      /\ \A q \in Publishers \ {p} : publisher'[q] = publisher[q]
  BY DEF Then, OutboxInv, OutboxTyped
<1>3. /\ \A f \in Events \ {e} : topic'[f] = topic[f] /\ underway'[f] = underway[f]
      /\ topic'[e] \in Nat /\ underway'[e] \in Nat /\ topic'[e] >= topic[e]
      /\ pc = "published" => topic'[e] > 0
      /\ topic'[e] + underway'[e] <= topic[e] + underway[e] + WriterTries
  BY <1>1
<1>4. UNCHANGED <<row, rowLock, crashes>>
  OBVIOUS
<1>5. OutboxTyped'
  BY <1>1, <1>4 DEF OutboxInv, OutboxTyped, Then
<1>6. WorkOK'
  <2> SUFFICES ASSUME NEW q \in Publishers
               PROVE  (IF publisher[q].pc = "waiting" THEN publisher[q].event = Nothing
                       ELSE /\ publisher[q].event \in Events
                            /\ rowLock[publisher[q].event] = q
                            /\ Pending(publisher[q].event)
                            /\ publisher[q].pc = "published" =>
                                 topic[publisher[q].event] > 0)'
    BY DEF WorkOK
  <2>1. CASE q = p
    BY <1>1, <1>2, <1>3, <1>4, <2>1 DEF Pending
  <2>2. CASE q # p
    <3>1. publisher[q].event # e
      BY <1>1, <2>2, OneWorker
    <3> QED BY <1>2, <1>3, <1>4, <2>2, <3>1 DEF OutboxInv, WorkOK, Pending
  <2> QED BY <2>1, <2>2
<1>7. RowLocksOK'
  BY <1>2, <1>4 DEF OutboxInv, RowLocksOK
<1>8. CopiesOK'
  <2>1. Sent(e) = 0
    <3>1. \A q \in Publishers : ~SentBy(q, e)
      BY <1>1, OneWorker DEF SentBy
    <3> QED BY <3>1 DEF Sent
  <2>2. Sent(e)' = 1
    BY <1>2 DEF Sent, SentBy
  <2>3. \A f \in Events \ {e} : Sent(f)' = Sent(f)
    BY <1>2 DEF Sent, SentBy
  <2>4. Attempts(e) \in Nat /\ \A f \in Events : Attempts(f)' = Attempts(f)
    BY <1>1, <1>4 DEF Attempts, OutboxInv, OutboxTyped, OutboxRows
  <2>5. Sends(e) \in Nat /\ Sends(e)' = Sends(e) + 1
    BY <1>1, <1>4, <2>1, <2>2, <2>4 DEF Sends
  <2>6. topic[e] + underway[e] <= WriterTries * Sends(e)
    BY <1>1 DEF OutboxInv, CopiesOK
  <2>7. topic'[e] + underway'[e] <= WriterTries * Sends(e)'
    <3>1. WriterTries * Sends(e)' = WriterTries * Sends(e) + WriterTries
      BY <2>5, OneSendMore
    <3>2. WriterTries * Sends(e) \in Nat /\ WriterTries \in Nat
      BY <2>5, OutboxAssumption
    <3> DEFINE bound == WriterTries * Sends(e)
    <3>3. bound \in Nat /\ topic[e] + underway[e] <= bound
      BY <2>6, <3>2
    <3> HIDE DEF bound
    <3>4. topic'[e] + underway'[e] <= bound + WriterTries
      BY <1>1, <1>3, <3>2, <3>3
    <3> QED BY <3>1, <3>4 DEF bound
  <2>8. \A f \in Events \ {e} :
          Sends(f)' = Sends(f) /\ topic'[f] + underway'[f] <= WriterTries * Sends(f)
    BY <1>3, <1>4, <2>3, <2>4 DEF OutboxInv, CopiesOK, Sends
  <2> QED BY <2>7, <2>8 DEF CopiesOK
<1>9. PublishedIsInTopic'
  BY <1>1, <1>3, <1>4 DEF OutboxInv, PublishedIsInTopic, Pending
<1> QED BY <1>5, <1>6, <1>7, <1>8, <1>9 DEF OutboxInv

LEMMA WritesAdd ==
    ASSUME OutboxTyped, NEW e \in Events, NEW acknowledged \in {0, 1}, Writes(e, acknowledged)
    PROVE  /\ topic' \in [Events -> Nat] /\ underway' \in [Events -> Nat]
           /\ \A f \in Events \ {e} : topic'[f] = topic[f] /\ underway'[f] = underway[f]
           /\ topic'[e] = topic[e] + acknowledged
           /\ topic'[e] + underway'[e] = topic[e] + underway[e] + WriterTries
<1> DEFINE more == WriterTries - acknowledged
<1>1. more \in Nat /\ acknowledged \in Nat /\ acknowledged + more = WriterTries
  BY OutboxAssumption
<1>2. topic[e] \in Nat /\ underway[e] \in Nat
  BY DEF OutboxTyped
<1>3. /\ topic' = [topic EXCEPT ![e] = @ + acknowledged]
      /\ underway' = [underway EXCEPT ![e] = @ + more]
  BY DEF Writes
<1> HIDE DEF more
<1>4. topic' \in [Events -> Nat] /\ underway' \in [Events -> Nat]
  BY <1>1, <1>3 DEF OutboxTyped
<1>5. topic'[e] = topic[e] + acknowledged /\ underway'[e] = underway[e] + more
  BY <1>3 DEF OutboxTyped
<1>6. \A f \in Events \ {e} : topic'[f] = topic[f] /\ underway'[f] = underway[f]
  BY <1>3 DEF OutboxTyped
<1>7. WriterTries \in Nat
  BY OutboxAssumption
<1>8. topic'[e] + underway'[e] = topic[e] + underway[e] + WriterTries
  BY <1>1, <1>2, <1>5, <1>7
<1> QED BY <1>4, <1>5, <1>6, <1>8

LEMMA AcknowledgedInv ==
    ASSUME OutboxInv, NEW p \in Publishers, NEW e \in Events, Acknowledged(p, e)
    PROVE  OutboxInv'
<1>1. publisher[p].pc = "send" /\ publisher[p].event = e
  BY DEF Acknowledged
<1>2. topic[e] \in Nat /\ underway[e] \in Nat
  BY DEF OutboxInv, OutboxTyped
<1>3. /\ topic' \in [Events -> Nat] /\ underway' \in [Events -> Nat]
      /\ \A f \in Events \ {e} : topic'[f] = topic[f] /\ underway'[f] = underway[f]
      /\ topic'[e] = topic[e] + 1
      /\ topic'[e] + underway'[e] = topic[e] + underway[e] + WriterTries
  BY WritesAdd DEF Acknowledged, OutboxInv
<1>4. Then(p, "published") /\ UNCHANGED <<row, rowLock, crashes>>
  BY DEF Acknowledged
<1>5. WriterTries \in Nat
  BY OutboxAssumption
<1> QED BY <1>1, <1>2, <1>3, <1>4, <1>5, WorkGoesOn

LEMMA SendFailsInv ==
    ASSUME OutboxInv, NEW p \in Publishers, SendFails(p) PROVE OutboxInv'
<1> DEFINE e == publisher[p].event
<1>1. publisher[p].pc = "send" /\ Then(p, "failed") /\ UNCHANGED <<row, rowLock, crashes>>
  BY DEF SendFails
<1>2. e \in Events
  BY <1>1, RowAtWork
<1>3. topic[e] \in Nat /\ underway[e] \in Nat
  BY <1>2 DEF OutboxInv, OutboxTyped
<1>4. /\ topic' \in [Events -> Nat] /\ underway' \in [Events -> Nat]
      /\ \A f \in Events \ {e} : topic'[f] = topic[f] /\ underway'[f] = underway[f]
      /\ topic'[e] >= topic[e]
      /\ topic'[e] + underway'[e] <= topic[e] + underway[e] + WriterTries
  <2>1. Writes(e, 0) /\ OutboxTyped
    BY DEF SendFails, OutboxInv
  <2> HIDE DEF e
  <2>2. WriterTries \in Nat
    BY OutboxAssumption
  <2> QED BY <1>2, <1>3, <2>1, <2>2, WritesAdd
<1> HIDE DEF e
<1> QED BY <1>1, <1>2, <1>3, <1>4, WorkGoesOn DEF e

LEMMA SelectRowInv ==
    ASSUME OutboxInv, NEW p \in Publishers, SelectRow(p) PROVE OutboxInv'
<1>1. PICK e \in Events :
        /\ Pending(e) /\ rowLock[e] = Nothing
        /\ publisher' = [publisher EXCEPT ![p] = [pc |-> "send", event |-> e]]
        /\ rowLock' = [rowLock EXCEPT ![e] = p]
  BY DEF SelectRow
<1>2. /\ publisher'[p].pc = "send" /\ publisher'[p].event = e
      /\ \A q \in Publishers \ {p} : publisher'[q] = publisher[q]
      /\ rowLock'[e] = p
      /\ \A f \in Events \ {e} : rowLock'[f] = rowLock[f]
  BY <1>1 DEF OutboxInv, OutboxTyped
<1>3. UNCHANGED <<row, topic, underway, crashes>>
  BY DEF SelectRow
<1>4. publisher[p].pc = "waiting" /\ publisher[p].event = Nothing
  BY DEF SelectRow, OutboxInv, WorkOK
<1>5. \A q \in Publishers : publisher[q].event # e
  BY <1>1, OutboxAssumption DEF OutboxInv, WorkOK
<1>6. OutboxTyped'
  BY <1>1, <1>3 DEF OutboxInv, OutboxTyped
<1>7. WorkOK'
  <2>1. \A q \in Publishers : publisher[q].pc # "waiting" =>
          rowLock'[publisher[q].event] = rowLock[publisher[q].event]
    BY <1>2, <1>5 DEF OutboxInv, WorkOK
  <2> QED BY <1>1, <1>2, <1>3, <2>1 DEF OutboxInv, WorkOK, Pending
<1>8. RowLocksOK'
  BY <1>2, <1>4, OutboxAssumption DEF OutboxInv, RowLocksOK
<1>9. CopiesOK'
  <2>1. \A f \in Events, q \in Publishers : SentBy(q, f)' <=> SentBy(q, f)
    BY <1>2, <1>4 DEF SentBy
  <2>2. \A f \in Events : Sent(f)' = Sent(f)
    BY <2>1 DEF Sent
  <2>3. \A f \in Events : Attempts(f)' = Attempts(f)
    BY <1>3 DEF Attempts
  <2> QED BY <1>3, <2>2, <2>3 DEF OutboxInv, CopiesOK, Sends
<1>10. PublishedIsInTopic'
  BY <1>3 DEF OutboxInv, PublishedIsInTopic, Pending
<1> QED BY <1>6, <1>7, <1>8, <1>9, <1>10 DEF OutboxInv

(* A transaction ends, recorded or rolled back: the row is free, and the    *)
(* send counts as an attempt or as a crash.                                 *)
LEMMA WorkEnds ==
    ASSUME OutboxInv, NEW p \in Publishers, publisher[p].pc # "waiting",
           NEW e, e = publisher[p].event,
           rowLock' = [rowLock EXCEPT ![e] = Nothing],
           publisher' = [publisher EXCEPT ![p] = Waiting],
           UNCHANGED <<topic, underway>>,
           row' \in [Events -> OutboxRows \cup {Nothing}], crashes' \in [Events -> Nat],
           \A f \in Events \ {e} : row'[f] = row[f] /\ crashes'[f] = crashes[f],
           row'[e] # Nothing,
           row'[e].attempts + crashes'[e] = row[e].attempts + crashes[e] + 1,
           Pending(e)' \/ topic[e] > 0
    PROVE  OutboxInv'
<1>1. e \in Events /\ rowLock[e] = p /\ row[e] \in OutboxRows /\ row[e] # Nothing
  BY RowAtWork
<1>2. /\ publisher'[p].pc = "waiting" /\ publisher'[p].event = Nothing
      /\ \A q \in Publishers \ {p} : publisher'[q] = publisher[q]
      /\ rowLock'[e] = Nothing
      /\ \A f \in Events \ {e} : rowLock'[f] = rowLock[f]
  BY <1>1 DEF OutboxInv, OutboxTyped, Waiting
<1>3. UNCHANGED <<topic, underway>>
  OBVIOUS
<1>4. OutboxTyped'
  BY <1>3 DEF OutboxInv, OutboxTyped, Waiting
<1>5. \A q \in Publishers \ {p} : publisher[q].event # e
  BY <1>1, OneWorker
<1>6. WorkOK'
  <2> SUFFICES ASSUME NEW q \in Publishers \ {p}
               PROVE  (IF publisher[q].pc = "waiting" THEN publisher[q].event = Nothing
                       ELSE /\ publisher[q].event \in Events
                            /\ rowLock[publisher[q].event] = q
                            /\ Pending(publisher[q].event)
                            /\ publisher[q].pc = "published" =>
                                 topic[publisher[q].event] > 0)'
    BY <1>2 DEF WorkOK
  <2> QED BY <1>2, <1>3, <1>5 DEF OutboxInv, WorkOK, Pending
<1>7. RowLocksOK'
  BY <1>1, <1>2, OutboxAssumption DEF OutboxInv, RowLocksOK
<1>8. CopiesOK'
  <2>1. Sent(e) \in {0, 1} /\ Sent(e)' = 0
    BY <1>1, <1>2, <1>5, OutboxAssumption DEF Sent, SentBy
  <2>2. \A f \in Events \ {e} : Sent(f)' = Sent(f)
    <3>1. \A f \in Events \ {e}, q \in Publishers : SentBy(q, f)' <=> SentBy(q, f)
      BY <1>2, OutboxAssumption DEF SentBy
    <3> QED BY <3>1 DEF Sent
  <2>3. \A f \in Events \ {e} : Attempts(f)' = Attempts(f)
    BY DEF Attempts
  <2>4. Attempts(e)' + crashes'[e] = Attempts(e) + crashes[e] + 1
    BY <1>1 DEF Attempts
  <2>5. /\ topic[e] \in Nat /\ underway[e] \in Nat /\ crashes[e] \in Nat
        /\ crashes'[e] \in Nat /\ Attempts(e) \in Nat /\ Attempts(e)' \in Nat
    BY <1>1 DEF OutboxInv, OutboxTyped, Attempts, OutboxRows
  <2>6. Sends(e) \in Nat /\ Sends(e)' \in Nat /\ Sends(e) <= Sends(e)'
    BY <1>1, <2>1, <2>4, <2>5 DEF Sends
  <2>7. topic'[e] + underway'[e] <= WriterTries * Sends(e)'
    <3>1. topic[e] + underway[e] <= WriterTries * Sends(e)
      BY <1>1 DEF OutboxInv, CopiesOK
    <3>2. WriterTries * Sends(e) <= WriterTries * Sends(e)'
      BY <2>6, MoreSends
    <3>3. WriterTries * Sends(e) \in Nat /\ WriterTries * Sends(e)' \in Nat
      BY <2>6, OutboxAssumption
    <3>4. topic'[e] + underway'[e] = topic[e] + underway[e] /\ topic[e] + underway[e] \in Nat
      BY <1>3, <2>5
    <3> QED BY <3>1, <3>2, <3>3, <3>4
  <2>8. \A f \in Events \ {e} : topic'[f] + underway'[f] <= WriterTries * Sends(f)'
    BY <1>3, <2>2, <2>3 DEF OutboxInv, CopiesOK, Sends
  <2> QED BY <2>7, <2>8 DEF CopiesOK
<1>9. PublishedIsInTopic'
  BY <1>3 DEF OutboxInv, PublishedIsInTopic, Pending
<1> QED BY <1>4, <1>6, <1>7, <1>8, <1>9 DEF OutboxInv

LEMMA RecordResultInv ==
    ASSUME OutboxInv, NEW p \in Publishers, RecordResult(p) PROVE OutboxInv'
<1>1. publisher[p].pc \in {"published", "failed"}
  BY DEF RecordResult
<1>2. PICK e \in Events :
        /\ e = publisher[p].event /\ Pending(e) /\ row[e] \in OutboxRows
        /\ publisher[p].pc = "published" => topic[e] > 0
  BY <1>1, RowAtWork
<1> DEFINE state == IF publisher[p].pc = "published" THEN "published" ELSE row[e].state
           recorded == [row[e] EXCEPT !.attempts = @ + 1, !.state = state]
<1>3. recorded \in OutboxRows
  <2>1. state \in {"pending", "published", "deleted"}
    BY <1>2 DEF Pending, OutboxRows
  <2>2. row[e].attempts + 1 \in Nat
    BY <1>2 DEF OutboxRows
  <2> HIDE DEF state
  <2> QED BY <1>2, <2>1, <2>2 DEF OutboxRows
<1>4. recorded.attempts = row[e].attempts + 1 /\ recorded.state = state
  BY <1>2 DEF OutboxRows
<1>5. row' = [row EXCEPT ![e] = recorded]
  <2>1. row' = [row EXCEPT ![e].attempts = @ + 1, ![e].state = state]
    BY <1>2 DEF RecordResult
  <2> HIDE DEF state
  <2> QED BY <1>2, <2>1 DEF OutboxInv, OutboxTyped, OutboxRows
<1> HIDE DEF recorded
<1>6. row'[e] = recorded /\ \A f \in Events \ {e} : row'[f] = row[f]
  BY <1>5 DEF OutboxInv, OutboxTyped
<1>7. recorded # Nothing
  BY <1>3, OutboxAssumption
<1>8. Pending(e)' \/ topic[e] > 0
  BY <1>2, <1>4, <1>6, <1>7 DEF Pending
<1> HIDE DEF state
<1>9. row' \in [Events -> OutboxRows \cup {Nothing}]
  BY <1>3, <1>5 DEF OutboxInv, OutboxTyped
<1>10. /\ rowLock' = [rowLock EXCEPT ![e] = Nothing]
       /\ publisher' = [publisher EXCEPT ![p] = Waiting]
       /\ UNCHANGED <<topic, underway, crashes>>
  BY <1>2 DEF RecordResult
<1>11. /\ crashes' \in [Events -> Nat] /\ crashes[e] \in Nat
       /\ crashes' = crashes
  BY <1>10 DEF OutboxInv, OutboxTyped
<1>12. row'[e].attempts + crashes'[e] = row[e].attempts + crashes[e] + 1
  BY <1>2, <1>4, <1>6, <1>11 DEF OutboxRows
<1> QED
  BY <1>1, <1>2, <1>6, <1>7, <1>8, <1>9, <1>10, <1>11, <1>12, WorkEnds

LEMMA CrashPublisherInv ==
    ASSUME OutboxInv, NEW p \in Publishers, CrashPublisher(p) PROVE OutboxInv'
<1>1. publisher[p].pc # "waiting"
  BY DEF CrashPublisher
<1>2. PICK e \in Events :
        e = publisher[p].event /\ Pending(e) /\ row[e] \in OutboxRows /\ row[e] # Nothing
  BY <1>1, RowAtWork
<1>3. /\ rowLock' = [rowLock EXCEPT ![e] = Nothing]
      /\ publisher' = [publisher EXCEPT ![p] = Waiting]
      /\ crashes' = [crashes EXCEPT ![e] = @ + 1]
      /\ UNCHANGED <<row, topic, underway>>
  BY <1>2 DEF CrashPublisher
<1>4. /\ row' \in [Events -> OutboxRows \cup {Nothing}] /\ row' = row
      /\ crashes' \in [Events -> Nat] /\ crashes[e] \in Nat
      /\ crashes'[e] = crashes[e] + 1
      /\ \A f \in Events \ {e} : crashes'[f] = crashes[f]
  BY <1>2, <1>3 DEF OutboxInv, OutboxTyped
<1>5. Pending(e)' /\ row'[e] # Nothing
  BY <1>2, <1>4 DEF Pending
<1>6. row'[e].attempts + crashes'[e] = row[e].attempts + crashes[e] + 1
  BY <1>2, <1>4 DEF OutboxRows
<1> QED BY <1>1, <1>2, <1>3, <1>4, <1>5, <1>6, WorkEnds

-----------------------------------------------------------------------------
(***************************************************************************)
(* The broker, the cleanup, new rows.                                      *)
(***************************************************************************)
LEMMA BrokerWritesInv ==
    ASSUME OutboxInv, NEW e \in Events, BrokerWrites(e) PROVE OutboxInv'
<1>1. topic[e] \in Nat /\ underway[e] \in Nat /\ underway[e] > 0
  BY DEF BrokerWrites, OutboxInv, OutboxTyped
<1>2. /\ topic' \in [Events -> Nat] /\ underway' \in [Events -> Nat]
      /\ \A f \in Events \ {e} : topic'[f] = topic[f] /\ underway'[f] = underway[f]
      /\ topic'[e] >= topic[e]
      /\ topic'[e] + underway'[e] = topic[e] + underway[e]
  <2>1. /\ topic' = [topic EXCEPT ![e] = @ + 1]
        /\ underway' = [underway EXCEPT ![e] = @ - 1]
    BY DEF BrokerWrites
  <2>2. topic[e] + 1 \in Nat /\ underway[e] - 1 \in Nat
    BY <1>1
  <2>3. topic' \in [Events -> Nat] /\ underway' \in [Events -> Nat]
    BY <2>1, <2>2 DEF OutboxInv, OutboxTyped
  <2>4. topic'[e] = topic[e] + 1 /\ underway'[e] = underway[e] - 1
    BY <2>1 DEF OutboxInv, OutboxTyped
  <2>5. \A f \in Events \ {e} : topic'[f] = topic[f] /\ underway'[f] = underway[f]
    BY <2>1 DEF OutboxInv, OutboxTyped
  <2> QED BY <1>1, <2>3, <2>4, <2>5
<1>3. UNCHANGED <<row, rowLock, publisher, crashes>>
  BY DEF BrokerWrites
<1>4. OutboxTyped'
  BY <1>2, <1>3 DEF OutboxInv, OutboxTyped
<1>5. \A f \in Events : topic[f] > 0 => topic'[f] > 0
  BY <1>1, <1>2 DEF OutboxInv, OutboxTyped
<1>6. WorkOK' /\ RowLocksOK' /\ PublishedIsInTopic'
  BY <1>3, <1>5 DEF OutboxInv, WorkOK, RowLocksOK, PublishedIsInTopic, Pending
<1>7. CopiesOK'
  <2>1. \A f \in Events : Attempts(f)' = Attempts(f) /\ Sent(f)' = Sent(f)
    BY <1>3 DEF Attempts, Sent, SentBy
  <2>2. \A f \in Events : topic'[f] + underway'[f] = topic[f] + underway[f]
    BY <1>1, <1>2
  <2> QED BY <1>3, <2>1, <2>2 DEF OutboxInv, CopiesOK, Sends
<1> QED BY <1>4, <1>6, <1>7 DEF OutboxInv

(* A row nobody works on is replaced by one that was sent as often. *)
LEMMA RowInv ==
    ASSUME OutboxInv, NEW e \in Events, NEW new \in OutboxRows, ~Pending(e),
           row' = [row EXCEPT ![e] = new], new.attempts = Attempts(e),
           new.state = "pending" \/ topic[e] > 0,
           UNCHANGED <<rowLock, publisher, topic, underway, crashes>>
    PROVE  OutboxInv'
<1>1. row'[e] = new /\ \A f \in Events \ {e} : row'[f] = row[f]
  BY DEF OutboxInv, OutboxTyped
<1>2. UNCHANGED <<rowLock, publisher, topic, underway, crashes>>
  OBVIOUS
<1>3. new # Nothing
  BY OutboxAssumption
<1>4. OutboxTyped'
  BY <1>2 DEF OutboxInv, OutboxTyped
<1>5. \A p \in Publishers : publisher[p].event # e
  BY OutboxAssumption DEF OutboxInv, WorkOK
<1>6. WorkOK' /\ RowLocksOK'
  BY <1>1, <1>2, <1>5 DEF OutboxInv, WorkOK, RowLocksOK, Pending
<1>7. \A f \in Events : Attempts(f)' = Attempts(f) /\ Sent(f)' = Sent(f)
  BY <1>1, <1>2, <1>3 DEF Attempts, Sent, SentBy
<1>8. CopiesOK'
  BY <1>2, <1>7 DEF OutboxInv, CopiesOK, Sends
<1>9. PublishedIsInTopic'
  BY <1>1, <1>2, <1>3 DEF OutboxInv, PublishedIsInTopic, Pending
<1> QED BY <1>4, <1>6, <1>8, <1>9 DEF OutboxInv

LEMMA CleanupRowInv ==
    ASSUME OutboxInv, NEW e \in Events, CleanupRow(e) PROVE OutboxInv'
<1> DEFINE new == [row[e] EXCEPT !.state = "deleted"]
<1>1. row[e] \in OutboxRows /\ row[e].state = "published" /\ row[e] # Nothing
  BY DEF CleanupRow, OutboxInv, OutboxTyped
<1>2. new \in OutboxRows /\ new.attempts = Attempts(e)
  BY <1>1 DEF OutboxRows, Attempts
<1>3. row' = [row EXCEPT ![e] = new]
  BY DEF CleanupRow, OutboxInv, OutboxTyped
<1>4. topic[e] > 0 /\ ~Pending(e)
  BY <1>1 DEF OutboxInv, PublishedIsInTopic, Pending
<1> HIDE DEF new
<1> QED BY <1>2, <1>3, <1>4, RowInv DEF CleanupRow

LEMMA InsertRowInv ==
    ASSUME OutboxInv, NEW e \in Events, InsertRow(e) PROVE OutboxInv'
<1>1. PICK t \in Stamps :
        row' = [row EXCEPT ![e] = [stamp |-> t, state |-> "pending", attempts |-> 0]]
  BY DEF InsertRow
<1> DEFINE new == [stamp |-> t, state |-> "pending", attempts |-> 0]
<1>2. new \in OutboxRows /\ new.state = "pending"
  BY DEF OutboxRows
<1>3. new.attempts = Attempts(e) /\ ~Pending(e)
  BY DEF InsertRow, Attempts, Pending
<1> HIDE DEF new
<1> QED BY <1>1, <1>2, <1>3, RowInv DEF InsertRow, new

LEMMA OutboxNextInv ==
    ASSUME OutboxInv, OutboxNext \/ UNCHANGED outboxVars PROVE OutboxInv'
<1>1. CASE OutboxNext
  BY <1>1, SelectRowInv, AcknowledgedInv, SendFailsInv, RecordResultInv,
     CrashPublisherInv, BrokerWritesInv, CleanupRowInv DEF OutboxNext
<1>2. CASE UNCHANGED outboxVars
  BY <1>2 DEF outboxVars, OutboxInv, OutboxTyped, WorkOK, RowLocksOK, CopiesOK,
              PublishedIsInTopic, Pending, Attempts, Sent, SentBy, Sends
<1> QED BY <1>1, <1>2

LEMMA OutboxInitInv == OutboxInit => OutboxInv
<1> SUFFICES ASSUME OutboxInit PROVE OutboxInv
  OBVIOUS
<1>1. OutboxTyped
  BY DEF OutboxInit, OutboxTyped, Waiting
<1>2. WorkOK /\ RowLocksOK /\ PublishedIsInTopic
  BY OutboxAssumption
     DEF OutboxInit, WorkOK, RowLocksOK, PublishedIsInTopic, Waiting
<1>3. CopiesOK
  <2>1. \A e \in Events : Sends(e) = 0 /\ topic[e] = 0 /\ underway[e] = 0
    BY OutboxAssumption DEF OutboxInit, Sends, Attempts, Sent, SentBy, Waiting
  <2>2. WriterTries * 0 = 0
    BY OutboxAssumption
  <2> QED BY <2>1, <2>2 DEF CopiesOK
<1> QED BY <1>1, <1>2, <1>3 DEF OutboxInv

-----------------------------------------------------------------------------
(***************************************************************************)
(* Pages.                                                                  *)
(***************************************************************************)
LEMMA LeastExists ==
    ASSUME NEW S, S \subseteq Nat, S # {}
    PROVE  \E x \in S : \A y \in S : x <= y
<1> DEFINE R == {ss \in Nat \X Nat : ss[1] < ss[2]}
<1>1. IsWellFoundedOn(R, Nat)
  BY NatLessThanWellFounded DEF OpToRel
<1>2. PICK x \in S : \A y \in S : ~ (<<y, x>> \in R)
  <2> HIDE DEF R
  <2> QED BY <1>1, WFMin
<1>3. ASSUME NEW y \in S PROVE x <= y
  <2>1. x \in Nat /\ y \in Nat
    OBVIOUS
  <2>2. ~(y < x)
    BY <1>2, <2>1
  <2> QED BY <2>1, <2>2
<1> QED BY <1>3

LEMMA GreatestExists ==
    ASSUME NEW S, S \subseteq Nat, S # {}, NEW b \in Nat, \A x \in S : x <= b
    PROVE  \E x \in S : \A y \in S : y <= x
<1> DEFINE T == {b - x : x \in S}
<1>1. \A x \in S : b - x \in Nat
  OBVIOUS
<1>2. T \subseteq Nat
  BY <1>1
<1>3. T # {}
  OBVIOUS
<1>4. PICK t \in T : \A u \in T : t <= u
  <2> HIDE DEF T
  <2> QED BY <1>2, <1>3, LeastExists
<1>5. PICK x \in S : t = b - x
  OBVIOUS
<1>6. ASSUME NEW y \in S PROVE y <= x
  <2>1. b - x <= b - y
    BY <1>4, <1>5
  <2>2. x \in Nat /\ y \in Nat
    OBVIOUS
  <2> QED BY <2>1, <2>2
<1> QED BY <1>6

Below(S, x) == {y \in S : y < x}

LEMMA BelowFinite ==
    ASSUME NEW S, S \subseteq Nat, NEW x \in Nat
    PROVE  IsFiniteSet(Below(S, x)) /\ Cardinality(Below(S, x)) \in Nat
<1>1. Below(S, x) \in SUBSET Nat
  BY DEF Below
<1>2. \A y \in Below(S, x) : y <= x
  BY DEF Below
<1>3. IsFiniteSet(Below(S, x))
  BY <1>1, <1>2, FS_BoundedSetOfNaturals
<1> QED BY <1>3, FS_CardinalityType

(* There are more elements below a greater one. *)
LEMMA BelowGrows ==
    ASSUME NEW S, S \subseteq Nat, NEW x \in S, NEW y \in S, x < y
    PROVE  Cardinality(Below(S, x)) < Cardinality(Below(S, y))
<1>1. x \in Nat /\ y \in Nat
  OBVIOUS
<1>2. \A z \in S : z \in Nat
  OBVIOUS
<1>3. Below(S, x) \in SUBSET Below(S, y)
  <2>1. \A z \in S : z < x => z < y
    BY <1>1, <1>2
  <2> QED BY <2>1, Zenon DEF Below
<1>4. x \in Below(S, y)
  BY <1>1 DEF Below
<1>5. x \notin Below(S, x)
  BY <1>1 DEF Below
<1>6. /\ Cardinality(Below(S, x)) \in Nat /\ Cardinality(Below(S, y)) \in Nat
      /\ IsFiniteSet(Below(S, y))
  BY <1>1, BelowFinite
<1>7. Cardinality(Below(S, x)) <= Cardinality(Below(S, y))
  BY <1>3, <1>6, FS_Subset
<1>8. Cardinality(Below(S, y)) # Cardinality(Below(S, x))
  BY <1>3, <1>4, <1>5, <1>6, FS_Subset
<1> QED BY <1>6, <1>7, <1>8

LEMMA FirstPageIs ==
    ASSUME NEW S
    PROVE  FirstPage(S) = {x \in S : Cardinality(Below(S, x)) < PageSize}
  BY DEF FirstPage, Below

(* A page is what there is up to its last element, whatever its size.       *)
LEMMA PageIsInitial ==
    ASSUME NEW S, S \subseteq Nat, S # {}
    PROVE  /\ Last(FirstPage(S)) \in FirstPage(S)
           /\ \A x \in S : x \in FirstPage(S) <=> x <= Last(FirstPage(S))
<1> DEFINE F == FirstPage(S)
           Before(x) == Cardinality(Below(S, x))
<1>1. F \subseteq S
  BY DEF FirstPage
<1>2. \A x \in S : x \in F <=> Before(x) < PageSize
  BY FirstPageIs
<1>3. \A x \in S : x \in Nat /\ Before(x) \in Nat
  BY BelowFinite
<1>4. \A x, y \in S : x < y => Before(x) < Before(y)
  BY BelowGrows
<1>5. F # {}
  <2>1. PICK x \in S : \A y \in S : x <= y
    BY LeastExists
  <2>2. \A y \in S : ~(y < x)
    BY <1>3, <2>1
  <2>3. Below(S, x) = {}
    BY <2>2 DEF Below
  <2> QED BY <1>2, <2>3, FS_EmptySet, ConsumerAssumption
<1> HIDE DEF F, Before
<1>6. PICK x \in F : \A y \in F : PageSize - Before(x) <= PageSize - Before(y)
  <2> DEFINE T == {PageSize - Before(x) : x \in F}
  <2>1. \A x \in F : PageSize - Before(x) \in Nat
    BY <1>1, <1>2, <1>3, ConsumerAssumption
  <2>2. T \subseteq Nat
    BY <2>1
  <2>3. T # {}
    BY <1>5
  <2>4. PICK t \in T : \A u \in T : t <= u
    <3> HIDE DEF T
    <3> QED BY <2>2, <2>3, LeastExists
  <2>5. PICK x \in F : t = PageSize - Before(x)
    OBVIOUS
  <2> QED BY <2>4, <2>5
<1>7. \A y \in F : y <= x
  <2> SUFFICES ASSUME NEW y \in F PROVE ~(x < y)
    BY <1>1, <1>3
  <2>1. x \in S /\ y \in S
    BY <1>1
  <2>2. PageSize - Before(x) <= PageSize - Before(y)
    BY <1>6
  <2> QED BY <1>3, <1>4, <2>1, <2>2, ConsumerAssumption
<1>8. Last(F) \in F /\ \A y \in F : y <= Last(F)
  BY <1>7 DEF Last
<1>9. ASSUME NEW y \in S, NEW last \in F, y <= last PROVE y \in F
  <2>1. last \in S /\ Before(last) < PageSize
    BY <1>1, <1>2
  <2>2. y \in Nat /\ last \in Nat /\ Before(y) \in Nat /\ Before(last) \in Nat
    BY <1>3, <2>1
  <2>3. y = last \/ y < last
    BY <1>9, <2>2
  <2>4. Before(y) <= Before(last)
    BY <1>4, <2>1, <2>2, <2>3
  <2>5. Before(y) < PageSize
    BY <2>1, <2>2, <2>4, ConsumerAssumption
  <2> QED BY <1>2, <2>5
<1> QED BY <1>8, <1>9 DEF F

-----------------------------------------------------------------------------
(***************************************************************************)
(* The journal and the table.                                              *)
(***************************************************************************)
(* A commit adds one event, which describes an entry. *)
LEMMA WriteAdds ==
    ASSUME NEW u \in Users, NEW p \in Projects, Write(u, p)
    PROVE  \E e : /\ feed' = feed \cup {e}
                  /\ e.id = LastId + 1
                  /\ e.kind \in Feed!ViewKinds => Feed!Effect(e) \in Entries
<1> DEFINE E(kind, roles) == [id |-> LastId + 1, user |-> u, project |-> p,
                              kind |-> kind, roles |-> roles, profile |-> Profile]
<1>1. \/ \E kind \in {"access.revoked", "sessions.revoked"} :
           feed' = feed \cup {E(kind, None)}
      \/ \E roles \in Roles, kind \in {"access.granted", "roles.changed"} :
           feed' = feed \cup {E(kind, roles)}
  BY DEF Write
<1>2. ASSUME NEW kind \in {"access.revoked", "sessions.revoked"}
      PROVE  /\ E(kind, None).id = LastId + 1
             /\ E(kind, None).kind \in Feed!ViewKinds => Feed!Effect(E(kind, None)) \in Entries
  BY DEF Feed!ViewKinds, Feed!Effect, Entries
<1>3. ASSUME NEW kind \in {"access.granted", "roles.changed"}, NEW roles \in Roles
      PROVE  /\ E(kind, roles).id = LastId + 1
             /\ Feed!Effect(E(kind, roles)) \in Entries
  BY DEF Feed!Effect, Entries
<1> HIDE DEF E
<1> QED BY <1>1, <1>2, <1>3

(* What commits do to the journal. *)
LEMMA WriteKeepsFeed ==
    ASSUME FeedOK, NEW u \in Users, NEW p \in Projects, Write(u, p)
    PROVE  FeedOK' /\ LastId \in Nat /\ LastId' = LastId + 1
<1>1. PICK e : /\ feed' = feed \cup {e}
               /\ e.id = LastId + 1
               /\ e.kind \in Feed!ViewKinds => Feed!Effect(e) \in Entries
  BY WriteAdds
<1>2. IsFiniteSet(feed) /\ LastId \in Nat
  BY FS_CardinalityType DEF FeedOK, LastId
<1>3. \A d \in feed : d.id \in Nat /\ d.id <= LastId /\ d.id >= 1
  BY <1>2 DEF FeedOK
<1>4. e \notin feed
  BY <1>1, <1>2, <1>3
<1>5. IsFiniteSet(feed') /\ LastId' = LastId + 1
  BY <1>1, <1>2, <1>4, FS_AddElement DEF LastId
<1>6. \A d \in feed' : d.id \in 1..LastId'
  BY <1>1, <1>2, <1>3, <1>5
<1>7. \A d \in feed' : (d.kind \in Feed!ViewKinds => Feed!Effect(d) \in Entries)'
  BY <1>1 DEF FeedOK, Feed!ViewKinds, Feed!Effect
<1>8. \A c, d \in feed' : c.id = d.id => c = d
  BY <1>1, <1>2, <1>3 DEF FeedOK
<1> QED BY <1>2, <1>5, <1>6, <1>7, <1>8 DEF FeedOK

(* What the journal says up to a number does not change any more. *)
LEMMA EntriesStay ==
    ASSUME FeedOK, NEW u \in Users, NEW p \in Projects, Write(u, p)
    PROVE  \A v \in Users, n \in 0..LastId : EntryAt(v, n)' = EntryAt(v, n)
<1> SUFFICES ASSUME NEW v \in Users, NEW n \in 0..LastId
             PROVE  EntryAt(v, n)' = EntryAt(v, n)
  OBVIOUS
<1>1. PICK e : feed' = feed \cup {e} /\ e.id = LastId + 1
  BY WriteAdds
<1>2. LastId \in Nat /\ n <= LastId
  BY WriteKeepsFeed
<1>3. ~(e.id <= n)
  BY <1>1, <1>2
<1>4. {d \in feed' : d.id <= n} = {d \in feed : d.id <= n}
  BY <1>1, <1>3
<1> QED BY <1>4 DEF EntryAt, Feed!About, Feed!RowOf, Feed!ViewKinds, Feed!Effect, Feed!IsLatest

(* The latest of some events, if there is one. *)
LEMMA LatestIs ==
    ASSUME NEW E, NEW e \in E, \A d \in E : d.id <= e.id,
           \A c, d \in E : c.id <= d.id /\ d.id <= c.id => c = d
    PROVE  (CHOOSE d \in E : Feed!IsLatest(d, E)) = e
  BY DEF Feed!IsLatest

(* The table goes on being what the journal says. *)
LEMMA WriteKeepsTable ==
    ASSUME FeedOK, TableOK, NEW u \in Users, NEW p \in Projects, Write(u, p)
    PROVE  TableOK'
<1>1. PICK e : /\ feed' = feed \cup {e}
               /\ e.id = LastId + 1
               /\ e.kind \in Feed!ViewKinds => Feed!Effect(e) \in Entries
  BY WriteAdds
<1>2. FeedOK' /\ LastId \in Nat /\ LastId' = LastId + 1
  BY WriteKeepsFeed
<1>3. \A d \in feed : d.id \in Nat /\ d.id <= LastId
  BY <1>2 DEF FeedOK
<1>4. e \notin feed
  BY <1>1, <1>2, <1>3
<1>5. \A r \in Users \X Projects :
        table'[r] = IF Feed!About(r, {e}) = {} THEN table[r] ELSE Feed!Effect(e)
  <2> DEFINE new == feed' \ feed
  <2>1. new = {e}
    BY <1>1, <1>4
  <2>2. table' = [r \in Users \X Projects |->
                    IF Feed!About(r, new) = {} THEN table[r]
                    ELSE Feed!Effect(CHOOSE d \in Feed!About(r, new) :
                                       Feed!IsLatest(d, Feed!About(r, new)))]
    BY DEF Write, Feed!Publish, Feed!Rows
  <2>3. e.id <= e.id
    BY <1>1, <1>2
  <2> HIDE DEF new
  <2> SUFFICES ASSUME NEW r \in Users \X Projects
               PROVE  table'[r] = IF Feed!About(r, {e}) = {} THEN table[r]
                                  ELSE Feed!Effect(e)
    OBVIOUS
  <2>4. Feed!About(r, new) = Feed!About(r, {e})
    BY <2>1
  <2>5. table'[r] = IF Feed!About(r, new) = {} THEN table[r]
                    ELSE Feed!Effect(CHOOSE d \in Feed!About(r, new) :
                                       Feed!IsLatest(d, Feed!About(r, new)))
    BY <2>2
  <2>6. CASE Feed!About(r, {e}) = {}
    BY <2>4, <2>6, <2>5
  <2>7. CASE Feed!About(r, {e}) # {}
    <3>1. Feed!About(r, new) = {e}
      BY <2>4, <2>7 DEF Feed!About
    <3>2. (CHOOSE d \in Feed!About(r, new) : Feed!IsLatest(d, Feed!About(r, new))) = e
      BY <2>3, <3>1, LatestIs
    <3>3. Feed!About(r, new) # {}
      BY <2>4, <2>7
    <3>4. table'[r] = Feed!Effect(e)
      BY <2>5, <3>2, <3>3
    <3> QED BY <2>7, <3>4
  <2> QED BY <2>6, <2>7
<1>6. table' \in [Users \X Projects -> Entries]
  <2>1. \A r \in Users \X Projects : table'[r] \in Entries
    BY <1>1, <1>5 DEF TableOK, Feed!About
  <2>2. table' = [r \in Users \X Projects |-> table'[r]]
    BY DEF Write, Feed!Publish, Feed!Rows
  <2> QED BY <2>1, <2>2
<1>7. ASSUME NEW v \in Users
      PROVE  table'[<<v, Project>>] = EntryAt(v, LastId)'
  <2> DEFINE r == <<v, Project>>
             known == Feed!About(r, {d \in feed : d.id <= LastId})
             knownNow == Feed!About(r, {d \in feed' : d.id <= LastId'})
  <2>1. r \in Users \X Projects
    BY ConsumerAssumption
  <2>2. {d \in feed : d.id <= LastId} = feed
    BY <1>3
  <2>3. {d \in feed' : d.id <= LastId'} = feed'
    <3>1. \A d \in feed' : d.id <= LastId'
      BY <1>1, <1>2, <1>3
    <3> QED BY <3>1
  <2>4. knownNow = known \cup Feed!About(r, {e})
    BY <1>1, <2>2, <2>3 DEF Feed!About
  <2>5. EntryAt(v, LastId)' =
          IF knownNow = {} THEN InitialTable[r]
          ELSE Feed!Effect(CHOOSE d \in knownNow : Feed!IsLatest(d, knownNow))
    BY DEF EntryAt, Feed!About, Feed!RowOf, Feed!ViewKinds, Feed!Effect, Feed!IsLatest
  <2>6. EntryAt(v, LastId) =
          IF known = {} THEN InitialTable[r]
          ELSE Feed!Effect(CHOOSE d \in known : Feed!IsLatest(d, known))
    BY DEF EntryAt
  <2>7. table[r] = EntryAt(v, LastId)
    BY DEF TableOK
  <2>8. CASE Feed!About(r, {e}) = {}
    <3>1. knownNow = known
      BY <2>4, <2>8
    <3> QED BY <1>5, <2>1, <2>5, <2>6, <2>7, <2>8, <3>1
  <2>9. CASE Feed!About(r, {e}) # {}
    <3>1. e \in knownNow /\ knownNow \subseteq feed'
      BY <2>3, <2>4, <2>9 DEF Feed!About
    <3>2. \A d \in knownNow : d.id <= e.id
      BY <1>1, <1>2, <1>3, <3>1
    <3>3. \A c, d \in feed' : c.id \in Nat /\ d.id \in Nat /\ (c.id = d.id => c = d)
      BY <1>2 DEF FeedOK
    <3>4. \A c, d \in knownNow : c.id <= d.id /\ d.id <= c.id => c = d
      BY <3>1, <3>3
    <3> HIDE DEF knownNow
    <3>5. (CHOOSE d \in knownNow : Feed!IsLatest(d, knownNow)) = e
      BY <3>1, <3>2, <3>4, LatestIs
    <3> QED BY <1>5, <2>1, <2>5, <2>9, <3>1, <3>5
  <2> QED BY <2>8, <2>9
<1> QED BY <1>6, <1>7 DEF TableOK

-----------------------------------------------------------------------------
(***************************************************************************)
(* What SSO answers.                                                       *)
(***************************************************************************)
(* A page of the snapshot is right about every user it covers, those it     *)
(* leaves out included, as of the end of the journal.                       *)
LEMMA SnapshotPage ==
    ASSUME FeedOK, TableOK, NEW after \in Nat, NEW requested,
           requested # None => requested \in 0..LastId
    PROVE  PageOK(SnapshotAnswer(after, requested), after, requested)
<1> DEFINE S == Listed(after)
           F == FirstPage(S)
           page == SnapshotAnswer(after, requested)
<1>1. LastId \in Nat
  BY FS_CardinalityType DEF FeedOK, LastId
<1>2. S \subseteq Users /\ S \subseteq Nat
  BY ConsumerAssumption DEF Listed
<1>3. \A u \in Users : u \in S <=> u > after /\ table[<<u, Project>>] # None
  BY DEF Listed
<1>4. /\ page.cursor = IF requested = None THEN LastId ELSE requested
      /\ page.users = [u \in F |-> table[<<u, Project>>]]
      /\ page.next = NextAfterUser(S)
  BY DEF SnapshotAnswer
<1>5. F \subseteq S
  BY DEF FirstPage
<1>6. /\ page.next \in Nat
      /\ page.next # 0 => page.next > after
      /\ \A u \in F : Covers(page, after, u)
      /\ \A u \in Users : Covers(page, after, u) => (u \in F <=> u \in S)
  <2> HIDE DEF S, F, page
  <2>1. CASE S = F
    <3>1. page.next = 0
      BY <1>4, <2>1 DEF NextAfterUser, F
    <3>2. page.next \in Nat /\ (page.next # 0 => page.next > after)
      BY <3>1
    <3>3. \A u \in F : Covers(page, after, u)
      BY <1>2, <1>3, <2>1, <3>1 DEF Covers
    <3>4. \A u \in Users : Covers(page, after, u) => (u \in F <=> u \in S)
      BY <2>1
    <3> QED BY <3>2, <3>3, <3>4
  <2>2. CASE S # F
    <3>1. S # {}
      BY <1>5, <2>2
    <3>2. /\ Last(F) \in F
          /\ \A u \in S : u \in F <=> u <= Last(F)
      BY <1>2, <3>1, PageIsInitial DEF F
    <3>3. page.next = Last(F)
      BY <1>4, <2>2 DEF NextAfterUser, F
    <3>4. Last(F) \in Users /\ Last(F) \in Nat /\ Last(F) # 0 /\ Last(F) > after
      BY <1>2, <1>3, <1>5, <3>2, ConsumerAssumption
    <3>5. \A u \in F : u > after /\ u <= Last(F)
      BY <1>2, <1>3, <1>5, <3>2
    <3>6. \A u \in Users : Covers(page, after, u) => (u \in F <=> u \in S)
      BY <1>5, <3>2, <3>3, <3>4 DEF Covers
    <3> QED BY <3>3, <3>4, <3>5, <3>6 DEF Covers
  <2> QED BY <2>1, <2>2
<1>7. DOMAIN page.users = F /\ \A u \in F : page.users[u] = table[<<u, Project>>]
  BY <1>4
<1>8. \A u \in Users : table[<<u, Project>>] \in Entries
  BY ConsumerAssumption DEF TableOK
<1>9. page.cursor \in 0..LastId
  BY <1>1, <1>4
<1> HIDE DEF S, F, page
<1>10. ASSUME NEW u \in Users, Covers(page, after, u)
       PROVE  Listing(page, u) = EntryAt(u, LastId)
  <2>1. u > after
    BY <1>10 DEF Covers
  <2>2. Listing(page, u) = table[<<u, Project>>]
    BY <1>3, <1>6, <1>7, <1>10, <2>1 DEF Listing
  <2> QED BY <2>2 DEF TableOK
<1>11. ASSUME NEW u \in Users, Covers(page, after, u)
       PROVE  WithinReach(u, Listing(page, u), page.cursor)
  <2>1. LastId \in page.cursor..LastId
    BY <1>1, <1>9
  <2> QED BY <1>10, <1>11, <2>1 DEF WithinReach
<1>12. requested # None => page.cursor = requested
  BY <1>4
<1>13. \A u \in DOMAIN page.users :
         u \in Users /\ Covers(page, after, u) /\ page.users[u] \in Entries
  BY <1>2, <1>5, <1>6, <1>7, <1>8
<1> QED BY <1>6, <1>9, <1>11, <1>12, <1>13 DEF PageOK, page

(* A page of changes is complete up to the cursor it gives. *)
LEMMA ChangesPage ==
    ASSUME FeedOK, NEW after \in 0..LastId
    PROVE  LET page == ChangesAnswer(after)
           IN  /\ page.next \in after..LastId
               /\ page.events = {e \in feed : /\ e.project = Project
                                              /\ after < e.id /\ e.id <= page.next}
<1> DEFINE P == {e.id : e \in {d \in feed : d.project = Project /\ d.id > after}}
           ids == FirstPage(P)
           next == NextCursor(ids, after)
<1>1. LastId \in Nat /\ after \in Nat /\ after <= LastId
  BY FS_CardinalityType DEF FeedOK, LastId
<1>2. \A e \in feed : e.id \in Nat /\ e.id <= LastId
  BY <1>1 DEF FeedOK
<1>3. /\ ChangesAnswer(after).next = next
      /\ ChangesAnswer(after).events = {e \in feed : e.id \in ids}
  BY DEF ChangesAnswer
<1>4. \A e \in feed : e.id \in P <=> e.project = Project /\ e.id > after
  BY DEF FeedOK
<1>5. P \subseteq Nat /\ \A x \in P : after < x /\ x <= LastId
  BY <1>2
<1>6. ids \subseteq P
  BY DEF FirstPage
<1> HIDE DEF P
<1>7. CASE P = {}
  <2>1. ids = {} /\ next = after
    BY <1>6, <1>7 DEF NextCursor
  <2>2. \A e \in feed : ~(after < e.id /\ e.id <= after)
    BY <1>1, <1>2
  <2>3. {e \in feed : e.id \in ids} =
          {e \in feed : e.project = Project /\ after < e.id /\ e.id <= next}
    BY <2>1, <2>2
  <2> QED BY <1>1, <1>3, <2>1, <2>3
<1>8. CASE P # {}
  <2>1. Last(ids) \in ids /\ \A x \in P : x \in ids <=> x <= Last(ids)
    BY <1>5, <1>8, PageIsInitial
  <2>2. next = Last(ids)
    BY <2>1 DEF NextCursor
  <2> HIDE DEF ids, next
  <2>3. next \in after..LastId
    <3>1. Last(ids) \in P
      BY <1>6, <2>1
    <3>2. Last(ids) \in Nat /\ after < Last(ids) /\ Last(ids) <= LastId
      BY <1>5, <3>1
    <3> QED BY <1>1, <2>2, <3>2
  <2>4. \A e \in feed : e.id \in ids <=> e.project = Project /\ after < e.id /\ e.id <= next
    BY <1>1, <1>2, <1>4, <1>6, <2>1, <2>2
  <2>5. {e \in feed : e.id \in ids} =
          {e \in feed : e.project = Project /\ after < e.id /\ e.id <= next}
    BY <2>4
  <2> QED BY <1>3, <2>3, <2>5
<1> QED BY <1>7, <1>8

-----------------------------------------------------------------------------
(***************************************************************************)
(* Steps keep the invariant of the feed and the application.               *)
(***************************************************************************)
(* What the journal said it goes on saying. *)
JournalGrows ==
    /\ LastId \in Nat /\ LastId' \in Nat /\ LastId <= LastId'
    /\ \A u \in Users, n \in 0..LastId : EntryAt(u, n)' = EntryAt(u, n)

LEMMA CommitsGrow ==
    ASSUME FeedOK, TableOK, NEW u \in Users, NEW p \in Projects, Write(u, p)
    PROVE  FeedOK' /\ TableOK' /\ JournalGrows
<1>1. FeedOK' /\ LastId \in Nat /\ LastId' = LastId + 1
  BY WriteKeepsFeed
<1>2. LastId' \in Nat /\ LastId <= LastId'
  BY <1>1
<1> QED BY <1>1, <1>2, EntriesStay, WriteKeepsTable DEF JournalGrows

LEMMA ReadersGrowNothing ==
    ASSUME FeedOK, TableOK, UNCHANGED <<table, feed>>
    PROVE  FeedOK' /\ TableOK' /\ JournalGrows /\ LastId' = LastId
<1>1. LastId \in Nat /\ LastId' = LastId
  BY FS_CardinalityType DEF FeedOK, LastId
<1>2. \A u, n : EntryAt(u, n)' = EntryAt(u, n)
  BY DEF EntryAt, Feed!About, Feed!RowOf, Feed!ViewKinds, Feed!Effect, Feed!IsLatest
<1>3. FeedOK'
  BY <1>1 DEF FeedOK, Feed!ViewKinds, Feed!Effect
<1>4. TableOK'
  BY <1>1, <1>2 DEF TableOK
<1> QED BY <1>1, <1>2, <1>3, <1>4 DEF JournalGrows

LEMMA CopyStays ==
    ASSUME CopyOK, JournalGrows, UNCHANGED <<copy, cursor>>
    PROVE  CopyOK'
<1> SUFFICES ASSUME cursor # None
             PROVE  /\ cursor \in 0..LastId'
                    /\ \A u \in Users : WithinReach(u, copy[u], cursor)'
  BY DEF CopyOK
<1>1. cursor \in 0..LastId /\ cursor \in 0..LastId' /\ cursor \in Nat
  BY DEF CopyOK, JournalGrows
<1>2. ASSUME NEW u \in Users PROVE WithinReach(u, copy[u], cursor)'
  <2>1. PICK n \in cursor..LastId : copy[u] = EntryAt(u, n)
    BY DEF CopyOK, WithinReach
  <2>2. n \in 0..LastId /\ n \in cursor..LastId'
    BY <1>1, <2>1 DEF JournalGrows
  <2>3. copy'[u] = EntryAt(u, n)'
    BY <2>1, <2>2 DEF JournalGrows
  <2> QED BY <2>2, <2>3 DEF WithinReach
<1> QED BY <1>1, <1>2

LEMMA LoadStays ==
    ASSUME LoadOK, JournalGrows, UNCHANGED <<load>>
    PROVE  LoadOK'
<1> SUFFICES ASSUME load # None, load.cursor # None
             PROVE  /\ load.cursor \in 0..LastId'
                    /\ \A u \in Users :
                         u <= load.after => WithinReach(u, load.staged[u], load.cursor)'
  BY DEF LoadOK
<1>1. load.cursor \in 0..LastId /\ load.cursor \in 0..LastId' /\ load.cursor \in Nat
  BY DEF LoadOK, JournalGrows
<1>2. ASSUME NEW u \in Users, u <= load.after
      PROVE  WithinReach(u, load.staged[u], load.cursor)'
  <2>1. PICK n \in load.cursor..LastId : load.staged[u] = EntryAt(u, n)
    BY <1>2 DEF LoadOK, WithinReach
  <2>2. n \in 0..LastId /\ n \in load.cursor..LastId'
    BY <1>1, <2>1 DEF JournalGrows
  <2>3. load'.staged[u] = EntryAt(u, n)'
    BY <2>1, <2>2 DEF JournalGrows
  <2> QED BY <2>2, <2>3 DEF WithinReach
<1> QED BY <1>1, <1>2

(* An answer under way stays right while SSO goes on. *)
LEMMA SnapshotStays ==
    ASSUME SnapshotOK, JournalGrows, UNCHANGED <<load, answer>>
    PROVE  SnapshotOK'
<1> SUFFICES ASSUME load # None, answer # None
             PROVE  PageOK(answer, load.after, load.cursor)'
  BY DEF SnapshotOK
<1>1. PageOK(answer, load.after, load.cursor)
  BY DEF SnapshotOK
<1>2. answer.cursor \in 0..LastId /\ answer.cursor \in 0..LastId' /\ answer.cursor \in Nat
  BY <1>1 DEF PageOK, JournalGrows
<1>3. ASSUME NEW u \in Users, Covers(answer, load.after, u)
      PROVE  WithinReach(u, Listing(answer, u), answer.cursor)'
  <2>1. PICK n \in answer.cursor..LastId : Listing(answer, u) = EntryAt(u, n)
    BY <1>1, <1>3 DEF PageOK, WithinReach
  <2>2. n \in 0..LastId /\ n \in answer.cursor..LastId'
    BY <1>2, <2>1 DEF JournalGrows
  <2>3. Listing(answer, u)' = EntryAt(u, n)'
    BY <2>1, <2>2 DEF JournalGrows, Listing
  <2> QED BY <2>2, <2>3 DEF WithinReach
<1> QED BY <1>1, <1>2, <1>3 DEF PageOK, Covers

LEMMA ChangesStay ==
    ASSUME ChangesOK, UNCHANGED <<table, feed, cursor, load, answer>>
    PROVE  ChangesOK'
  BY DEF ChangesOK, LastId

LEMMA CommitKeepsConsumer ==
    ASSUME ConsumerInv, NEW u \in Users, NEW p \in Projects, Write(u, p)
    PROVE  ConsumerInv'
<1>1. UNCHANGED <<copy, cursor, load, answer, faults>>
  BY DEF Write, consumerVars
<1>2. FeedOK' /\ TableOK' /\ JournalGrows
  BY CommitsGrow DEF ConsumerInv
<1>3. ConsumerTyped'
  BY <1>1 DEF ConsumerInv, ConsumerTyped
<1>4. CopyOK' /\ LoadOK' /\ SnapshotOK'
  BY <1>1, <1>2, CopyStays, LoadStays, SnapshotStays DEF ConsumerInv
<1>5. ChangesOK'
  <2> SUFFICES ASSUME load = None, answer # None
               PROVE  /\ cursor # None
                      /\ answer.next \in cursor..LastId'
                      /\ answer.events = {e \in feed' : /\ e.project = Project
                                                        /\ cursor < e.id
                                                        /\ e.id <= answer.next}
    BY <1>1 DEF ChangesOK
  <2>1. /\ cursor # None /\ cursor \in Nat
        /\ answer.next \in cursor..LastId
        /\ answer.events =
             {e \in feed : e.project = Project /\ cursor < e.id /\ e.id <= answer.next}
    BY DEF ConsumerInv, ChangesOK, ConsumerTyped
  <2>2. LastId \in Nat /\ LastId' \in Nat /\ LastId <= LastId'
    BY <1>2 DEF JournalGrows
  <2>3. answer.next \in cursor..LastId'
    BY <2>1, <2>2
  <2>4. PICK new : feed' = feed \cup {new} /\ new.id = LastId + 1
    BY WriteAdds
  <2>5. ~(new.id <= answer.next)
    BY <2>1, <2>2, <2>4
  <2>6. answer.events =
          {e \in feed' : e.project = Project /\ cursor < e.id /\ e.id <= answer.next}
    BY <2>1, <2>4, <2>5
  <2> QED BY <2>1, <2>3, <2>6
<1> QED BY <1>2, <1>3, <1>4, <1>5 DEF ConsumerInv

LEMMA StartLoadInv ==
    ASSUME ConsumerInv, StartLoad PROVE ConsumerInv'
<1>1. /\ UNCHANGED <<table, feed>> /\ UNCHANGED <<copy, cursor>> /\ answer' = None
      /\ load' = [after |-> 0, cursor |-> None, staged |-> NoRows]
  BY DEF StartLoad, serverVars
<1>2. FeedOK' /\ TableOK' /\ JournalGrows
  BY <1>1, ReadersGrowNothing DEF ConsumerInv
<1>3. CopyOK'
  BY <1>1, <1>2, CopyStays DEF ConsumerInv
<1>4. faults' \in 0..MaxFaults
  BY ConsumerAssumption DEF StartLoad, Fault, ConsumerInv, ConsumerTyped
<1>5. NoRows \in [Users -> Entries]
  BY DEF NoRows, Entries
<1>6. ConsumerTyped'
  BY <1>1, <1>4, <1>5 DEF ConsumerInv, ConsumerTyped
<1>7. LoadOK'
  BY <1>1 DEF LoadOK, NoRows
<1>8. SnapshotOK' /\ ChangesOK'
  BY <1>1 DEF SnapshotOK, ChangesOK
<1> QED BY <1>2, <1>3, <1>6, <1>7, <1>8 DEF ConsumerInv

LEMMA AskSnapshotInv ==
    ASSUME ConsumerInv, AskSnapshot PROVE ConsumerInv'
<1>1. /\ UNCHANGED <<table, feed>> /\ UNCHANGED <<copy, cursor>> /\ UNCHANGED <<load>>
      /\ faults' = faults
      /\ load # None /\ answer' = SnapshotAnswer(load.after, load.cursor)
  BY DEF AskSnapshot, serverVars
<1>2. FeedOK' /\ TableOK' /\ JournalGrows /\ LastId' = LastId
  BY <1>1, ReadersGrowNothing DEF ConsumerInv
<1>3. CopyOK' /\ LoadOK'
  BY <1>1, <1>2, CopyStays, LoadStays DEF ConsumerInv
<1>4. ConsumerTyped'
  BY <1>1 DEF ConsumerInv, ConsumerTyped
<1>5. SnapshotOK'
  <2> DEFINE page == SnapshotAnswer(load.after, load.cursor)
  <2>1. PageOK(page, load.after, load.cursor)
    BY <1>1, SnapshotPage DEF ConsumerInv, LoadOK, ConsumerTyped
  <2> HIDE DEF page
  <2>2. answer' = page
    BY <1>1 DEF page
  <2>3. \A u \in Users : \A entry, c :
          c \in 0..LastId /\ WithinReach(u, entry, c)
            => \E n \in c..LastId : entry = EntryAt(u, n)'
    <3> SUFFICES ASSUME NEW u \in Users, NEW entry, NEW c \in 0..LastId,
                        WithinReach(u, entry, c)
                 PROVE  \E n \in c..LastId : entry = EntryAt(u, n)'
      OBVIOUS
    <3>1. PICK n \in c..LastId : entry = EntryAt(u, n)
      BY DEF WithinReach
    <3>2. n \in 0..LastId
      BY <1>2 DEF JournalGrows
    <3> QED BY <1>2, <3>1, <3>2 DEF JournalGrows
  <2>4. page.cursor \in 0..LastId
    BY <2>1 DEF PageOK
  <2>5. ASSUME NEW u \in Users, Covers(page, load.after, u)
        PROVE  \E n \in page.cursor..LastId : Listing(page, u) = EntryAt(u, n)'
    BY <2>1, <2>3, <2>4, <2>5 DEF PageOK
  <2>6. ASSUME NEW u \in Users, Covers(answer, load.after, u)'
        PROVE  WithinReach(u, Listing(answer, u), answer.cursor)'
    BY <1>1, <1>2, <2>2, <2>5, <2>6 DEF WithinReach, Covers, Listing
  <2>7. PageOK(answer, load.after, load.cursor)'
    BY <1>1, <1>2, <2>1, <2>2, <2>6 DEF PageOK, Covers
  <2> QED BY <2>7 DEF SnapshotOK
<1>6. ChangesOK'
  BY <1>1 DEF ChangesOK
<1> QED BY <1>2, <1>3, <1>4, <1>5, <1>6 DEF ConsumerInv

(* A page joins the rows staged before it: what they say goes up to its end. *)
LEMMA StagePageInv ==
    ASSUME ConsumerInv, StagePage PROVE ConsumerInv'
<1> DEFINE staged == [u \in Users |-> IF u \in DOMAIN answer.users THEN answer.users[u]
                                      ELSE load.staged[u]]
<1>1. /\ UNCHANGED <<table, feed>> /\ faults' = faults /\ answer' = None
      /\ load # None /\ answer # None
      /\ IF answer.next = 0
         THEN copy' = staged /\ cursor' = answer.cursor /\ load' = None
         ELSE /\ load' = [after |-> answer.next, cursor |-> answer.cursor,
                          staged |-> staged]
              /\ UNCHANGED <<copy, cursor>>
  BY DEF StagePage, serverVars
<1>2. FeedOK' /\ TableOK' /\ JournalGrows /\ LastId' = LastId
  BY <1>1, ReadersGrowNothing DEF ConsumerInv
<1>3. PageOK(answer, load.after, load.cursor)
  BY <1>1 DEF ConsumerInv, SnapshotOK
<1>4. /\ load.after \in Nat
      /\ load.staged \in [Users -> Entries]
      /\ load.cursor = None => load.after = 0
      /\ \A u \in Users : u > load.after => load.staged[u] = None
  BY <1>1 DEF ConsumerInv, LoadOK, ConsumerTyped
<1>5. \A u \in Users : u \in Nat /\ u # 0
  BY ConsumerAssumption
<1>6. answer.cursor \in 0..LastId /\ answer.next \in Nat /\ LastId \in Nat
  BY <1>2, <1>3 DEF PageOK, JournalGrows
<1>7. staged \in [Users -> Entries]
  BY <1>3, <1>4 DEF PageOK
<1>8. ASSUME NEW u \in Users, answer.next = 0 \/ u <= answer.next
      PROVE  WithinReach(u, staged[u], answer.cursor)
  <2>1. CASE u <= load.after
    <3>1. u \notin DOMAIN answer.users
      BY <1>3, <1>4, <1>5, <2>1 DEF PageOK, Covers
    <3>2. staged[u] = load.staged[u]
      BY <3>1
    <3>3. load.cursor # None
      BY <1>4, <1>5, <2>1
    <3>4. answer.cursor = load.cursor
      BY <1>3, <3>3 DEF PageOK
    <3>5. WithinReach(u, load.staged[u], load.cursor)
      BY <1>1, <2>1, <3>3 DEF ConsumerInv, LoadOK
    <3> HIDE DEF staged
    <3> QED BY <3>2, <3>4, <3>5
  <2>2. CASE u > load.after
    <3>1. Covers(answer, load.after, u)
      BY <1>8, <2>2 DEF Covers
    <3>2. staged[u] = Listing(answer, u)
      BY <1>4, <2>2 DEF Listing
    <3> HIDE DEF staged
    <3> QED BY <1>3, <3>1, <3>2 DEF PageOK
  <2> QED BY <1>4, <1>5, <2>1, <2>2
<1>9. ASSUME NEW u \in Users, answer.next # 0, u > answer.next
      PROVE  staged[u] = None
  <2>1. ~Covers(answer, load.after, u)
    BY <1>5, <1>6, <1>9 DEF Covers
  <2>2. u > load.after
    BY <1>3, <1>4, <1>5, <1>6, <1>9 DEF PageOK
  <2> QED BY <1>3, <1>4, <2>1, <2>2 DEF PageOK
<1>10. ASSUME NEW u \in Users, WithinReach(u, staged[u], answer.cursor)
       PROVE  \E n \in answer.cursor..LastId : staged[u] = EntryAt(u, n)'
  <2>1. PICK n \in answer.cursor..LastId : staged[u] = EntryAt(u, n)
    BY <1>10 DEF WithinReach
  <2>2. n \in 0..LastId
    BY <1>6
  <2> HIDE DEF staged
  <2> QED BY <1>2, <2>1, <2>2 DEF JournalGrows
<1>11. SnapshotOK' /\ ChangesOK'
  BY <1>1 DEF SnapshotOK, ChangesOK
<1> HIDE DEF staged
<1>12. CASE answer.next = 0
  <2>1. copy' = staged /\ cursor' = answer.cursor /\ load' = None
    BY <1>1, <1>12
  <2>2. ConsumerTyped'
    BY <1>1, <1>6, <1>7, <2>1 DEF ConsumerInv, ConsumerTyped
  <2>3. \A u \in Users : WithinReach(u, copy[u], cursor)'
    BY <1>2, <1>8, <1>10, <1>12, <2>1 DEF WithinReach
  <2>4. CopyOK'
    BY <1>2, <1>6, <2>1, <2>3 DEF CopyOK
  <2>5. LoadOK'
    BY <2>1 DEF LoadOK
  <2> QED BY <1>2, <1>11, <2>2, <2>4, <2>5 DEF ConsumerInv
<1>13. CASE answer.next # 0
  <2>1. /\ load' = [after |-> answer.next, cursor |-> answer.cursor, staged |-> staged]
        /\ UNCHANGED <<copy, cursor>>
    BY <1>1, <1>13
  <2>2. /\ load'.after = answer.next /\ load'.cursor = answer.cursor
        /\ load'.staged = staged
    BY <2>1
  <2>3. ConsumerTyped'
    BY <1>1, <1>6, <1>7, <2>1 DEF ConsumerInv, ConsumerTyped
  <2>4. CopyOK'
    BY <1>2, <2>1, CopyStays DEF ConsumerInv
  <2>5. ASSUME NEW u \in Users, u <= load'.after
        PROVE  WithinReach(u, load.staged[u], load.cursor)'
    BY <1>2, <1>8, <1>10, <2>2, <2>5 DEF WithinReach
  <2>6. \A u \in Users : u > load'.after => load'.staged[u] = None
    BY <1>9, <1>13, <2>2
  <2>7. load'.cursor # None /\ load'.cursor \in 0..LastId'
    BY <1>2, <1>6, <2>2, ConsumerAssumption
  <2>8. LoadOK'
    BY <2>5, <2>6, <2>7 DEF LoadOK
  <2> QED BY <1>2, <1>11, <2>3, <2>4, <2>8 DEF ConsumerInv
<1> QED BY <1>12, <1>13

LEMMA AskChangesInv ==
    ASSUME ConsumerInv, AskChanges PROVE ConsumerInv'
<1>1. /\ UNCHANGED <<table, feed>> /\ UNCHANGED <<copy, cursor>> /\ UNCHANGED <<load>>
      /\ faults' = faults /\ load = None /\ cursor # None
      /\ answer' = ChangesAnswer(cursor)
  BY DEF AskChanges, serverVars
<1>2. FeedOK' /\ TableOK' /\ JournalGrows /\ LastId' = LastId
  BY <1>1, ReadersGrowNothing DEF ConsumerInv
<1>3. CopyOK' /\ LoadOK'
  BY <1>1, <1>2, CopyStays, LoadStays DEF ConsumerInv
<1>4. ConsumerTyped'
  BY <1>1 DEF ConsumerInv, ConsumerTyped
<1>5. ChangesOK'
  <2> DEFINE page == ChangesAnswer(cursor)
  <2>1. /\ page.next \in cursor..LastId
        /\ page.events =
             {e \in feed : e.project = Project /\ cursor < e.id /\ e.id <= page.next}
    BY <1>1, ChangesPage DEF ConsumerInv, CopyOK
  <2> HIDE DEF page
  <2>2. answer' = page
    BY <1>1 DEF page
  <2> QED BY <1>1, <1>2, <2>1, <2>2 DEF ChangesOK
<1>6. SnapshotOK'
  BY <1>1 DEF SnapshotOK
<1> QED BY <1>2, <1>3, <1>4, <1>5, <1>6 DEF ConsumerInv

LEMMA LosesInv ==
    ASSUME ConsumerInv, LoseAnswer \/ CrashApplication PROVE ConsumerInv'
<1>1. /\ UNCHANGED <<table, feed>> /\ UNCHANGED <<copy, cursor>>
      /\ load' = load \/ load' = None
      /\ answer' = None
  BY DEF LoseAnswer, CrashApplication, serverVars
<1>2. FeedOK' /\ TableOK' /\ JournalGrows
  BY <1>1, ReadersGrowNothing DEF ConsumerInv
<1>3. CopyOK'
  BY <1>1, <1>2, CopyStays DEF ConsumerInv
<1>4. LoadOK'
  <2>1. CASE load' = load
    BY <1>2, <2>1, LoadStays DEF ConsumerInv
  <2>2. CASE load' = None
    BY <2>2 DEF LoadOK
  <2> QED BY <1>1, <2>1, <2>2
<1>5. faults' \in 0..MaxFaults
  BY ConsumerAssumption
     DEF LoseAnswer, CrashApplication, Fault, ConsumerInv, ConsumerTyped
<1>6. ConsumerTyped'
  BY <1>1, <1>5 DEF ConsumerInv, ConsumerTyped
<1>7. SnapshotOK' /\ ChangesOK'
  BY <1>1 DEF SnapshotOK, ChangesOK
<1> QED BY <1>2, <1>3, <1>4, <1>6, <1>7 DEF ConsumerInv

(* The page has every event a row lacks up to the new cursor. *)
LEMMA ChangesReach ==
    ASSUME ConsumerInv, ApplyChanges, NEW u \in Users
    PROVE  WithinReach(u, copy'[u], answer.next)
<1> DEFINE next == answer.next
           r == <<u, Project>>
           known == Feed!About(r, answer.events)
           old(n) == Feed!About(r, {e \in feed : e.id <= n})
<1>1. load = None /\ answer # None
  BY DEF ApplyChanges
<1>2. /\ cursor # None
      /\ next \in cursor..LastId
      /\ answer.events = {e \in feed : /\ e.project = Project
                                       /\ cursor < e.id /\ e.id <= next}
  BY <1>1 DEF ConsumerInv, ChangesOK
<1>3. cursor \in Nat /\ next \in Nat /\ LastId \in Nat /\ cursor <= next /\ next <= LastId
  <2>1. LastId \in Nat /\ cursor \in Nat
    BY <1>2, FS_CardinalityType DEF ConsumerInv, ConsumerTyped, FeedOK, LastId
  <2> QED BY <1>2, <2>1
<1>4. /\ \A e \in feed : e.id \in Nat /\ e.id <= LastId
      /\ \A e, d \in feed : e.id = d.id => e = d
  BY <1>3 DEF ConsumerInv, FeedOK
<1>5. copy'[u] = IF known = {} THEN copy[u]
                 ELSE Feed!Effect(CHOOSE e \in known : Feed!IsLatest(e, known))
  BY DEF ApplyChanges
<1>6. \A n : EntryAt(u, n) =
               IF old(n) = {} THEN InitialTable[r]
               ELSE Feed!Effect(CHOOSE e \in old(n) : Feed!IsLatest(e, old(n)))
  BY DEF EntryAt
<1>7. \A e : e \in known <=> /\ e \in feed /\ Feed!RowOf(e) = r
                             /\ e.kind \in Feed!ViewKinds
                             /\ cursor < e.id /\ e.id <= next
  BY <1>2 DEF Feed!About, Feed!RowOf
<1>8. \A n, e : e \in old(n) <=> /\ e \in feed /\ Feed!RowOf(e) = r
                                 /\ e.kind \in Feed!ViewKinds /\ e.id <= n
  BY DEF Feed!About
<1> HIDE DEF next, known, old
<1>9. CASE known = {}
  <2>1. PICK n \in cursor..LastId : copy[u] = EntryAt(u, n)
    BY <1>2 DEF ConsumerInv, CopyOK, WithinReach
  <2>2. n \in Nat /\ cursor <= n /\ n <= LastId
    BY <1>3
  <2>3. copy'[u] = EntryAt(u, n)
    BY <1>5, <1>9, <2>1
  <2>4. CASE next <= n
    <3>1. n \in next..LastId
      BY <1>3, <2>2, <2>4
    <3> QED BY <2>3, <3>1 DEF WithinReach, next
  <2>5. CASE n < next
    <3>1. \A e \in feed : e.id <= next /\ e \notin known
                            /\ Feed!RowOf(e) = r /\ e.kind \in Feed!ViewKinds
                            => e.id <= n
      BY <1>3, <1>4, <1>7, <2>2, <2>5
    <3>2. \A e \in feed : e.id <= n => e.id <= next
      BY <1>3, <1>4, <2>2, <2>5
    <3>3. \A e : e \in old(n) <=> e \in old(next)
      BY <1>8, <1>9, <3>1, <3>2
    <3>4. old(n) = old(next)
      BY <3>3 DEF old, Feed!About
    <3>5. EntryAt(u, n) = EntryAt(u, next)
      BY <1>6, <3>4
    <3>6. next \in next..LastId
      BY <1>3
    <3> QED BY <2>3, <3>5, <3>6 DEF WithinReach, next
  <2> QED BY <1>3, <2>2, <2>4, <2>5
<1>10. CASE known # {}
  <2>1. PICK e \in known : \A d \in known : d.id <= e.id
    <3> DEFINE ids == {d.id : d \in known}
    <3>1. ids \subseteq Nat
      BY <1>4, <1>7
    <3>2. \A x \in ids : x <= LastId
      BY <1>4, <1>7
    <3>3. ids # {}
      BY <1>10
    <3>4. PICK x \in ids : \A y \in ids : y <= x
      <4> HIDE DEF ids
      <4> QED BY <1>3, <3>1, <3>2, <3>3, GreatestExists
    <3> QED BY <3>4
  <2>2. e \in feed /\ e \in old(next)
    BY <1>7, <1>8
  <2>3. \A d \in old(next) : d.id <= e.id
    <3> SUFFICES ASSUME NEW d \in old(next) PROVE d.id <= e.id
      OBVIOUS
    <3>1. d.id \in Nat /\ e.id \in Nat /\ cursor < e.id
      BY <1>4, <1>7, <1>8
    <3>2. CASE cursor < d.id
      BY <1>7, <1>8, <2>1, <3>2
    <3>3. CASE d.id <= cursor
      BY <1>3, <3>1, <3>3
    <3> QED BY <1>3, <3>1, <3>2, <3>3
  <2>4. \A c, d \in feed : c.id <= d.id /\ d.id <= c.id => c = d
    BY <1>4
  <2>5. (CHOOSE d \in known : Feed!IsLatest(d, known)) = e
    BY <1>7, <2>1, <2>4, LatestIs
  <2>6. \A c, d \in old(next) : c.id <= d.id /\ d.id <= c.id => c = d
    BY <1>8, <2>4
  <2>7. (CHOOSE d \in old(next) : Feed!IsLatest(d, old(next))) = e
    <3> DEFINE E == old(next)
    <3>1. e \in E /\ (\A d \in E : d.id <= e.id)
          /\ (\A c, d \in E : c.id <= d.id /\ d.id <= c.id => c = d)
      BY <2>2, <2>3, <2>6
    <3> HIDE DEF E
    <3>2. (CHOOSE d \in E : Feed!IsLatest(d, E)) = e
      BY <3>1, LatestIs
    <3> QED BY <3>2 DEF E
  <2>8. copy'[u] = EntryAt(u, next)
    BY <1>5, <1>6, <1>10, <2>2, <2>5, <2>7
  <2>9. next \in next..LastId
    BY <1>3
  <2> QED BY <2>8, <2>9 DEF WithinReach, next
<1> QED BY <1>9, <1>10

LEMMA ApplyChangesInv ==
    ASSUME ConsumerInv, ApplyChanges PROVE ConsumerInv'
<1>1. /\ UNCHANGED <<table, feed>> /\ UNCHANGED <<load>> /\ faults' = faults
      /\ load = None /\ answer # None /\ answer' = None /\ cursor' = answer.next
  BY DEF ApplyChanges, serverVars
<1>2. FeedOK' /\ TableOK' /\ JournalGrows /\ LastId' = LastId
  BY <1>1, ReadersGrowNothing DEF ConsumerInv
<1>3. answer.next \in cursor..LastId /\ cursor \in Nat /\ answer.events \subseteq feed
  BY <1>1 DEF ConsumerInv, ChangesOK, ConsumerTyped
<1>4. answer.next \in 0..LastId /\ answer.next \in Nat
  BY <1>2, <1>3 DEF JournalGrows
<1>5. ASSUME NEW u \in Users PROVE copy'[u] \in Entries
  <2> DEFINE known == Feed!About(<<u, Project>>, answer.events)
  <2>1. copy'[u] = IF known = {} THEN copy[u]
                   ELSE Feed!Effect(CHOOSE e \in known : Feed!IsLatest(e, known))
    BY DEF ApplyChanges
  <2>2. \A e \in known : Feed!Effect(e) \in Entries
    BY <1>3 DEF Feed!About, ConsumerInv, FeedOK
  <2>3. known # {} => \E e \in known : Feed!IsLatest(e, known)
    <3> SUFFICES ASSUME known # {} PROVE \E e \in known : Feed!IsLatest(e, known)
      OBVIOUS
    <3> DEFINE ids == {d.id : d \in known}
    <3>1. LastId \in Nat /\ \A d \in known : d.id \in Nat /\ d.id <= LastId
      BY <1>2, <1>3 DEF JournalGrows, Feed!About, ConsumerInv, FeedOK
    <3>2. ids \subseteq Nat /\ ids # {} /\ \A x \in ids : x <= LastId
      BY <3>1
    <3>3. PICK x \in ids : \A y \in ids : y <= x
      <4> HIDE DEF ids
      <4> QED BY <3>1, <3>2, GreatestExists
    <3> QED BY <3>3 DEF Feed!IsLatest
  <2> HIDE DEF known
  <2>4. CASE known = {}
    BY <2>1, <2>4 DEF ConsumerInv, ConsumerTyped
  <2>5. CASE known # {}
    <3>1. (CHOOSE e \in known : Feed!IsLatest(e, known)) \in known
      BY <2>3, <2>5
    <3> QED BY <2>1, <2>2, <2>5, <3>1
  <2> QED BY <2>4, <2>5
<1>6. copy' \in [Users -> Entries]
  <2>1. copy' = [u \in Users |-> copy'[u]]
    BY DEF ApplyChanges
  <2> QED BY <1>5, <2>1
<1>7. ConsumerTyped'
  BY <1>1, <1>4, <1>6 DEF ConsumerInv, ConsumerTyped
<1>8. ASSUME NEW u \in Users PROVE WithinReach(u, copy[u], cursor)'
  <2>1. PICK n \in answer.next..LastId : copy'[u] = EntryAt(u, n)
    BY ChangesReach DEF WithinReach
  <2>2. n \in 0..LastId
    BY <1>2, <1>4, <2>1 DEF JournalGrows
  <2>3. copy'[u] = EntryAt(u, n)'
    BY <1>2, <2>1, <2>2 DEF JournalGrows
  <2> QED BY <1>1, <1>2, <2>1, <2>3 DEF WithinReach
<1>9. CopyOK'
  BY <1>1, <1>2, <1>4, <1>8 DEF CopyOK
<1>10. LoadOK' /\ SnapshotOK' /\ ChangesOK'
  BY <1>1 DEF LoadOK, SnapshotOK, ChangesOK
<1> QED BY <1>2, <1>7, <1>9, <1>10 DEF ConsumerInv

LEMMA ConsumerInitInv == ConsumerInit => ConsumerInv
<1> SUFFICES ASSUME ConsumerInit PROVE ConsumerInv
  OBVIOUS
<1>1. /\ feed = {} /\ table = InitialTable /\ LastId = 0
  BY FS_EmptySet DEF ConsumerInit, Feed!Init, LastId
<1>2. NoRows \in [Users -> Entries] /\ 0 \in 0..MaxFaults
  BY ConsumerAssumption DEF NoRows, Entries
<1>3. ConsumerTyped
  BY <1>2 DEF ConsumerInit, ConsumerTyped
<1>4. FeedOK
  BY <1>1, FS_EmptySet DEF FeedOK
<1>5. \A u, n : EntryAt(u, n) = InitialTable[<<u, Project>>]
  BY <1>1 DEF EntryAt, Feed!About
<1>6. TableOK
  BY <1>1, <1>5, ConsumerAssumption DEF TableOK
<1>7. CopyOK /\ LoadOK /\ SnapshotOK /\ ChangesOK
  BY DEF ConsumerInit, CopyOK, LoadOK, SnapshotOK, ChangesOK
<1> QED BY <1>3, <1>4, <1>6, <1>7 DEF ConsumerInv

LEMMA ApplicationNextInv ==
    ASSUME ConsumerInv, ApplicationNext \/ UNCHANGED <<serverVars, consumerVars>>
    PROVE  ConsumerInv'
<1>1. CASE ApplicationNext
  BY <1>1, StartLoadInv, AskSnapshotInv, StagePageInv, AskChangesInv, ApplyChangesInv,
     LosesInv DEF ApplicationNext
<1>2. CASE UNCHANGED <<serverVars, consumerVars>>
  <2>1. /\ UNCHANGED <<table, feed>> /\ UNCHANGED <<copy, cursor>> /\ UNCHANGED <<load>>
        /\ UNCHANGED <<load, answer>> /\ faults' = faults
        /\ UNCHANGED <<table, feed, cursor, load, answer>>
    BY <1>2 DEF serverVars, consumerVars
  <2>2. FeedOK' /\ TableOK' /\ JournalGrows
    BY <2>1, ReadersGrowNothing DEF ConsumerInv
  <2>3. ConsumerTyped'
    BY <2>1 DEF ConsumerInv, ConsumerTyped
  <2>4. CopyOK' /\ LoadOK' /\ SnapshotOK' /\ ChangesOK'
    BY <2>1, <2>2, CopyStays, LoadStays, SnapshotStays, ChangesStay DEF ConsumerInv
  <2> QED BY <2>2, <2>3, <2>4 DEF ConsumerInv
<1> QED BY <1>1, <1>2

-----------------------------------------------------------------------------
(***************************************************************************)
(* The theorems.                                                           *)
(***************************************************************************)
DeliveryInv ==
    /\ OutboxInv
    /\ ConsumerInv
    /\ channel \in {"kafka", "http"}

(* A commit writes the row of the event it numbers. *)
LEMMA CommitEventInv ==
    ASSUME DeliveryInv, CommitEvent PROVE DeliveryInv'
<1>1. PICK u \in Users, p \in Projects : Write(u, p)
  BY DEF CommitEvent
<1>2. ConsumerInv'
  BY <1>1, CommitKeepsConsumer DEF DeliveryInv
<1>3. LastId \in Nat /\ LastId < MaxEvents
  BY <1>1, WriteKeepsFeed DEF DeliveryInv, ConsumerInv, Write
<1>4. LastId + 1 \in Events
  BY <1>3, EventsAssumption
<1>5. OutboxInv'
  BY <1>4, InsertRowInv DEF CommitEvent, DeliveryInv
<1> QED BY <1>2, <1>5 DEF CommitEvent, DeliveryInv

(* What the invariants of delivery.cfg rest on: the outbox and the          *)
(* application keep theirs in every step of the code.                       *)
THEOREM DeliveryInvariant == Spec => []DeliveryInv
<1>1. Init => DeliveryInv
  BY OutboxInitInv, ConsumerInitInv DEF Init, DeliveryInv
<1>2. DeliveryInv /\ [Next]_vars => DeliveryInv'
  <2> SUFFICES ASSUME DeliveryInv, [Next]_vars PROVE DeliveryInv'
    OBVIOUS
  <2>1. CASE CommitEvent
    BY <2>1, CommitEventInv
  <2>2. CASE Publishing
    BY <2>2, OutboxNextInv, ApplicationNextInv DEF Publishing, DeliveryInv
  <2>3. CASE Reading
    BY <2>3, OutboxNextInv, ApplicationNextInv DEF Reading, DeliveryInv
  <2>4. CASE UNCHANGED vars
    BY <2>4, OutboxNextInv, ApplicationNextInv DEF vars, DeliveryInv
  <2> QED BY <2>1, <2>2, <2>3, <2>4 DEF Next
<1> QED BY <1>1, <1>2, PTL DEF Spec

PublishedTyped == feed \subseteq EventRecords /\ AnswerTyped

LEMMA WriteTyped ==
    ASSUME ConsumerInv, PublishedTyped, NEW u \in Users, NEW p \in Projects, Write(u, p)
    PROVE  PublishedTyped'
<1>1. LastId \in Nat /\ LastId < MaxEvents
  BY WriteKeepsFeed DEF ConsumerInv, Write
<1>2. LastId + 1 \in 1..MaxEvents
  BY <1>1, EventsAssumption
<1>3. feed' \subseteq EventRecords
  BY <1>2 DEF Write, PublishedTyped, EventRecords
<1>4. UNCHANGED <<answer, load>>
  BY DEF Write, consumerVars
<1> QED BY <1>3, <1>4 DEF PublishedTyped, AnswerTyped

LEMMA AskSnapshotTyped ==
    ASSUME ConsumerInv, PublishedTyped, AskSnapshot PROVE PublishedTyped'
<1> DEFINE S == Listed(load.after)
           page == SnapshotAnswer(load.after, load.cursor)
<1>1. load # None /\ UNCHANGED <<feed, load>> /\ answer' = page
  BY DEF AskSnapshot, serverVars
<1>2. PageOK(page, load.after, load.cursor)
  BY <1>1, SnapshotPage DEF ConsumerInv, LoadOK, ConsumerTyped
<1>3. page.cursor \in Nat /\ page.next \in Nat
  BY <1>2, FS_CardinalityType DEF PageOK
<1>4. FirstPage(S) \subseteq Users
  BY DEF FirstPage, Listed
<1>5. \A u \in Users : table[<<u, Project>>] \in Entries
  BY ConsumerAssumption DEF ConsumerInv, TableOK
<1>6. [u \in FirstPage(S) |-> table[<<u, Project>>]] \in [FirstPage(S) -> Entries]
  BY <1>4, <1>5
<1>7. page.users \in UNION {[T -> Entries] : T \in SUBSET Users}
  BY <1>4, <1>6 DEF SnapshotAnswer
<1>8. page = [cursor |-> page.cursor, users |-> page.users, next |-> page.next]
  BY DEF SnapshotAnswer
<1> HIDE DEF page
<1>9. page \in SnapshotPages
  BY <1>3, <1>7, <1>8 DEF SnapshotPages
<1> QED BY <1>1, <1>9 DEF PublishedTyped, AnswerTyped

LEMMA AskChangesTyped ==
    ASSUME ConsumerInv, PublishedTyped, AskChanges PROVE PublishedTyped'
<1> DEFINE page == ChangesAnswer(cursor)
<1>1. load = None /\ cursor # None /\ UNCHANGED <<feed, load>> /\ answer' = page
  BY DEF AskChanges, serverVars
<1>2. cursor \in 0..LastId /\ cursor \in Nat
  BY <1>1 DEF ConsumerInv, CopyOK, ConsumerTyped
<1>3. page.next \in cursor..LastId
  BY <1>2, ChangesPage DEF ConsumerInv
<1>4. page.next \in Nat
  BY <1>2, <1>3
<1>5. page.events \subseteq EventRecords
  BY DEF ChangesAnswer, PublishedTyped
<1>6. page = [events |-> page.events, next |-> page.next]
  BY DEF ChangesAnswer
<1> HIDE DEF page
<1>7. page \in ChangesPages
  BY <1>4, <1>5, <1>6 DEF ChangesPages
<1> QED BY <1>1, <1>7 DEF PublishedTyped, AnswerTyped

(* Events are what QueueEvent writes, and an answer is what was asked for. *)
THEOREM PublishedTypes == Spec => []PublishedTyped
<1>1. Init => PublishedTyped
  BY DEF Init, ConsumerInit, Feed!Init, PublishedTyped, AnswerTyped
<1>2. DeliveryInv /\ PublishedTyped /\ [Next]_vars => PublishedTyped'
  <2> SUFFICES ASSUME DeliveryInv, PublishedTyped, [Next]_vars PROVE PublishedTyped'
    OBVIOUS
  <2>1. CASE CommitEvent
    BY <2>1, WriteTyped DEF CommitEvent, DeliveryInv
  <2>2. CASE Reading
    <3>1. StartLoad \/ StagePage \/ ApplyChanges \/ LoseAnswer \/ CrashApplication
            => answer' = None /\ feed' = feed
      BY DEF StartLoad, StagePage, ApplyChanges, LoseAnswer, CrashApplication, serverVars
    <3>2. answer' = None /\ feed' = feed => PublishedTyped'
      BY DEF PublishedTyped, AnswerTyped
    <3> QED BY <2>2, <3>1, <3>2, AskSnapshotTyped, AskChangesTyped
            DEF Reading, ApplicationNext, DeliveryInv
  <2>3. CASE UNCHANGED <<serverVars, consumerVars>>
    BY <2>3 DEF serverVars, consumerVars, PublishedTyped, AnswerTyped
  <2> QED BY <2>1, <2>2, <2>3 DEF Next, Publishing, vars
<1> QED BY <1>1, <1>2, DeliveryInvariant, PTL DEF Spec

(* Every variable of the outbox, the journal and the application has its    *)
(* type.                                                                    *)
THEOREM DeliveryTypes == Spec => []TypeOK
<1>1. DeliveryInv /\ PublishedTyped => TypeOK
  BY DEF DeliveryInv, OutboxInv, ConsumerInv, TableOK, PublishedTyped, ServerTyped, TypeOK
<1> QED BY <1>1, DeliveryInvariant, PublishedTypes, PTL

(* RecordResult marks a row published only when the broker acknowledged it  *)
(* in that transaction, whichever publishers work beside it, whatever fails *)
(* or is rolled back.                                                       *)
THEOREM PublishedRowsAreInTopic == Spec => []PublishedIsInTopic
<1>1. DeliveryInv => PublishedIsInTopic
  BY DEF DeliveryInv, OutboxInv
<1> QED BY <1>1, DeliveryInvariant, PTL

(* The row is locked while it is sent, so that no two publishers send it at *)
(* once: however many copies the tries of a send leave, and whatever the    *)
(* broker writes after the publisher has given up, each is a copy of a send *)
(* that was counted, was rolled back, or is still to be recorded.           *)
THEOREM CopiesComeFromFailures == Spec => []DuplicatesFromFailures
<1>1. DeliveryInv => DuplicatesFromFailures
  <2> SUFFICES ASSUME DeliveryInv, NEW e \in Events
               PROVE  topic[e] + underway[e]
                        <= WriterTries *
                             (Attempts(e) + crashes[e]
                                + (IF \E p \in Publishers : publisher[p].event = e
                                   THEN 1 ELSE 0))
    BY DEF DuplicatesFromFailures, Attempts
  <2> DEFINE working == IF \E p \in Publishers : publisher[p].event = e THEN 1 ELSE 0
             most == Attempts(e) + crashes[e] + working
  <2>1. topic[e] + underway[e] <= WriterTries * Sends(e)
    BY DEF DeliveryInv, OutboxInv, CopiesOK
  <2>2. Sent(e) \in {0, 1} /\ working \in {0, 1} /\ Sent(e) <= working
    BY DEF Sent, SentBy
  <2>3. topic[e] \in Nat /\ underway[e] \in Nat /\ crashes[e] \in Nat /\ Attempts(e) \in Nat
    BY DEF DeliveryInv, OutboxInv, OutboxTyped, Attempts, OutboxRows
  <2> HIDE DEF working
  <2>4. Sends(e) \in Nat /\ most \in Nat /\ Sends(e) <= most
    BY <2>2, <2>3 DEF Sends
  <2> HIDE DEF most
  <2>5. WriterTries * Sends(e) <= WriterTries * most
    BY <2>4, MoreSends
  <2>6. WriterTries * Sends(e) \in Nat /\ WriterTries * most \in Nat
    BY <2>4, OutboxAssumption
  <2>7. topic[e] + underway[e] <= WriterTries * most
    BY <2>1, <2>3, <2>5, <2>6
  <2> QED BY <2>7 DEF most, working
<1> QED BY <1>1, DeliveryInvariant, PTL

(* An application that pages through the snapshot while SSO changes the     *)
(* table, and applies the changes after the first page's cursor, never      *)
(* holds a row that the events still to come do not bring up to date,       *)
(* however many pages, losses, crashes and repeated loads there are.        *)
THEOREM CopiesStayWithinReach == Spec => []CopyWithinReach
<1>1. DeliveryInv => CopyWithinReach
  BY DEF DeliveryInv, ConsumerInv, CopyOK, WithinReach, CopyWithinReach
<1> QED BY <1>1, DeliveryInvariant, PTL

(* A full load under way is at a cursor no earlier than the stored one. *)
LoadIsLater ==
    cursor # None /\ load # None =>
      /\ load.cursor # None => cursor <= load.cursor
      /\ answer # None => cursor <= answer.cursor

LEMMA AskedIsLater ==
    ASSUME ConsumerInv, LoadIsLater, AskSnapshot PROVE LoadIsLater'
<1> SUFFICES ASSUME cursor # None
             PROVE  /\ load.cursor # None => cursor <= load.cursor
                    /\ cursor <= answer'.cursor
  BY DEF AskSnapshot, LoadIsLater
<1>1. load.cursor # None => cursor <= load.cursor
  BY DEF AskSnapshot, LoadIsLater
<1>2. answer'.cursor = IF load.cursor = None THEN LastId ELSE load.cursor
  BY DEF AskSnapshot, SnapshotAnswer
<1>3. cursor <= LastId
  BY DEF ConsumerInv, CopyOK
<1> QED BY <1>1, <1>2, <1>3

LEMMA StagedIsLater ==
    ASSUME ConsumerInv, LoadIsLater, StagePage
    PROVE  LoadIsLater' /\ (cursor # None /\ cursor' # cursor => cursor <= cursor')
<1>1. /\ load # None /\ answer # None /\ answer' = None
      /\ \/ cursor' = answer.cursor /\ load' = None
         \/ cursor' = cursor /\ load'.cursor = answer.cursor
  BY DEF StagePage
<1> QED BY <1>1 DEF LoadIsLater

LEMMA LaterStep ==
    ASSUME ConsumerInv, LoadIsLater, ApplicationNext PROVE LoadIsLater'
<1>1. CASE StartLoad
  <2>1. answer' = None /\ load'.cursor = None
    BY <1>1 DEF StartLoad
  <2> QED BY <2>1 DEF LoadIsLater
<1>2. CASE AskChanges \/ ApplyChanges
  BY <1>2 DEF AskChanges, ApplyChanges, LoadIsLater
<1>3. CASE LoseAnswer \/ CrashApplication
  BY <1>3 DEF LoseAnswer, CrashApplication, LoadIsLater
<1> QED BY <1>1, <1>2, <1>3, AskedIsLater, StagedIsLater DEF ApplicationNext

(* While a full load is repeated, its pages and its cursor are at least as    *)
(* late as the stored cursor: nothing but the load itself moves that.       *)
THEOREM LoadsAreLater == Spec => []LoadIsLater
<1>1. Init => LoadIsLater
  BY DEF Init, ConsumerInit, LoadIsLater
<1>2. DeliveryInv /\ LoadIsLater /\ [Next]_vars => LoadIsLater'
  <2> SUFFICES ASSUME DeliveryInv, LoadIsLater, [Next]_vars PROVE LoadIsLater'
    OBVIOUS
  <2>1. CASE Reading
    BY <2>1, LaterStep DEF Reading, DeliveryInv
  <2>2. CASE UNCHANGED consumerVars
    BY <2>2 DEF consumerVars, LoadIsLater
  <2> QED BY <2>1, <2>2 DEF Next, CommitEvent, Write, Publishing, vars
<1> QED BY <1>1, <1>2, DeliveryInvariant, PTL DEF Spec

(* The cursor goes forward only, and outside a full load over events of     *)
(* which each was in the page it came with: whatever SSO commits between    *)
(* the answer and its application is after that page's cursor.              *)
THEOREM EventsAreReadInTurn == Spec => EventsReadInTurn
<1> DEFINE Turn == cursor # None /\ cursor' # cursor =>
                     /\ cursor < cursor'
                     /\ load = None =>
                          answer.events = {e \in feed : /\ e.project = Project
                                                        /\ cursor < e.id /\ e.id <= cursor'}
<1>1. ASSUME ConsumerInv, LoadIsLater, ApplyChanges PROVE Turn
  <2>1. answer # None /\ load = None /\ cursor' = answer.next
    BY <1>1 DEF ApplyChanges
  <2>2. /\ cursor # None
        /\ answer.next \in cursor..LastId
        /\ answer.events =
             {e \in feed : e.project = Project /\ cursor < e.id /\ e.id <= answer.next}
    BY <1>1, <2>1 DEF ConsumerInv, ChangesOK
  <2>3. cursor \in Nat /\ LastId \in Nat
    BY <1>1, <2>2, ConsumerAssumption, FS_CardinalityType
       DEF ConsumerInv, ConsumerTyped, FeedOK, LastId
  <2> QED BY <2>1, <2>2, <2>3
<1>2. ASSUME ConsumerInv, LoadIsLater, StagePage PROVE Turn
  <2>1. load # None
    BY <1>2 DEF StagePage
  <2>2. cursor # None /\ cursor' # cursor => cursor <= cursor'
    BY <1>2, StagedIsLater
  <2>3. cursor \in Nat \cup {None} /\ cursor' \in Nat \cup {None}
    BY <1>2, StagePageInv DEF ConsumerInv, ConsumerTyped
  <2>4. cursor # None => cursor' # None
    BY <1>2, <2>3, ConsumerAssumption DEF StagePage, ConsumerInv, SnapshotOK, PageOK
  <2> QED BY <2>1, <2>2, <2>3, <2>4
<1>3. ASSUME DeliveryInv, LoadIsLater, [Next]_vars PROVE Turn \/ UNCHANGED cursor
  <2>1. Reading => ApplyChanges \/ StagePage \/ UNCHANGED cursor
    BY DEF Reading, ApplicationNext, StartLoad, AskSnapshot, AskChanges, LoseAnswer,
           CrashApplication
  <2>2. CommitEvent \/ Publishing \/ UNCHANGED vars => UNCHANGED cursor
    BY DEF CommitEvent, Write, Publishing, vars, consumerVars
  <2> QED BY <1>1, <1>2, <1>3, <2>1, <2>2 DEF DeliveryInv, Next
<1>4. DeliveryInv /\ LoadIsLater /\ [Next]_vars => [Turn]_consumerVars
  BY <1>3
<1> QED BY <1>4, DeliveryInvariant, LoadsAreLater, PTL DEF Spec, EventsReadInTurn
=============================================================================
