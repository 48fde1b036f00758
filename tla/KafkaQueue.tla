----------------------------- MODULE KafkaQueue -----------------------------
(***************************************************************************)
(* The Kafka backend of the queue (queue/kafka.go) and the one consumer of  *)
(* its group.  Messages travel over the topics inbound and retry; a message *)
(* is settled once it is on the topic sent or dlq.  A commit is a position  *)
(* in a partition: it covers every earlier record too.  Whether a record    *)
(* that waits for its next attempt is due when looked at is left open.      *)
(***************************************************************************)
EXTENDS Integers, Sequences, FiniteSets
LOCAL INSTANCE Functions

CONSTANTS
    KIds,           \* message ids
    Poison,         \* stands for a record that unmarshalMessage refuses
    NoReceipt,
    Partitions,     \* pairs <<topic, number>>
    KLimit,         \* messages the dispatcher holds at most (limit * prefetch factor)
    KMaxRecords,    \* bound: records of all partitions
    KMaxRebalances  \* bound

VARIABLES
    kLog,       \* kLog[p]: the records of partition p
    kDone,      \* kDone[p]: the committed position
    kNext,      \* kNext[p]: how many records the reader has fetched
    kStaged,    \* KafkaStore.staged
    kReceipts,  \* KafkaStore.receipts: the record to commit for an id
    kCall,      \* the call of Due in progress
    kHeld,      \* messages returned by Due and not reported on
    kReporting, \* messages published onwards whose commit is still to come
    kSettled,   \* ids on the topics sent and dlq
    kRebalances,
    kSkipped    \* history: records committed without a report on them

kvars == <<kLog, kDone, kNext, kStaged, kReceipts, kCall, kHeld, kReporting, kSettled, kRebalances, kSkipped>>

Record(id, waits) == [id |-> id, waits |-> waits]
NoCall == [src |-> "none", n |-> 0, left |-> 0, out |-> {}]

(* A producer other than this program may have left a record that is not a message. *)
KInit ==
    /\ \E first \in {<<>>, <<Record(Poison, FALSE)>>} :
          kLog = [p \in Partitions |-> IF p = <<"inbound", 1>> THEN first ELSE <<>>]
    /\ kDone = [p \in Partitions |-> 0] /\ kNext = [p \in Partitions |-> 0]
    /\ kStaged = <<>> /\ kReceipts = [id \in KIds |-> NoReceipt] /\ kCall = NoCall
    /\ kHeld = {} /\ kReporting = {} /\ kSettled = {} /\ kSkipped = {} /\ kRebalances = 0

Records == FoldFunction(LAMBDA log, n : n + Len(log), 0, kLog)

(* WriteMessages picks the partition by load, not by key.  It may fail, and  *)
(* it may report a failure although the record was written.                  *)
publish(topic, rec, ok) ==
    \/ ~ok /\ UNCHANGED kLog
    \/ \E p \in Partitions :
          /\ p[1] = topic /\ Records < KMaxRecords
          /\ kLog' = [kLog EXCEPT ![p] = Append(@, rec)]

(* CommitMessages sets the group's position in the partition; its failure is *)
(* noticed by nobody or only logged.  "last" is the last record that it      *)
(* covers without a report of its own.                                       *)
commitByReceipt(r, last) ==
    \/ UNCHANGED <<kDone, kSkipped>>
    \/ /\ kDone' = [kDone EXCEPT ![r[1]] = r[2]]
       /\ kSkipped' = kSkipped \cup {<<r[1], i>> : i \in (kDone[r[1]] + 1)..last}

(* Enqueue refuses a message under quarantine. *)
KEnqueue(id) ==
    /\ \E quarantine, ok \in BOOLEAN :
          IF quarantine THEN UNCHANGED kLog ELSE publish("inbound", Record(id, FALSE), ok)
    /\ UNCHANGED <<kDone, kNext, kStaged, kReceipts, kCall, kHeld, kReporting, kSettled, kSkipped, kRebalances>>

(* Due is called when the batch before is finished; with fair queueing some  *)
(* messages may still be in the buffer of the dispatcher.                    *)
KDue ==
    /\ kCall = NoCall /\ kReporting = {} /\ Cardinality(kHeld) < KLimit
    /\ kCall' = [src |-> "staged", n |-> Len(kStaged), left |-> KLimit - Cardinality(kHeld), out |-> {}]
    /\ UNCHANGED <<kLog, kDone, kNext, kStaged, kReceipts, kHeld, kReporting, kSettled, kSkipped, kRebalances>>

OneLess(call) == [call EXCEPT !.n = @ - 1]
Taken(call, id) == [call EXCEPT !.n = @ - 1, !.left = @ - 1, !.out = @ \cup {id}]

(* Due on one message that is due: the first one of its id is returned, its  *)
(* receipt replaces an older one, and a second one is committed.             *)
Offer(item) ==
    IF item.rec.id \in kCall.out
    THEN commitByReceipt(item.at, item.at[2]) /\ kCall' = OneLess(kCall) /\ UNCHANGED kReceipts
    ELSE /\ kReceipts' = [kReceipts EXCEPT ![item.rec.id] = item.at]
         /\ kCall' = Taken(kCall, item.rec.id) /\ UNCHANGED <<kDone, kSkipped>>

(* The first loop of Due goes over the staged messages in their order. *)
DueStaged ==
    /\ kCall.src = "staged" /\ kCall.n > 0
    /\ LET item == Head(kStaged) IN
       \/ /\ kStaged' = Append(Tail(kStaged), item) /\ kCall' = OneLess(kCall)
          /\ UNCHANGED <<kReceipts, kDone, kSkipped>>
       \/ kCall.left > 0 /\ kStaged' = Tail(kStaged) /\ Offer(item)
    /\ UNCHANGED <<kLog, kNext, kHeld, kReporting, kSettled, kRebalances>>

Source(src, left) == [kCall EXCEPT !.src = IF left = 0 THEN "return" ELSE src, !.n = left * 2]
NextSource == Source(IF kCall.src = "staged" THEN "retry" ELSE IF kCall.src = "retry" THEN "inbound" ELSE "return", kCall.left)

(* The loop over a source ends: after its share of fetches, when the limit   *)
(* is reached, or when nothing arrives within 100 ms.                        *)
DueNextSource ==
    /\ \/ kCall.src = "staged" /\ kCall.n = 0
       \/ kCall.src \in {"retry", "inbound"}
    /\ kCall' = NextSource
    /\ UNCHANGED <<kLog, kDone, kNext, kStaged, kReceipts, kHeld, kReporting, kSettled, kSkipped, kRebalances>>

(* fetchOne and the body of the second loop of Due. *)
DueFetch(p) ==
    /\ kCall.src = p[1] /\ kCall.n > 0 /\ kCall.left > 0 /\ kNext[p] < Len(kLog[p])
    /\ kNext' = [kNext EXCEPT ![p] = @ + 1]
    /\ LET at == <<p, kNext[p] + 1>>
           item == [at |-> at, rec |-> kLog[p][at[2]]] IN
       \/ /\ item.rec.id = Poison /\ commitByReceipt(at, at[2])
          /\ kCall' = NextSource /\ UNCHANGED <<kStaged, kReceipts>>
       \/ /\ item.rec.waits /\ kStaged' = Append(kStaged, item)
          /\ kCall' = OneLess(kCall) /\ UNCHANGED <<kReceipts, kDone, kSkipped>>
       \/ item.rec.id # Poison /\ Offer(item) /\ UNCHANGED kStaged
    /\ UNCHANGED <<kLog, kHeld, kReporting, kSettled, kRebalances>>

(* Due returns; on an error of a fetch the dispatcher drops what it got. *)
DueReturn ==
    /\ \/ kCall.src = "return" /\ kHeld' = kHeld \cup kCall.out
       \/ kCall.src \in {"retry", "inbound"} /\ UNCHANGED kHeld
    /\ kCall' = NoCall
    /\ UNCHANGED <<kLog, kDone, kNext, kStaged, kReceipts, kReporting, kSettled, kSkipped, kRebalances>>

(* AckSent, Retry, Defer and Fail publish first; when that fails they return *)
(* and the message is in no worker's hands any more.                         *)
Publish(id, topic) ==
    /\ kCall = NoCall /\ id \in kHeld
    /\ kHeld' = kHeld \ {id}
    /\ \E ok \in BOOLEAN :
          /\ kReporting' = IF ok THEN kReporting \cup {id} ELSE kReporting
          /\ IF topic = "retry"
             THEN publish("retry", Record(id, TRUE), ok) /\ UNCHANGED kSettled
             ELSE /\ kSettled' \in {kSettled \cup {id}} \cup (IF ok THEN {} ELSE {kSettled})
                  /\ UNCHANGED kLog
    /\ UNCHANGED <<kDone, kNext, kStaged, kReceipts, kCall, kSkipped, kRebalances>>

(* commitByID forgets the receipt also when the commit fails. *)
commitByID(id) ==
    /\ kReporting' = kReporting \ {id}
    /\ kReceipts' = [kReceipts EXCEPT ![id] = NoReceipt]
    /\ IF kReceipts[id] = NoReceipt THEN UNCHANGED <<kDone, kSkipped>> ELSE commitByReceipt(kReceipts[id], kReceipts[id][2] - 1)

AckSent(id) == Publish(id, "sent")
Fail(id) == Publish(id, "dlq")

(* Mutant: the commit comes before the publication. *)
RetryCommittingFirst(id) ==
    /\ kCall = NoCall /\ id \in kHeld /\ id \notin kReporting
    /\ kHeld' = kHeld \ {id} /\ kReporting' = kReporting
    /\ kReceipts' = [kReceipts EXCEPT ![id] = NoReceipt]
    /\ commitByReceipt(kReceipts[id], kReceipts[id][2] - 1)
    /\ publish("retry", Record(id, TRUE), FALSE)
    /\ UNCHANGED <<kNext, kStaged, kCall, kSettled, kRebalances>>

Retry(id) == Publish(id, "retry")

(* The second half of the four reports. *)
KCommit(id) ==
    /\ id \in kReporting /\ commitByID(id)
    /\ UNCHANGED <<kLog, kNext, kStaged, kCall, kHeld, kSettled, kRebalances>>

(* The group rebalances: the reader starts again from the committed position. *)
KRebalance ==
    /\ kRebalances < KMaxRebalances /\ kRebalances' = kRebalances + 1
    /\ kNext # kDone /\ kNext' = kDone
    /\ UNCHANGED <<kLog, kDone, kStaged, kReceipts, kCall, kHeld, kReporting, kSettled, kSkipped>>

(* Close or a crash, and a new start: only the topics and the positions remain. *)
KRestart ==
    /\ kNext' = kDone /\ kStaged' = <<>> /\ kReceipts' = [id \in KIds |-> NoReceipt]
    /\ kCall' = NoCall /\ kHeld' = {} /\ kReporting' = {}
    /\ UNCHANGED <<kLog, kDone, kSettled, kSkipped, kRebalances>>

KNext ==
    \/ \E id \in KIds : KEnqueue(id) \/ AckSent(id) \/ Retry(id) \/ Fail(id) \/ KCommit(id)
    \/ KDue \/ DueStaged \/ DueNextSource \/ \E p \in Partitions : DueFetch(p)
    \/ DueReturn \/ KRebalance \/ KRestart

KSpec == KInit /\ [][KNext]_kvars
-----------------------------------------------------------------------------
Unsettled(id) == id \notin kSettled /\ \E p \in Partitions : \E i \in 1..Len(kLog[p]) : kLog[p][i].id = id
Uncommitted(id) == \E p \in Partitions : \E i \in (kDone[p] + 1)..Len(kLog[p]) : kLog[p][i].id = id
InMemory(id) ==
    \/ id \in kHeld \cup kReporting \cup kCall.out
    \/ \E i \in 1..Len(kStaged) : kStaged[i].rec.id = id

(* A published message that is not settled has a record after the committed  *)
(* position, so a new start fetches it, whatever fails or stops between the  *)
(* publication and the commit of a report; the exceptions are a record that  *)
(* the commit of a later record of its partition has covered, and one that   *)
(* Due has dropped as the second of its id.                                  *)
LostOnlyIfOvertaken ==
    \A id \in KIds : Unsettled(id) =>
        Uncommitted(id) \/ \E s \in kSkipped : kLog[s[1]][s[2]].id = id

(* At least once: a published message is settled, or fetched after a new     *)
(* start, or still in the hands of the program.                              *)
AtLeastOnce == \A id \in KIds : Unsettled(id) => Uncommitted(id) \/ InMemory(id)
=============================================================================
