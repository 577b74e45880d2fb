------------------------------ MODULE KafkaSink ------------------------------
(***************************************************************************)
(* TopicManager and KafkaProducer (src/src/kafka): events are given one at *)
(* a time, as Replicator::process_message does, or in batches; the topic   *)
(* of a single event is checked and created first, messages wait in the    *)
(* Kafka client's queue, and a call gives up on a message that is not      *)
(* delivered in time.                                                      *)
(*                                                                         *)
(* The Kafka client and the brokers are external.  The client's queue is   *)
(* bounded, and FIFO for each partition of a topic: it is idempotent (the  *)
(* settings of KafkaProducer::new).  The partition of a message follows    *)
(* from its key; without one, or with an empty one, it is any.  Other      *)
(* clients create and delete topics, always with the same partitions.      *)
(***************************************************************************)
EXTENDS Integers, Sequences, SequencesExt, KeyStrategy

CONSTANTS
    Topics,         \* the topics, topic_name of each table
    Given,          \* the events, each with its topic and the row it is about
    Strategies,     \* the key strategies a caller may choose
    RowStrategies,  \* those that name a row, by its table or its key columns
    Partitions,     \* the partitions of a topic, 1 in the pipeline
    Hash(_),        \* the client's partitioner: the partition of a key
    Capacity        \* messages the client's queue holds

Events == DOMAIN Given
Lanes == Topics \X (1 .. Partitions)

ASSUME SinkAssumption ==
    /\ Given \in Seq([topic : Topics, row : {Given[e].row : e \in Events},
                      table : {Given[e].table : e \in Events},
                      op : {"Insert", "Update", "Delete"},
                      before : {Given[e].before : e \in Events},
                      after : {Given[e].after : e \in Events}])
    /\ Partitions \in Nat \ {0}
    /\ \A e \in Events, s \in Strategies : LET key == ExtractKey(s, Given[e]) IN
           key # None => Hash(key[1]) \in 1 .. Partitions
    /\ Capacity \in Nat \ {0}

\* The images of its row that an event holds.
Images(event) == {event.before, event.after} \ {None}

\* What it is for a strategy to name rows: all images of a row, old and new and
\* whatever event they are in, agree on the columns the strategy reads and have a
\* key.  A delete has the old image, the other operations have the new one.
ASSUME RowAssumption ==
    /\ \A e \in Events : IF Given[e].op = "Delete" THEN Given[e].before # None
                                                    ELSE Given[e].after # None
    /\ \A s \in RowStrategies : \/ s = TableName
                                \/ s.kind \in {"PrimaryKey", "FieldPath", "Composite"}
    /\ \A s \in RowStrategies \intersect Strategies : \A d, e \in Events :
          Given[d].row = Given[e].row =>
              /\ Given[d].table = Given[e].table
              /\ s = TableName \/ \A i \in Images(Given[d]), j \in Images(Given[e]) :
                    /\ \A c \in Columns(s) : Get(i, c) = Get(j, c)
                    /\ KeyFrom(s, i) \notin {None, Some(<<>>)}

VARIABLES
    \* the process
    created,        \* created_topics
    stage,          \* where the call in progress stands
    topic,          \* the topic it sends to
    first, last,    \* the events it was given
    at,             \* the event it is queueing or waiting for
    told,           \* what the callers know of each event
    strategy,       \* the key strategy the callers use
    \* the client and the brokers
    queue,          \* messages accepted and not yet settled
    reported,       \* the delivery report of each event
    existing,       \* the topics there are
    log             \* of each partition: the events ever written to it

call == <<stage, topic, first, last, at, strategy>>
client == <<queue, reported>>
vars == <<created, call, told, client, existing, log>>

Stages == {"idle", "check", "create", "enqueue", "await", "batchEnqueue",
           "batchAwait", "flush"}

Init ==
    /\ created = {}
    /\ stage = "idle"
    /\ topic \in Topics
    /\ first = 0 /\ last = 0 /\ at = 0
    /\ told = [e \in Events |-> "nothing"]
    /\ queue = <<>>
    /\ reported = [e \in Events |-> "nothing"]
    /\ existing \in SUBSET Topics
    /\ strategy \in Strategies
    /\ log = [l \in Lanes |-> <<>>]

Goto(from, to) == stage = from /\ stage' = to

\* The call ends and tells es of an error.
Refuse(es) ==
    /\ stage' = "idle"
    /\ told' = [e \in Events |-> IF e \in es THEN "error" ELSE told[e]]

Confirm(e) == told' = [told EXCEPT ![e] = "delivered"]

-----------------------------------------------------------------------------
(* One event: ensure_topic_exists, then send                               *)

ProcessMessage ==
    /\ Goto("idle", "check")
    /\ last + 1 \in Events
    /\ first' = last + 1 /\ last' = first' /\ at' = first'
    /\ topic' = Given[first'].topic
    /\ UNCHANGED <<created, told, strategy, client, existing, log>>

\* ensure_topic_exists: the topic is remembered, or the brokers are asked.
\* Whether they list a topic that does not exist too, with an error code that
\* nobody looks at, is left open.
TopicExists ==
    /\ stage = "check"
    /\ \/ /\ created' = created \union {topic}
          /\ stage' = "enqueue" /\ UNCHANGED told
       \/ /\ topic \notin created \union existing
          /\ stage' = "create" /\ UNCHANGED <<created, told>>
       \/ /\ topic \notin created
          /\ Refuse({at}) /\ UNCHANGED created
    /\ UNCHANGED <<topic, first, last, at, strategy, client, existing, log>>

\* create_topic is an error when somebody else has created the topic since it
\* was looked for.
CreateTopic ==
    /\ stage = "create"
    /\ \/ /\ topic \notin existing
          /\ existing' = existing \union {topic}
          /\ created' = created \union {topic}
          /\ stage' = "enqueue" /\ UNCHANGED told
       \/ /\ existing' \in {existing, existing \union {topic}}
          /\ Refuse({at}) /\ UNCHANGED created
    /\ UNCHANGED <<topic, first, last, at, strategy, client, log>>

\* The partitions a message with this key may go to.
PartitionsFor(key) == IF key \in {None, Some(<<>>)} THEN 1 .. Partitions
                                                   ELSE {Hash(key[1])}

\* The event is queued for the topic of the call, with its own key.
Push ==
    \E p \in PartitionsFor(ExtractKey(strategy, Given[at])) :
        queue' = Append(queue, [event |-> at, lane |-> <<topic, p>>])

\* Mutant: a full queue is no reason to wait.
EnqueueRegardless ==
    /\ \/ Goto("enqueue", "await") /\ Push /\ UNCHANGED told
       \/ stage = "enqueue" /\ Refuse({at}) /\ UNCHANGED queue
    /\ UNCHANGED <<created, topic, first, last, at, strategy, reported, existing, log>>

\* send_change_event: serialize, then wait for room in the queue.
Enqueue ==
    /\ \/ Goto("enqueue", "await") /\ Len(queue) < Capacity /\ Push /\ UNCHANGED told
       \/ stage = "enqueue" /\ Refuse({at}) /\ UNCHANGED queue
    /\ UNCHANGED <<created, topic, first, last, at, strategy, reported, existing, log>>

\* Mutant: no limit on the wait for the report.
AwaitForever ==
    /\ stage = "await"
    /\ \/ reported[at] = "written" /\ Confirm(at) /\ stage' = "idle"
       \/ reported[at] = "failed" /\ Refuse({at})
    /\ UNCHANGED <<created, topic, first, last, at, strategy, client, existing, log>>

\* The delivery report, or the end of delivery_timeout.
Await ==
    /\ stage = "await"
    /\ \/ reported[at] = "written" /\ Confirm(at) /\ stage' = "idle"
       \/ reported[at] # "written" /\ Refuse({at})
    /\ UNCHANGED <<created, topic, first, last, at, strategy, client, existing, log>>

-----------------------------------------------------------------------------
(* Many events: send_change_events_batch                                   *)

\* The topic is that of the first event, and nobody checks that it exists.
SendBatch ==
    /\ Goto("idle", "batchEnqueue")
    /\ last + 1 \in Events
    /\ first' = last + 1 /\ at' = first'
    /\ last' \in first' .. Len(Given)
    /\ topic' = Given[first'].topic
    /\ UNCHANGED <<created, told, strategy, client, existing, log>>

\* Mutant: the error is told only of the events that are not queued yet.
EnqueueBatchRest ==
    /\ stage = "batchEnqueue"
    /\ \/ /\ at <= last
          /\ Len(queue) < Capacity
          /\ Push
          /\ at' = at + 1
          /\ UNCHANGED <<stage, told>>
       \/ /\ at <= last
          /\ Refuse(at .. last) /\ UNCHANGED <<queue, at>>
       \/ /\ at > last
          /\ stage' = "batchAwait" /\ at' = first /\ UNCHANGED <<queue, told>>
    /\ UNCHANGED <<created, topic, first, last, strategy, reported, existing, log>>

\* Everything is queued before anything is waited for. When an event does not
\* serialize or is not accepted, be it that the queue is full, the whole batch
\* is an error; what is queued stays there.
EnqueueBatch ==
    /\ stage = "batchEnqueue"
    /\ \/ /\ at <= last
          /\ Len(queue) < Capacity
          /\ Push
          /\ at' = at + 1
          /\ UNCHANGED <<stage, told>>
       \/ /\ at <= last
          /\ Refuse(first .. last) /\ UNCHANGED <<queue, at>>
       \/ /\ at > last
          /\ stage' = "batchAwait" /\ at' = first /\ UNCHANGED <<queue, told>>
    /\ UNCHANGED <<created, topic, first, last, strategy, reported, existing, log>>

\* Mutant: the results are taken in the order in which they come.
AwaitBatchAny ==
    /\ stage = "batchAwait"
    /\ \/ /\ \E e \in first .. last : reported[e] = "written"
          /\ Confirm(at)
       \/ told' = [told EXCEPT ![at] = "error"]
    /\ IF at = last THEN stage' = "idle" /\ UNCHANGED at
                    ELSE at' = at + 1 /\ UNCHANGED stage
    /\ UNCHANGED <<created, topic, first, last, strategy, client, existing, log>>

\* The results are waited for one after another, each with its own limit.
AwaitBatch ==
    /\ stage = "batchAwait"
    /\ \/ reported[at] = "written" /\ Confirm(at)
       \/ reported[at] # "written" /\ told' = [told EXCEPT ![at] = "error"]
    /\ IF at = last THEN stage' = "idle" /\ UNCHANGED at
                    ELSE at' = at + 1 /\ UNCHANGED stage
    /\ UNCHANGED <<created, topic, first, last, strategy, client, existing, log>>

-----------------------------------------------------------------------------
(* Flush, and a new session                                                *)

Flush ==
    /\ \/ Goto("idle", "flush")
       \/ Goto("flush", "idle")      \* the queue is empty, or time is up
    /\ UNCHANGED <<created, topic, first, last, at, strategy, told, client, existing, log>>

\* run_with_retry makes a new producer and a new topic manager; what the
\* old producer has not delivered is lost.
NewSession ==
    /\ stage = "idle"
    /\ created' = {}
    /\ queue' = <<>>
    /\ UNCHANGED <<call, told, reported, existing, log>>

-----------------------------------------------------------------------------
(* The client and the brokers                                              *)

Report(e, result) == reported' = [reported EXCEPT ![e] = result]

\* The first message of a partition is written, or any message fails. One that
\* is written may be reported as failed, when the acknowledgement comes too late.
Deliver ==
    /\ \E k \in DOMAIN queue : LET m == queue[k] IN
          /\ queue' = RemoveAt(queue, k)
          /\ \/ /\ m.lane[1] \in existing
                /\ \A i \in 1 .. k - 1 : queue[i].lane # m.lane
                /\ log' = [log EXCEPT ![m.lane] = Append(@, m.event)]
                /\ Report(m.event, "written") \/ Report(m.event, "failed")
             \/ Report(m.event, "failed") /\ UNCHANGED log
    /\ UNCHANGED <<created, call, told, existing>>

\* delete_topic: whether it succeeds or fails, created_topics stays as it is.
DeleteTopic ==
    /\ stage = "idle"
    /\ \E t \in existing : existing' = existing \ {t}
    /\ UNCHANGED <<created, call, told, client, log>>

\* Another client creates a topic, or deletes one.
OtherClient ==
    /\ \E t \in Topics : \/ t \notin existing /\ existing' = existing \union {t}
                         \/ t \in existing /\ existing' = existing \ {t}
    /\ UNCHANGED <<created, call, told, client, log>>

Caller == \/ TopicExists \/ CreateTopic \/ Enqueue \/ Await
          \/ EnqueueBatch \/ AwaitBatch \/ (stage = "flush" /\ Flush)

Next == Caller \/ ProcessMessage \/ SendBatch \/ Flush \/ NewSession
        \/ Deliver \/ DeleteTopic \/ OtherClient

Spec == Init /\ [][Next]_vars

\* The runtime polls the call in progress, and its timers. Nothing is assumed
\* of the brokers.
FairSpec == Spec /\ WF_vars(Caller)

-----------------------------------------------------------------------------
(* Correctness                                                             *)

\* Every variable has its type, and the queue stays within its capacity.
TypeOK ==
    /\ created \subseteq Topics
    /\ stage \in Stages
    /\ topic \in Topics
    /\ {first, last} \subseteq 0 .. Len(Given)
    /\ at \in 0 .. Len(Given) + 1
    /\ told \in [Events -> {"nothing", "delivered", "error"}]
    /\ strategy \in Strategies
    /\ queue \in Seq([event : Events, lane : Lanes]) /\ Len(queue) <= Capacity
    /\ reported \in [Events -> {"nothing", "written", "failed"}]
    /\ existing \subseteq Topics
    /\ log \in [Lanes -> Seq(Events)]

\* Whatever queues, limits, failures and other clients do, callers see an
\* ordered sink: nothing is written twice, later events of a partition stay
\* behind earlier ones even when those timed out, and "delivered" is true.
Sink == INSTANCE OrderedSink

ImplementsSink == Sink!Spec

\* Whatever is still on its way when a call is over was reported as an error:
\* no result is lost halfway through a batch, and the flush at shutdown is for
\* messages the process has given up already.
StragglersWereRefused ==
    stage = "idle" => \A k \in DOMAIN queue : told[queue[k].event] = "error"

\* With a strategy that names the row, all that is written about a row of a topic
\* is in one partition: inserts and updates take the key from the new image and
\* deletes from the old one, whoever queued the event and however often its call
\* failed.
RowsStayTogether ==
    strategy \in RowStrategies =>
        \A l, m \in Lanes : \A j \in DOMAIN log[l], k \in DOMAIN log[m] :
            l[1] = m[1] /\ Given[log[l][j]].row = Given[log[m][k]].row => l = m

\* Every call comes to an end, even if no broker ever answers: the limits on
\* each wait (delivery_timeout, the metadata and admin timeouts) see to it.
CallEnds == []<>(stage = "idle")
=============================================================================
