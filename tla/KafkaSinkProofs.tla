-------------------------- MODULE KafkaSinkProofs --------------------------
(***************************************************************************)
(* Proofs about KafkaSink, whatever the events, the topics, the size of    *)
(* the client's queue and the key strategies: callers see the ordered sink *)
(* OrderedSink, what is still queued when a call is over was reported as   *)
(* an error, and a strategy that names the row keeps its events together.  *)
(***************************************************************************)
EXTENDS KafkaSink, SequenceTheorems, TLAPS

Messages == [event : Events, lane : Lanes]

\* The event that is queued next; none from there on has been touched.
NextEvent ==
    IF stage \in {"check", "create", "enqueue", "batchEnqueue"} THEN at ELSE last + 1

\* The first event whose caller waits for an answer, or has yet to give it.
NextAnswer ==
    CASE stage \in {"idle", "flush"} -> last + 1
      [] stage = "batchEnqueue"      -> first
      [] OTHER                       -> at

\* Where the call in progress stands among its events.
CallUnderWay ==
    /\ stage \in {"check", "create", "enqueue", "await"} =>
          first = at /\ last = at /\ at \in Events
    /\ stage = "batchEnqueue" =>
          /\ first \in Events /\ last \in Events /\ first <= last
          /\ first <= at /\ at <= last + 1
    /\ stage = "batchAwait" =>
          first \in Events /\ last \in Events /\ first <= at /\ at <= last

\* The queue is in the order of the events, and what waits in it has neither
\* been reported nor written; what was written before it in its lane is earlier.
QueueInOrder ==
    /\ \A j, k \in DOMAIN queue : j < k => queue[j].event < queue[k].event
    /\ \A k \in DOMAIN queue :
          /\ queue[k].event < NextEvent
          /\ reported[queue[k].event] = "nothing"
          /\ ~Sink!Written(queue[k].event)
          /\ \A j \in DOMAIN log[queue[k].lane] : log[queue[k].lane][j] < queue[k].event

\* Nothing is written, or reported, before it is queued, and a report of
\* success is true.
ReportsTrue ==
    /\ \A l \in Lanes : \A j \in DOMAIN log[l] : log[l][j] < NextEvent
    /\ \A e \in Events :
          /\ e >= NextEvent => reported[e] = "nothing"
          /\ reported[e] = "written" => Sink!Written(e)

\* The answers are given in the order of the events, success only when it was
\* reported; and what is queued without an answer will have one.
AnswersInTurn ==
    /\ \A e \in Events :
          /\ e >= NextAnswer => told[e] = "nothing"
          /\ told[e] = "delivered" => reported[e] = "written"
    /\ \A k \in DOMAIN queue :
          told[queue[k].event] = "nothing" => queue[k].event >= NextAnswer

\* A message is on its way to a partition, or in one, that its key allows.
Allowed(e, l) == l[2] \in PartitionsFor(ExtractKey(strategy, Given[e]))

KeysRespected ==
    /\ \A k \in DOMAIN queue : Allowed(queue[k].event, queue[k].lane)
    /\ \A l \in Lanes : \A j \in DOMAIN log[l] : Allowed(log[l][j], l)

\* The inductive invariant.
IInv ==
    /\ TypeOK
    /\ CallUnderWay
    /\ QueueInOrder
    /\ ReportsTrue
    /\ AnswersInTurn
    /\ KeysRespected

-----------------------------------------------------------------------------
(* Operators                                                               *)

\* The events are numbered in the order in which they are given.
LEMMA EventsType ==
    /\ Len(Given) \in Nat
    /\ Events = 1 .. Len(Given)
    /\ \A e \in Events : Given[e].topic \in Topics
<1> DEFINE All == [topic : Topics, row : {Given[e].row : e \in Events},
                   table : {Given[e].table : e \in Events},
                   op : {"Insert", "Update", "Delete"},
                   before : {Given[e].before : e \in Events},
                   after : {Given[e].after : e \in Events}]
<1>1. Given \in Seq(All)
  BY SinkAssumption DEF SinkAssumption
<1>2. \A event \in All : event.topic \in Topics
  OBVIOUS
<1> HIDE DEF All
<1>3. Len(Given) \in Nat /\ DOMAIN Given = 1 .. Len(Given) /\ \A e \in DOMAIN Given : Given[e] \in All
  BY <1>1, LenProperties, ElementOfSeq
<1> QED
  BY <1>2, <1>3 DEF Events

\* The client sends a message to a partition of the topic.
LEMMA PartitionsType ==
    ASSUME NEW e \in Events, strategy \in Strategies
    PROVE  PartitionsFor(ExtractKey(strategy, Given[e])) \subseteq 1 .. Partitions
BY SinkAssumption DEF SinkAssumption, PartitionsFor

\* Taking one message out of the queue leaves the others, in their order.
LEMMA RemoveAtProperties ==
    ASSUME NEW S, NEW s \in Seq(S), NEW k \in DOMAIN s
    PROVE  /\ RemoveAt(s, k) \in Seq(S)
           /\ Len(RemoveAt(s, k)) = Len(s) - 1
           /\ \A i \in 1 .. Len(s) - 1 :
                 RemoveAt(s, k)[i] = IF i < k THEN s[i] ELSE s[i + 1]
<1> DEFINE before == SubSeq(s, 1, k - 1)
           after == SubSeq(s, k + 1, Len(s))
<1>1. Len(s) \in Nat /\ DOMAIN s = 1 .. Len(s) /\ \A i \in 1 .. Len(s) : s[i] \in S
  BY LenProperties, ElementOfSeq
<1>2. /\ before \in Seq(S)
      /\ Len(before) = k - 1
      /\ \A i \in 1 .. k - 1 : before[i] = s[i]
  BY <1>1, SubSeqProperties
<1>3. /\ after \in Seq(S)
      /\ Len(after) = Len(s) - k
      /\ \A i \in 1 .. Len(s) - k : after[i] = s[i + k]
  BY <1>1, SubSeqProperties
<1>4. RemoveAt(s, k) = before \o after
  BY DEF RemoveAt
<1> HIDE DEF before, after
<1>5. /\ before \o after \in Seq(S)
      /\ Len(before \o after) = Len(before) + Len(after)
      /\ \A i \in 1 .. Len(before) + Len(after) :
            (before \o after)[i] =
                IF i <= Len(before) THEN before[i] ELSE after[i - Len(before)]
  BY <1>2, <1>3, ConcatProperties
<1>6. Len(before) + Len(after) = Len(s) - 1
  BY <1>1, <1>2, <1>3
<1>7. ASSUME NEW i \in 1 .. Len(s) - 1
      PROVE  (before \o after)[i] = IF i < k THEN s[i] ELSE s[i + 1]
  <2>1. CASE i < k
    BY <2>1, <1>1, <1>2, <1>5, <1>6
  <2>2. CASE ~(i < k)
    <3>1. i - (k - 1) \in 1 .. Len(s) - k /\ i - (k - 1) + k = i + 1
      BY <2>2, <1>1
    <3>2. (before \o after)[i] = after[i - (k - 1)]
      BY <2>2, <1>1, <1>2, <1>5, <1>6
    <3> QED
      BY <2>2, <3>1, <3>2, <1>3
  <2> QED
    BY <2>1, <2>2
<1> QED
  BY <1>4, <1>5, <1>6, <1>7

\* What is in the queue and in the lanes.
LEMMA QueueType ==
    ASSUME TypeOK
    PROVE  /\ Events \subseteq Nat
           /\ queue \in Seq(Messages) /\ Len(queue) \in Nat
           /\ DOMAIN queue = 1 .. Len(queue)
           /\ \A k \in DOMAIN queue :
                 queue[k].event \in Events /\ queue[k].lane \in Lanes
           /\ \A l \in Lanes :
                 /\ log[l] \in Seq(Events) /\ Len(log[l]) \in Nat
                 /\ DOMAIN log[l] = 1 .. Len(log[l])
                 /\ \A j \in DOMAIN log[l] : log[l][j] \in Events
<1>1. queue \in Seq(Messages) /\ \A l \in Lanes : log[l] \in Seq(Events)
  BY DEF TypeOK, Messages
<1>2. /\ Len(queue) \in Nat /\ DOMAIN queue = 1 .. Len(queue)
      /\ \A k \in DOMAIN queue : queue[k] \in Messages
  BY <1>1, LenProperties, ElementOfSeq
<1>3. \A m \in Messages : m.event \in Events /\ m.lane \in Lanes
  BY DEF Messages
<1>4. ASSUME NEW l \in Lanes
      PROVE  /\ Len(log[l]) \in Nat
             /\ DOMAIN log[l] = 1 .. Len(log[l])
             /\ \A j \in DOMAIN log[l] : log[l][j] \in Events
  BY <1>1, LenProperties, ElementOfSeq
<1> QED
  BY <1>1, <1>2, <1>3, <1>4, EventsType

\* The positions of the next event and the next answer are numbers, and what is
\* given from an answer on is among the events.
LEMMA NextType ==
    ASSUME TypeOK, CallUnderWay
    PROVE  NextEvent \in Nat /\ NextAnswer \in Nat
BY EventsType DEF TypeOK, NextEvent, NextAnswer

-----------------------------------------------------------------------------
(* The parts of the invariant under the kinds of steps                     *)

\* A step of the caller alone leaves the order and the truth of the reports.
LEMMA QuietStep ==
    ASSUME TypeOK, QueueInOrder, ReportsTrue, KeysRespected,
           UNCHANGED <<strategy, client, log>>,
           NextEvent \in Nat, NextEvent' \in Nat, NextEvent <= NextEvent'
    PROVE  QueueInOrder' /\ ReportsTrue' /\ KeysRespected'
<1>1. Events \subseteq Nat
  BY EventsType
<1>2. \A k \in DOMAIN queue : queue[k].event \in Nat
  BY <1>1, QueueType
<1>3. \A l \in Lanes : \A j \in DOMAIN log[l] : log[l][j] \in Nat
  BY <1>1, QueueType
<1>4. QueueInOrder'
  BY <1>2 DEF QueueInOrder, Sink!Written, client
<1>5. ReportsTrue'
  <2>1. \A l \in Lanes : \A j \in DOMAIN log[l] : log[l][j] < NextEvent'
    BY <1>3 DEF ReportsTrue
  <2>2. ASSUME NEW e \in Events
        PROVE  /\ e >= NextEvent' => reported[e] = "nothing"
               /\ reported[e] = "written" => Sink!Written(e)
    <3>1. e \in Nat /\ (e >= NextEvent' => e >= NextEvent)
      BY <1>1
    <3> QED
      BY <3>1 DEF ReportsTrue
  <2> QED
    BY <2>1, <2>2 DEF ReportsTrue, Sink!Written, client
<1>6. KeysRespected'
  BY DEF KeysRespected, Allowed, client
<1> QED
  BY <1>4, <1>5, <1>6

\* Answers may be given to the events whose turn it is: an error to any, success
\* to those that were reported as written.
LEMMA AnswersGiven ==
    ASSUME TypeOK, AnswersInTurn, UNCHANGED client,
           NextAnswer \in Nat, NextAnswer' \in Nat, NextAnswer <= NextAnswer',
           \A e \in Events :
              IF NextAnswer <= e /\ e < NextAnswer'
              THEN told'[e] = "error" \/ (told'[e] = "delivered" /\ reported[e] = "written")
              ELSE told'[e] = told[e]
    PROVE  AnswersInTurn'
<1>1. Events \subseteq Nat
  BY EventsType
<1>2. ASSUME NEW e \in Events
      PROVE  /\ e >= NextAnswer' => told'[e] = "nothing"
             /\ told'[e] = "delivered" => reported'[e] = "written"
             /\ told'[e] = "nothing" =>
                   told[e] = "nothing" /\ (e >= NextAnswer => e >= NextAnswer')
  <2>1. e \in Nat /\ reported' = reported
    BY <1>1 DEF client
  <2>2. CASE NextAnswer <= e /\ e < NextAnswer'
    BY <2>1, <2>2
  <2>3. CASE e < NextAnswer \/ NextAnswer' <= e
    <3>1. told'[e] = told[e]
      BY <2>1, <2>3
    <3>2. e >= NextAnswer <=> e >= NextAnswer'
      BY <2>1, <2>3
    <3> QED
      BY <2>1, <3>1, <3>2 DEF AnswersInTurn
  <2> QED
    BY <2>1, <2>2, <2>3
<1>3. \A k \in DOMAIN queue : queue[k].event \in Events
  BY QueueType
<1>4. \A k \in DOMAIN queue :
        told'[queue[k].event] = "nothing" => queue[k].event >= NextAnswer'
  BY <1>2, <1>3 DEF AnswersInTurn
<1> QED
  BY <1>2, <1>4 DEF AnswersInTurn, client

\* The message that is pushed is the latest, and its key allows its lane.
LEMMA PushStep ==
    ASSUME IInv, at \in Events, Len(queue) < Capacity, Push,
           NextEvent = at, NextEvent' = at + 1,
           NextAnswer \in Nat, NextAnswer <= at, NextAnswer' = NextAnswer,
           UNCHANGED <<told, strategy, reported, log>>
    PROVE  /\ queue' \in Seq(Messages) /\ Len(queue') <= Capacity
           /\ QueueInOrder' /\ ReportsTrue' /\ AnswersInTurn' /\ KeysRespected'
<1>1. PICK p \in PartitionsFor(ExtractKey(strategy, Given[at])) :
        queue' = Append(queue, [event |-> at, lane |-> <<topic, p>>])
  BY DEF Push
<1> DEFINE m == [event |-> at, lane |-> <<topic, p>>]
<1>2. m \in Messages /\ m.event = at /\ m.lane = <<topic, p>> /\ m.lane \in Lanes
  BY PartitionsType DEF IInv, TypeOK, Messages, Lanes
<1>3. queue \in Seq(Messages) /\ Len(queue) \in Nat /\ DOMAIN queue = 1 .. Len(queue)
  BY QueueType DEF IInv
<1> HIDE DEF m
<1>4. /\ queue' \in Seq(Messages)
      /\ Len(queue') = Len(queue) + 1
      /\ DOMAIN queue' = 1 .. Len(queue) + 1
      /\ \A k \in 1 .. Len(queue) : queue'[k] = queue[k]
      /\ queue'[Len(queue) + 1] = m
  BY <1>1, <1>2, <1>3, AppendProperties DEF m
<1>5. DOMAIN queue' = DOMAIN queue \union {Len(queue) + 1}
  BY <1>3, <1>4
<1>6. Len(queue') <= Capacity
  BY <1>3, <1>4, SinkAssumption DEF SinkAssumption
<1>7. Events \subseteq Nat /\ \A k \in DOMAIN queue : queue[k].event \in Nat
  BY QueueType DEF IInv
<1>8. \A l \in Lanes : \A j \in DOMAIN log[l] : log[l][j] \in Nat /\ log[l][j] < at
  BY QueueType DEF IInv, ReportsTrue
<1>9. QueueInOrder'
  <2>1. \A k \in DOMAIN queue : queue[k].event < at
    BY DEF IInv, QueueInOrder
  <2>2. \A j, k \in DOMAIN queue' : j < k => queue'[j].event < queue'[k].event
    BY <1>2, <1>3, <1>4, <2>1 DEF IInv, QueueInOrder
  <2>3. ~Sink!Written(at) /\ reported[at] = "nothing"
    <3>1. at \in Nat /\ at >= NextEvent
      BY <1>7
    <3>2. reported[at] = "nothing"
      BY <3>1 DEF IInv, ReportsTrue
    <3>3. ~Sink!Written(at)
      BY <1>8, <3>1 DEF Sink!Written
    <3> QED
      BY <3>2, <3>3
  <2>4. \A k \in DOMAIN queue :
          /\ queue[k].event < at + 1
          /\ reported[queue[k].event] = "nothing"
          /\ ~Sink!Written(queue[k].event)
          /\ \A j \in DOMAIN log[queue[k].lane] : log[queue[k].lane][j] < queue[k].event
    BY <1>7, <2>1 DEF IInv, QueueInOrder
  <2>5. \A k \in DOMAIN queue' :
          /\ queue'[k].event < at + 1
          /\ reported[queue'[k].event] = "nothing"
          /\ ~Sink!Written(queue'[k].event)
          /\ \A j \in DOMAIN log[queue'[k].lane] : log[queue'[k].lane][j] < queue'[k].event
    <3> SUFFICES ASSUME NEW k \in DOMAIN queue'
                 PROVE  /\ queue'[k].event < at + 1
                        /\ reported[queue'[k].event] = "nothing"
                        /\ ~Sink!Written(queue'[k].event)
                        /\ \A j \in DOMAIN log[queue'[k].lane] :
                              log[queue'[k].lane][j] < queue'[k].event
      OBVIOUS
    <3>1. CASE k \in DOMAIN queue
      BY <3>1, <1>3, <1>4, <2>4
    <3>2. CASE k = Len(queue) + 1
      BY <3>2, <1>2, <1>4, <1>7, <1>8, <2>3
    <3> QED
      BY <1>5, <3>1, <3>2
  <2> QED
    BY <2>2, <2>5 DEF QueueInOrder, Sink!Written
<1>10. ReportsTrue'
  <2>1. \A l \in Lanes : \A j \in DOMAIN log[l] : log[l][j] < at + 1
    BY <1>7, <1>8
  <2>2. \A e \in Events : e >= at + 1 => e >= at
    BY <1>7
  <2> QED
    BY <2>1, <2>2 DEF IInv, ReportsTrue, Sink!Written
<1>11. AnswersInTurn'
  <2>1. \A k \in DOMAIN queue' : told[queue'[k].event] = "nothing" => queue'[k].event >= NextAnswer
    BY <1>2, <1>3, <1>4, <1>5 DEF IInv, AnswersInTurn
  <2> QED
    BY <2>1 DEF IInv, AnswersInTurn
<1>12. KeysRespected'
  <2>1. Allowed(m.event, m.lane)
    BY <1>2 DEF Allowed
  <2>2. \A k \in DOMAIN queue' : Allowed(queue'[k].event, queue'[k].lane)
    BY <1>3, <1>4, <1>5, <2>1 DEF IInv, KeysRespected
  <2> QED
    BY <2>2 DEF IInv, KeysRespected, Allowed
<1> QED
  BY <1>4, <1>6, <1>9, <1>10, <1>11, <1>12

-----------------------------------------------------------------------------
(* The inductive invariant, action by action                               *)

\* A step of the caller that queues nothing.
LEMMA CallerStep ==
    ASSUME IInv, TypeOK', CallUnderWay', NextEvent <= NextEvent', NextAnswer <= NextAnswer',
           UNCHANGED <<strategy, client, log>>,
           \A e \in Events :
              IF NextAnswer <= e /\ e < NextAnswer'
              THEN told'[e] = "error" \/ (told'[e] = "delivered" /\ reported[e] = "written")
              ELSE told'[e] = told[e]
    PROVE  IInv'
<1>1. /\ NextEvent \in Nat /\ NextAnswer \in Nat
      /\ NextEvent' \in Nat /\ NextAnswer' \in Nat
  <2>1. NextEvent \in Nat /\ NextAnswer \in Nat
    BY NextType DEF IInv
  <2>2. (NextEvent \in Nat /\ NextAnswer \in Nat)'
    BY EventsType DEF TypeOK, NextEvent, NextAnswer
  <2> QED
    BY <2>1, <2>2
<1>2. QueueInOrder' /\ ReportsTrue' /\ KeysRespected'
  BY <1>1, QuietStep DEF IInv
<1>3. AnswersInTurn'
  BY <1>1, AnswersGiven DEF IInv
<1> QED
  BY <1>2, <1>3 DEF IInv

\* Before the first call nothing has happened.
LEMMA InitInv == Init => IInv
<1> SUFFICES ASSUME Init PROVE IInv
  OBVIOUS
<1>1. TypeOK
  BY SinkAssumption, EventsType DEF SinkAssumption, Init, TypeOK, Stages
<1>2. NextEvent = 1 /\ NextAnswer = 1
  BY DEF Init, NextEvent, NextAnswer
<1>3. CallUnderWay
  BY DEF Init, CallUnderWay
<1>4. QueueInOrder /\ ReportsTrue /\ AnswersInTurn /\ KeysRespected
  BY <1>2 DEF Init, QueueInOrder, ReportsTrue, AnswersInTurn, KeysRespected
<1> QED
  BY <1>1, <1>3, <1>4 DEF IInv

\* A call begins with the event after the last one.
LEMMA ProcessMessageInv == IInv /\ ProcessMessage => IInv'
<1> SUFFICES ASSUME IInv, ProcessMessage PROVE IInv'
  OBVIOUS
<1>1. TypeOK'
  BY EventsType DEF IInv, TypeOK, ProcessMessage, Goto, Stages, client
<1>2. CallUnderWay'
  BY EventsType DEF IInv, TypeOK, CallUnderWay, ProcessMessage, Goto
<1>3. NextEvent' = NextEvent /\ NextAnswer' = NextAnswer /\ NextEvent \in Nat /\ NextAnswer \in Nat
  BY NextType DEF IInv, ProcessMessage, Goto, NextEvent, NextAnswer
<1>4. \A e \in Events : ~(NextAnswer <= e /\ e < NextAnswer')
  BY <1>3, EventsType
<1> QED
  BY <1>1, <1>2, <1>3, <1>4, CallerStep DEF ProcessMessage

LEMMA SendBatchInv == IInv /\ SendBatch => IInv'
<1> SUFFICES ASSUME IInv, SendBatch PROVE IInv'
  OBVIOUS
<1>1. TypeOK'
  BY EventsType DEF IInv, TypeOK, SendBatch, Goto, Stages, client
<1>2. CallUnderWay'
  BY EventsType DEF IInv, TypeOK, CallUnderWay, SendBatch, Goto
<1>3. NextEvent' = NextEvent /\ NextAnswer' = NextAnswer /\ NextEvent \in Nat /\ NextAnswer \in Nat
  BY NextType DEF IInv, SendBatch, Goto, NextEvent, NextAnswer
<1>4. \A e \in Events : ~(NextAnswer <= e /\ e < NextAnswer')
  BY <1>3, EventsType
<1> QED
  BY <1>1, <1>2, <1>3, <1>4, CallerStep DEF SendBatch

\* A single call that fails gives its event an error.
LEMMA RefuseOneInv ==
    ASSUME IInv, stage \in {"check", "create", "enqueue", "await"}, Refuse({at}),
           UNCHANGED <<topic, first, last, at, strategy, client, log>>,
           created' \subseteq Topics, existing' \subseteq Topics
    PROVE  IInv'
<1>1. TypeOK'
  BY DEF IInv, TypeOK, Refuse, Stages, client
<1>2. CallUnderWay'
  BY DEF CallUnderWay, Refuse
<1>3. /\ at \in Events /\ last = at /\ at \in Nat
      /\ NextAnswer = at /\ NextAnswer' = at + 1
      /\ NextEvent \in {at, at + 1} /\ NextEvent' = at + 1
  BY EventsType DEF IInv, CallUnderWay, Refuse, NextEvent, NextAnswer
<1>4. \A e \in Events : IF NextAnswer <= e /\ e < NextAnswer'
                        THEN told'[e] = "error" ELSE told'[e] = told[e]
  BY <1>3 DEF Refuse
<1> QED
  BY <1>1, <1>2, <1>3, <1>4, CallerStep

\* A single call that goes on.
LEMMA GoOnInv ==
    ASSUME IInv, stage \in {"check", "create"}, stage' \in {"create", "enqueue"},
           UNCHANGED <<told, topic, first, last, at, strategy, client, log>>,
           created' \subseteq Topics, existing' \subseteq Topics
    PROVE  IInv'
<1>1. TypeOK'
  BY DEF IInv, TypeOK, Stages, client
<1>2. CallUnderWay'
  BY DEF IInv, CallUnderWay
<1>3. /\ NextAnswer' = NextAnswer /\ NextEvent' = NextEvent
      /\ NextAnswer \in Nat /\ NextEvent \in Nat
  BY NextType DEF IInv, NextEvent, NextAnswer
<1>4. \A e \in Events : ~(NextAnswer <= e /\ e < NextAnswer')
  BY <1>3, EventsType
<1> QED
  BY <1>1, <1>2, <1>3, <1>4, CallerStep

LEMMA TopicExistsInv == IInv /\ TopicExists => IInv'
<1> SUFFICES ASSUME IInv, TopicExists PROVE IInv'
  OBVIOUS
<1>1. created' \subseteq Topics /\ existing' \subseteq Topics
  BY DEF IInv, TypeOK, TopicExists
<1>2. UNCHANGED <<topic, first, last, at, strategy, client, log>> /\ stage = "check"
  BY DEF TopicExists
<1>3. CASE Refuse({at})
  BY <1>1, <1>2, <1>3, RefuseOneInv
<1>4. CASE stage' \in {"create", "enqueue"} /\ UNCHANGED told
  BY <1>1, <1>2, <1>4, GoOnInv
<1> QED
  BY <1>3, <1>4 DEF TopicExists

LEMMA CreateTopicInv == IInv /\ CreateTopic => IInv'
<1> SUFFICES ASSUME IInv, CreateTopic PROVE IInv'
  OBVIOUS
<1>1. created' \subseteq Topics /\ existing' \subseteq Topics
  BY DEF IInv, TypeOK, CreateTopic
<1>2. UNCHANGED <<topic, first, last, at, strategy, client, log>> /\ stage = "create"
  BY DEF CreateTopic
<1>3. CASE Refuse({at})
  BY <1>1, <1>2, <1>3, RefuseOneInv
<1>4. CASE stage' \in {"create", "enqueue"} /\ UNCHANGED told
  BY <1>1, <1>2, <1>4, GoOnInv
<1> QED
  BY <1>3, <1>4 DEF CreateTopic

\* The event of a single call is queued, or refused.
LEMMA EnqueueInv == IInv /\ Enqueue => IInv'
<1> SUFFICES ASSUME IInv, Enqueue PROVE IInv'
  OBVIOUS
<1> USE DEF Goto
<1>1. CASE stage = "enqueue" /\ Refuse({at}) /\ UNCHANGED queue
  <2>1. created' \subseteq Topics /\ existing' \subseteq Topics
    BY DEF IInv, TypeOK, Enqueue
  <2> QED
    BY <1>1, <2>1, RefuseOneInv DEF Enqueue, client
<1>2. CASE /\ stage = "enqueue" /\ stage' = "await"
           /\ Len(queue) < Capacity /\ Push /\ UNCHANGED told
  <2>1. UNCHANGED <<created, topic, first, last, at, strategy, reported, existing, log>>
    BY DEF Enqueue
  <2>2. /\ at \in Events /\ at \in Nat
        /\ NextEvent = at /\ NextEvent' = at + 1
        /\ NextAnswer = at /\ NextAnswer' = NextAnswer
    BY <1>2, <2>1, EventsType DEF IInv, CallUnderWay, NextEvent, NextAnswer
  <2>3. /\ queue' \in Seq(Messages) /\ Len(queue') <= Capacity
        /\ QueueInOrder' /\ ReportsTrue' /\ AnswersInTurn' /\ KeysRespected'
    BY <1>2, <2>1, <2>2, PushStep
  <2>4. TypeOK'
    BY <1>2, <2>1, <2>3 DEF IInv, TypeOK, Stages, Messages
  <2>5. CallUnderWay'
    BY <1>2, <2>1 DEF IInv, CallUnderWay
  <2> QED
    BY <2>3, <2>4, <2>5 DEF IInv
<1> QED
  BY <1>1, <1>2 DEF Enqueue

\* The answer to a single event.
LEMMA AwaitInv == IInv /\ Await => IInv'
<1> SUFFICES ASSUME IInv, Await PROVE IInv'
  OBVIOUS
<1>1. UNCHANGED <<created, topic, first, last, at, strategy, client, existing, log>>
  BY DEF Await
<1>2. CASE Refuse({at})
  BY <1>1, <1>2, RefuseOneInv DEF Await, IInv, TypeOK
<1>3. CASE reported[at] = "written" /\ Confirm(at) /\ stage' = "idle"
  <2>1. TypeOK'
    BY <1>1, <1>3 DEF IInv, TypeOK, Confirm, Stages, client
  <2>2. CallUnderWay'
    BY <1>3 DEF CallUnderWay
  <2>3. /\ at \in Events /\ last = at /\ at \in Nat
        /\ NextAnswer = at /\ NextAnswer' = at + 1
        /\ NextEvent = at + 1 /\ NextEvent' = at + 1
    BY <1>1, <1>3, EventsType DEF IInv, CallUnderWay, Await, NextEvent, NextAnswer
  <2>4. \A e \in Events : IF NextAnswer <= e /\ e < NextAnswer'
                          THEN told'[e] = "delivered" /\ reported[e] = "written"
                          ELSE told'[e] = told[e]
    BY <1>3, <2>3 DEF IInv, TypeOK, Confirm
  <2> QED
    BY <1>1, <2>1, <2>2, <2>3, <2>4, CallerStep
<1> QED
  BY <1>2, <1>3 DEF Await

\* A batch: an event is queued, or all are refused, or the waiting begins.
LEMMA EnqueueBatchInv == IInv /\ EnqueueBatch => IInv'
<1> SUFFICES ASSUME IInv, EnqueueBatch PROVE IInv'
  OBVIOUS
<1>1. /\ stage = "batchEnqueue"
      /\ UNCHANGED <<created, topic, first, last, strategy, reported, existing, log>>
  BY DEF EnqueueBatch
<1>2. /\ first \in Events /\ last \in Events /\ first \in Nat /\ last \in Nat /\ at \in Nat
      /\ first <= last /\ first <= at /\ at <= last + 1
      /\ NextEvent = at /\ NextAnswer = first
  BY <1>1, EventsType DEF IInv, TypeOK, CallUnderWay, NextEvent, NextAnswer
<1>3. CASE /\ at <= last /\ Len(queue) < Capacity /\ Push
           /\ at' = at + 1 /\ UNCHANGED <<stage, told>>
  <2>1. at \in Events /\ NextEvent' = at + 1 /\ NextAnswer' = first
    BY <1>1, <1>2, <1>3, EventsType DEF NextEvent, NextAnswer
  <2>2. /\ queue' \in Seq(Messages) /\ Len(queue') <= Capacity
        /\ QueueInOrder' /\ ReportsTrue' /\ AnswersInTurn' /\ KeysRespected'
    BY <1>1, <1>2, <1>3, <2>1, PushStep
  <2>3. TypeOK'
    BY <1>1, <1>2, <1>3, <2>2, EventsType DEF IInv, TypeOK, Messages
  <2>4. CallUnderWay'
    BY <1>1, <1>2, <1>3 DEF CallUnderWay
  <2> QED
    BY <2>2, <2>3, <2>4 DEF IInv
<1>4. CASE at <= last /\ Refuse(first .. last) /\ UNCHANGED <<queue, at>>
  <2>1. TypeOK'
    BY <1>1, <1>4 DEF IInv, TypeOK, Refuse, Stages
  <2>2. CallUnderWay'
    BY <1>4 DEF CallUnderWay, Refuse
  <2>3. NextAnswer' = last + 1 /\ NextEvent' = last + 1
    BY <1>1, <1>4 DEF Refuse, NextEvent, NextAnswer
  <2>4. \A e \in Events : IF NextAnswer <= e /\ e < NextAnswer'
                          THEN told'[e] = "error" ELSE told'[e] = told[e]
    BY <1>2, <1>4, <2>3 DEF Refuse
  <2> QED
    BY <1>1, <1>2, <1>4, <2>1, <2>2, <2>3, <2>4, CallerStep DEF client
<1>5. CASE /\ at > last /\ stage' = "batchAwait" /\ at' = first
           /\ UNCHANGED <<queue, told>>
  <2>1. TypeOK'
    BY <1>1, <1>2, <1>5, EventsType DEF IInv, TypeOK, Stages
  <2>2. CallUnderWay'
    BY <1>1, <1>2, <1>5 DEF IInv, CallUnderWay
  <2>3. NextAnswer' = first /\ NextEvent' = last + 1
    BY <1>1, <1>5 DEF NextEvent, NextAnswer
  <2> QED
    BY <1>1, <1>2, <1>5, <2>1, <2>2, <2>3, CallerStep DEF client
<1> QED
  BY <1>3, <1>4, <1>5 DEF EnqueueBatch

\* The answers of a batch, one by one.
LEMMA AwaitBatchInv == IInv /\ AwaitBatch => IInv'
<1> SUFFICES ASSUME IInv, AwaitBatch PROVE IInv'
  OBVIOUS
<1>1. /\ stage = "batchAwait"
      /\ UNCHANGED <<created, topic, first, last, strategy, client, existing, log>>
  BY DEF AwaitBatch
<1>2. /\ first \in Nat /\ last \in Events /\ last \in Nat /\ at \in Nat /\ at \in Events
      /\ first <= at /\ at <= last
      /\ NextEvent = last + 1 /\ NextAnswer = at
  BY <1>1, EventsType DEF IInv, TypeOK, CallUnderWay, NextEvent, NextAnswer
<1>3. /\ told' \in [Events -> {"nothing", "delivered", "error"}]
      /\ \A e \in Events \ {at} : told'[e] = told[e]
      /\ told'[at] = "error" \/ (told'[at] = "delivered" /\ reported[at] = "written")
  BY <1>2 DEF AwaitBatch, Confirm, IInv, TypeOK
<1>4. /\ stage' \in {"idle", "batchAwait"}
      /\ at' \in 0 .. Len(Given) + 1
      /\ stage' = "batchAwait" => first <= at' /\ at' <= last
      /\ NextEvent' = last + 1 /\ NextAnswer' = at + 1
  <2>1. CASE at = last
    BY <1>1, <1>2, <2>1, EventsType DEF AwaitBatch, NextEvent, NextAnswer
  <2>2. CASE at # last
    BY <1>1, <1>2, <2>2, EventsType DEF AwaitBatch, NextEvent, NextAnswer
  <2> QED
    BY <2>1, <2>2
<1>5. TypeOK'
  BY <1>1, <1>3, <1>4 DEF IInv, TypeOK, Stages, client
<1>6. CallUnderWay'
  BY <1>1, <1>4 DEF IInv, CallUnderWay
<1>7. \A e \in Events :
        IF NextAnswer <= e /\ e < NextAnswer'
        THEN told'[e] = "error" \/ (told'[e] = "delivered" /\ reported[e] = "written")
        ELSE told'[e] = told[e]
  BY <1>2, <1>3, <1>4
<1> QED
  BY <1>1, <1>2, <1>4, <1>5, <1>6, <1>7, CallerStep

\* What has no say in the events: flush, and topics that come and go.
LEMMA FlushInv == IInv /\ Flush => IInv'
<1> SUFFICES ASSUME IInv, Flush PROVE IInv'
  OBVIOUS
<1>1. /\ stage \in {"idle", "flush"} /\ stage' \in {"idle", "flush"}
      /\ UNCHANGED <<created, topic, first, last, at, strategy, told, client, existing, log>>
  BY DEF Flush, Goto
<1>2. TypeOK' /\ CallUnderWay'
  BY <1>1 DEF IInv, TypeOK, CallUnderWay, Stages, client
<1>3. /\ NextAnswer' = NextAnswer /\ NextEvent' = NextEvent
      /\ NextAnswer \in Nat /\ NextEvent \in Nat
  BY <1>1, NextType DEF IInv, NextEvent, NextAnswer
<1>4. \A e \in Events : ~(NextAnswer <= e /\ e < NextAnswer')
  BY <1>3, EventsType
<1> QED
  BY <1>1, <1>2, <1>3, <1>4, CallerStep

LEMMA TopicsInv == IInv /\ (DeleteTopic \/ OtherClient) => IInv'
<1> SUFFICES ASSUME IInv, DeleteTopic \/ OtherClient PROVE IInv'
  OBVIOUS
<1>1. UNCHANGED <<created, call, told, client, log>>
  BY DEF DeleteTopic, OtherClient
<1>2. existing' \subseteq Topics
  BY DEF IInv, TypeOK, DeleteTopic, OtherClient
<1>3. TypeOK' /\ CallUnderWay'
  BY <1>1, <1>2 DEF IInv, TypeOK, CallUnderWay, call, client
<1>4. /\ NextAnswer' = NextAnswer /\ NextEvent' = NextEvent
      /\ NextAnswer \in Nat /\ NextEvent \in Nat
  BY <1>1, NextType DEF IInv, NextEvent, NextAnswer, call
<1>5. \A e \in Events : ~(NextAnswer <= e /\ e < NextAnswer')
  BY <1>4, EventsType
<1> QED
  BY <1>1, <1>3, <1>4, <1>5, CallerStep DEF call

\* A new session forgets the queue.
LEMMA NewSessionInv == IInv /\ NewSession => IInv'
<1> SUFFICES ASSUME IInv, NewSession PROVE IInv'
  OBVIOUS
<1>1. UNCHANGED <<call, told, reported, existing, log>> /\ created' = {} /\ queue' = <<>>
  BY DEF NewSession
<1>2. TypeOK'
  BY <1>1, SinkAssumption DEF SinkAssumption, IInv, TypeOK, call
<1>3. CallUnderWay' /\ NextEvent' = NextEvent /\ NextAnswer' = NextAnswer
  BY <1>1 DEF IInv, CallUnderWay, NextEvent, NextAnswer, call
<1>4. QueueInOrder'
  BY <1>1 DEF QueueInOrder
<1>5. ReportsTrue' /\ AnswersInTurn'
  BY <1>1, <1>3 DEF IInv, ReportsTrue, AnswersInTurn, Sink!Written
<1>6. KeysRespected'
  BY <1>1 DEF IInv, KeysRespected, Allowed, call
<1> QED
  BY <1>2, <1>3, <1>4, <1>5, <1>6 DEF IInv

\* The client settles message k: it is reported, and written or not.
Settle(k, written, result) ==
    /\ queue' = RemoveAt(queue, k)
    /\ Report(queue[k].event, result)
    /\ log' = IF written
              THEN [log EXCEPT ![queue[k].lane] = Append(@, queue[k].event)]
              ELSE log
    /\ UNCHANGED <<created, call, told, existing>>

LEMMA DeliverSettles ==
    ASSUME Deliver
    PROVE  \E k \in DOMAIN queue, written \in BOOLEAN, result \in {"written", "failed"} :
              /\ Settle(k, written, result)
              /\ written => \A i \in 1 .. k - 1 : queue[i].lane # queue[k].lane
              /\ result = "written" => written
<1>1. PICK k \in DOMAIN queue :
        /\ queue' = RemoveAt(queue, k)
        /\ \/ /\ \A i \in 1 .. k - 1 : queue[i].lane # queue[k].lane
              /\ log' = [log EXCEPT ![queue[k].lane] = Append(@, queue[k].event)]
              /\ Report(queue[k].event, "written") \/ Report(queue[k].event, "failed")
           \/ Report(queue[k].event, "failed") /\ UNCHANGED log
  BY DEF Deliver
<1>2. UNCHANGED <<created, call, told, existing>>
  BY DEF Deliver
<1>3. CASE Report(queue[k].event, "failed") /\ UNCHANGED log
  BY <1>1, <1>2, <1>3 DEF Settle
<1>4. CASE /\ \A i \in 1 .. k - 1 : queue[i].lane # queue[k].lane
           /\ log' = [log EXCEPT ![queue[k].lane] = Append(@, queue[k].event)]
           /\ Report(queue[k].event, "written") \/ Report(queue[k].event, "failed")
  <2>1. CASE Report(queue[k].event, "written")
    BY <1>1, <1>2, <1>4, <2>1 DEF Settle
  <2>2. CASE Report(queue[k].event, "failed")
    BY <1>1, <1>2, <1>4, <2>2 DEF Settle
  <2> QED
    BY <1>4, <2>1, <2>2
<1> QED
  BY <1>1, <1>3, <1>4

\* What is left in the queue was there before, and has kept its order; what came
\* after the message that is gone is still there after those that came before it.
LEMMA Remaining ==
    ASSUME TypeOK, NEW k \in DOMAIN queue, queue' = RemoveAt(queue, k)
    PROVE  /\ queue' \in Seq(Messages)
           /\ Len(queue') < Len(queue)
           /\ \A i \in DOMAIN queue' : \E j \in DOMAIN queue :
                 j # k /\ queue'[i] = queue[j]
           /\ \A h, i \in DOMAIN queue' : h < i =>
                 \E j, l \in DOMAIN queue : j < l /\ queue'[h] = queue[j] /\ queue'[i] = queue[l]
<1>1. queue \in Seq(Messages) /\ Len(queue) \in Nat /\ DOMAIN queue = 1 .. Len(queue)
  BY QueueType
<1>2. /\ queue' \in Seq(Messages)
      /\ Len(queue') = Len(queue) - 1
      /\ \A i \in 1 .. Len(queue) - 1 : queue'[i] = IF i < k THEN queue[i] ELSE queue[i + 1]
  BY <1>1, RemoveAtProperties
<1>3. DOMAIN queue' = 1 .. Len(queue) - 1
  BY <1>2, LenProperties
<1> DEFINE Place(i) == IF i < k THEN i ELSE i + 1
<1>4. ASSUME NEW i \in DOMAIN queue'
      PROVE  Place(i) \in DOMAIN queue /\ Place(i) # k /\ queue'[i] = queue[Place(i)]
  BY <1>1, <1>2, <1>3
<1>5. ASSUME NEW h \in DOMAIN queue', NEW i \in DOMAIN queue', h < i
      PROVE  Place(h) < Place(i)
  BY <1>1, <1>3, <1>5
<1> HIDE DEF Place
<1> QED
  BY <1>1, <1>2, <1>4, <1>5

\* What is settled grows the log by at most the message, in its own lane.
LEMMA LogGrows ==
    ASSUME TypeOK, NEW k \in DOMAIN queue, NEW written \in BOOLEAN, NEW result,
           Settle(k, written, result)
    PROVE  /\ log' \in [Lanes -> Seq(Events)]
           /\ \A l \in Lanes : \A j \in DOMAIN log'[l] :
                 \/ j \in DOMAIN log[l] /\ log'[l][j] = log[l][j]
                 \/ written /\ l = queue[k].lane /\ log'[l][j] = queue[k].event
           /\ \A e \in Events :
                 Sink!Written(e) \/ (written /\ e = queue[k].event) => Sink!Written(e)'
<1> DEFINE e == queue[k].event
           l == queue[k].lane
<1>1. e \in Events /\ l \in Lanes
  BY QueueType
<1>2. log \in [Lanes -> Seq(Events)]
  BY DEF TypeOK
<1>3. \A m \in Lanes : log[m] \in Seq(Events) /\ Len(log[m]) \in Nat /\ DOMAIN log[m] = 1 .. Len(log[m])
  BY QueueType
<1>4. CASE ~written
  BY <1>2, <1>4 DEF Settle, Sink!Written
<1>5. CASE written
  <2>1. /\ log' \in [Lanes -> Seq(Events)]
        /\ \A m \in Lanes : m # l => log'[m] = log[m]
        /\ log'[l] = Append(log[l], e)
    BY <1>1, <1>2, <1>3, <1>5, AppendProperties DEF Settle
  <2> HIDE DEF e, l
  <2>2. /\ DOMAIN log'[l] = DOMAIN log[l] \union {Len(log[l]) + 1}
        /\ \A j \in DOMAIN log[l] : log'[l][j] = log[l][j]
        /\ log'[l][Len(log[l]) + 1] = e
    <3>1. /\ DOMAIN Append(log[l], e) = 1 .. Len(log[l]) + 1
          /\ \A j \in 1 .. Len(log[l]) : Append(log[l], e)[j] = log[l][j]
          /\ Append(log[l], e)[Len(log[l]) + 1] = e
      BY <1>1, <1>3, AppendProperties
    <3> QED
      BY <1>1, <1>3, <2>1, <3>1
  <2>3. \A m \in Lanes : \A j \in DOMAIN log'[m] :
           \/ j \in DOMAIN log[m] /\ log'[m][j] = log[m][j]
           \/ m = l /\ log'[m][j] = e
    BY <2>1, <2>2
  <2>4. \A m \in Lanes : \A j \in DOMAIN log[m] : j \in DOMAIN log'[m] /\ log'[m][j] = log[m][j]
    BY <2>1, <2>2
  <2>5. \A d \in Events : Sink!Written(d) => Sink!Written(d)'
    BY <2>4 DEF Sink!Written
  <2>6. \A d \in Events : d = e => Sink!Written(d)'
    BY <1>1, <2>2 DEF Sink!Written
  <2> QED
    BY <1>5, <2>1, <2>3, <2>5, <2>6 DEF e, l
<1> QED
  BY <1>4, <1>5

\* A message is settled: it is gone from the queue, and if it is written nothing
\* later is in its lane, for it was the first of its lane.
LEMMA DeliverInv == IInv /\ Deliver => IInv'
<1> SUFFICES ASSUME IInv, Deliver PROVE IInv'
  OBVIOUS
<1>1. PICK k \in DOMAIN queue, written \in BOOLEAN, result \in {"written", "failed"} :
        /\ Settle(k, written, result)
        /\ written => \A i \in 1 .. k - 1 : queue[i].lane # queue[k].lane
        /\ result = "written" => written
  BY DeliverSettles
<1>2. PICK e \in Events, l \in Lanes : e = queue[k].event /\ l = queue[k].lane
  BY QueueType DEF IInv
<1>3. /\ queue' = RemoveAt(queue, k)
      /\ reported' = [reported EXCEPT ![e] = result]
      /\ UNCHANGED <<created, call, told, existing>>
  BY <1>1, <1>2 DEF Settle, Report
<1>4. /\ queue' \in Seq(Messages)
      /\ Len(queue') < Len(queue)
      /\ \A i \in DOMAIN queue' : \E j \in DOMAIN queue : j # k /\ queue'[i] = queue[j]
      /\ \A h, i \in DOMAIN queue' : h < i =>
            \E j, m \in DOMAIN queue : j < m /\ queue'[h] = queue[j] /\ queue'[i] = queue[m]
  BY <1>3, Remaining DEF IInv
<1>5. /\ log' \in [Lanes -> Seq(Events)]
      /\ \A m \in Lanes : \A j \in DOMAIN log'[m] :
            \/ j \in DOMAIN log[m] /\ log'[m][j] = log[m][j]
            \/ written /\ m = l /\ log'[m][j] = e
      /\ \A d \in Events : Sink!Written(d) \/ (written /\ d = e) => Sink!Written(d)'
  BY <1>1, <1>2, LogGrows DEF IInv
<1>6. /\ Events \subseteq Nat
      /\ Len(queue) \in Nat /\ DOMAIN queue = 1 .. Len(queue)
      /\ \A j \in DOMAIN queue : queue[j].event \in Events /\ queue[j].lane \in Lanes
      /\ \A m \in Lanes : \A j \in DOMAIN log[m] : log[m][j] \in Events
  BY QueueType DEF IInv
<1>7. NextEvent' = NextEvent /\ NextAnswer' = NextAnswer /\ NextEvent \in Nat /\ NextAnswer \in Nat
  BY <1>3, NextType DEF IInv, NextEvent, NextAnswer, call
<1>8. TypeOK'
  <2>1. Len(queue') <= Capacity
    <3>1. Len(queue') \in Nat
      BY <1>4, LenProperties
    <3> QED
      BY <1>4, <1>6, <3>1, SinkAssumption DEF SinkAssumption, IInv, TypeOK
  <2>2. reported' \in [Events -> {"nothing", "written", "failed"}]
    BY <1>2, <1>3 DEF IInv, TypeOK
  <2> QED
    BY <1>3, <1>4, <1>5, <2>1, <2>2 DEF IInv, TypeOK, Messages, call
<1>9. CallUnderWay'
  BY <1>3 DEF IInv, CallUnderWay, call
<1>10. ASSUME NEW j \in DOMAIN queue, j # k
       PROVE  /\ queue[j].event # e
              /\ queue[j].event < NextEvent
              /\ reported'[queue[j].event] = "nothing"
              /\ \A m \in Lanes : \A i \in DOMAIN log'[m] : log'[m][i] # queue[j].event
              /\ \A i \in DOMAIN log'[queue[j].lane] :
                    log'[queue[j].lane][i] < queue[j].event
  <2>1. queue[j].event # e
    <3>1. j < k \/ k < j
      BY <1>6, <1>10
    <3> QED
      BY <1>2, <1>6, <3>1 DEF IInv, QueueInOrder
  <2>2. reported'[queue[j].event] = "nothing"
    BY <1>3, <1>6, <2>1 DEF IInv, TypeOK, QueueInOrder
  <2>3. \A m \in Lanes : \A i \in DOMAIN log'[m] : log'[m][i] # queue[j].event
    BY <1>5, <2>1 DEF IInv, QueueInOrder, Sink!Written
  <2>4. ASSUME NEW i \in DOMAIN log'[queue[j].lane]
        PROVE  log'[queue[j].lane][i] < queue[j].event
    <3>1. CASE i \in DOMAIN log[queue[j].lane] /\ log'[queue[j].lane][i] = log[queue[j].lane][i]
      BY <3>1 DEF IInv, QueueInOrder
    <3>2. CASE written /\ queue[j].lane = l /\ log'[queue[j].lane][i] = e
      <4>1. k < j
        BY <1>1, <1>2, <1>6, <1>10, <3>2
      <4>2. e < queue[j].event
        BY <1>2, <4>1 DEF IInv, QueueInOrder
      <4> QED
        BY <3>2, <4>2
    <3> QED
      BY <1>5, <1>6, <3>1, <3>2
  <2>5. queue[j].event < NextEvent
    BY DEF IInv, QueueInOrder
  <2> QED
    BY <2>1, <2>2, <2>3, <2>4, <2>5
<1>11. QueueInOrder'
  <2>1. ASSUME NEW h \in DOMAIN queue', NEW i \in DOMAIN queue', h < i
        PROVE  queue'[h].event < queue'[i].event
    <3>1. PICK j \in DOMAIN queue, m \in DOMAIN queue :
            j < m /\ queue'[h] = queue[j] /\ queue'[i] = queue[m]
      BY <1>4, <2>1
    <3> QED
      BY <3>1 DEF IInv, QueueInOrder
  <2>2. ASSUME NEW i \in DOMAIN queue'
        PROVE  /\ queue'[i].event < NextEvent'
               /\ reported'[queue'[i].event] = "nothing"
               /\ \A m \in Lanes : \A j \in DOMAIN log'[m] : log'[m][j] # queue'[i].event
               /\ \A j \in DOMAIN log'[queue'[i].lane] :
                     log'[queue'[i].lane][j] < queue'[i].event
    <3>1. PICK j \in DOMAIN queue : j # k /\ queue'[i] = queue[j]
      BY <1>4
    <3> QED
      BY <3>1, <1>7, <1>10
  <2> QED
    BY <2>1, <2>2 DEF QueueInOrder, Sink!Written
<1>12. e < NextEvent /\ reported[e] = "nothing"
  BY <1>2 DEF IInv, QueueInOrder
<1>13. ReportsTrue'
  <2>1. \A m \in Lanes : \A j \in DOMAIN log'[m] : log'[m][j] < NextEvent'
    BY <1>5, <1>7, <1>12 DEF IInv, ReportsTrue
  <2>2. ASSUME NEW d \in Events
        PROVE  /\ d >= NextEvent' => reported'[d] = "nothing"
               /\ reported'[d] = "written" => Sink!Written(d)'
    <3>1. CASE d = e
      BY <1>1, <1>2, <1>3, <1>5, <1>6, <1>7, <1>12, <3>1 DEF IInv, TypeOK
    <3>2. CASE d # e
      BY <1>3, <1>5, <1>7, <3>2 DEF IInv, TypeOK, ReportsTrue
    <3> QED
      BY <3>1, <3>2
  <2> QED
    BY <2>1, <2>2 DEF ReportsTrue
<1>14. AnswersInTurn'
  <2>1. ASSUME NEW d \in Events
        PROVE  /\ d >= NextAnswer' => told'[d] = "nothing"
               /\ told'[d] = "delivered" => reported'[d] = "written"
    BY <1>3, <1>7, <1>12 DEF IInv, TypeOK, AnswersInTurn
  <2>2. ASSUME NEW i \in DOMAIN queue', told'[queue'[i].event] = "nothing"
        PROVE  queue'[i].event >= NextAnswer'
    BY <1>3, <1>4, <1>7, <2>2 DEF IInv, AnswersInTurn
  <2> QED
    BY <2>1, <2>2 DEF AnswersInTurn
<1>15. KeysRespected'
  <2>1. \A d, m : Allowed(d, m)' <=> Allowed(d, m)
    BY <1>3 DEF Allowed, call
  <2>2. \A j \in DOMAIN queue : Allowed(queue[j].event, queue[j].lane)
    BY DEF IInv, KeysRespected
  <2>3. ASSUME NEW i \in DOMAIN queue'
        PROVE  Allowed(queue'[i].event, queue'[i].lane)
    BY <1>4, <2>2
  <2>4. ASSUME NEW m \in Lanes, NEW j \in DOMAIN log'[m]
        PROVE  Allowed(log'[m][j], m)
    BY <1>2, <1>5, <2>2 DEF IInv, KeysRespected
  <2> QED
    BY <1>3, <2>3, <2>4 DEF KeysRespected, Allowed, call
<1> QED
  BY <1>8, <1>9, <1>11, <1>13, <1>14, <1>15 DEF IInv

\* Every step preserves the inductive invariant.
LEMMA NextInv == IInv /\ [Next]_vars => IInv'
<1> SUFFICES ASSUME IInv, [Next]_vars PROVE IInv'
  OBVIOUS
<1>1. CASE UNCHANGED vars
  <2>1. UNCHANGED <<created, stage, topic, first, last, at, told, strategy, queue,
                    reported, existing, log>>
    BY <1>1 DEF vars, call, client
  <2>2. TypeOK' /\ CallUnderWay'
    BY <2>1 DEF IInv, TypeOK, CallUnderWay
  <2>3. /\ NextAnswer' = NextAnswer /\ NextEvent' = NextEvent
        /\ NextAnswer \in Nat /\ NextEvent \in Nat
    BY <2>1, NextType DEF IInv, NextEvent, NextAnswer
  <2>4. \A e \in Events : ~(NextAnswer <= e /\ e < NextAnswer')
    BY <2>3, EventsType
  <2> QED
    BY <2>1, <2>2, <2>3, <2>4, CallerStep DEF client
<1> QED
  BY <1>1, ProcessMessageInv, TopicExistsInv, CreateTopicInv, EnqueueInv, AwaitInv,
     SendBatchInv, EnqueueBatchInv, AwaitBatchInv, FlushInv, NewSessionInv, DeliverInv,
     TopicsInv DEF Next, Caller

LEMMA Invariance == Spec => []IInv
BY InitInv, NextInv, PTL DEF Spec

-----------------------------------------------------------------------------
(* The ordered sink                                                        *)

\* An error is told to events that have no answer yet.
LEMMA RefuseImplements ==
    ASSUME NEW es \in SUBSET Events, \A e \in es : told[e] = "nothing",
           Refuse(es), UNCHANGED log
    PROVE  Sink!Next
<1>1. Sink!Refuse(es)
  BY DEF Refuse, Sink!Refuse
<1> QED
  BY <1>1 DEF Sink!Next

\* Success is told to an event that is written.
LEMMA ConfirmImplements ==
    ASSUME NEW e \in Events, told[e] = "nothing", Sink!Written(e),
           Confirm(e), UNCHANGED log
    PROVE  Sink!Next
<1>1. Sink!Confirm(e)
  BY DEF Confirm, Sink!Confirm
<1> QED
  BY <1>1 DEF Sink!Next

\* No event that is to be answered has an answer.
LEMMA Unanswered ==
    ASSUME IInv, NEW e \in Events, NextAnswer <= e
    PROVE  told[e] = "nothing" /\ (reported[e] = "written" => Sink!Written(e))
<1>1. NextAnswer \in Nat /\ e \in Nat
  BY NextType, EventsType DEF IInv
<1> QED
  BY <1>1 DEF IInv, AnswersInTurn, ReportsTrue

\* Writing a message is writing its event behind the earlier ones of its lane.
LEMMA DeliverImplements ==
    ASSUME IInv, Deliver
    PROVE  Sink!Next \/ UNCHANGED <<log, told>>
<1>1. PICK k \in DOMAIN queue, written \in BOOLEAN, result \in {"written", "failed"} :
        Settle(k, written, result)
  BY DeliverSettles
<1>2. PICK e \in Events, l \in Lanes : e = queue[k].event /\ l = queue[k].lane
  BY QueueType DEF IInv
<1>3. UNCHANGED told
  BY <1>1 DEF Settle
<1>4. CASE ~written
  BY <1>1, <1>3, <1>4 DEF Settle
<1>5. CASE written
  <2>1. reported[e] = "nothing" /\ ~Sink!Written(e) /\ \A j \in DOMAIN log[l] : log[l][j] < e
    BY <1>2 DEF IInv, QueueInOrder
  <2>2. told[e] # "delivered"
    BY <2>1 DEF IInv, AnswersInTurn
  <2>3. log' = [log EXCEPT ![l] = Append(@, e)]
    BY <1>1, <1>2, <1>5 DEF Settle
  <2>4. Sink!Write(e, l)
    BY <1>3, <2>1, <2>2, <2>3 DEF Sink!Write
  <2> QED
    BY <2>4 DEF Sink!Next
<1> QED
  BY <1>4, <1>5

\* Every step is a step of the ordered sink, or none.
LEMMA NextImplements == IInv /\ [Next]_vars => [Sink!Next]_<<log, told>>
<1> SUFFICES ASSUME IInv, [Next]_vars PROVE Sink!Next \/ UNCHANGED <<log, told>>
  OBVIOUS
<1>1. CASE Deliver
  BY <1>1, DeliverImplements
<1>2. CASE /\ stage \in {"check", "create", "enqueue", "await"}
           /\ Refuse({at}) /\ UNCHANGED log
  <2>1. at \in Events /\ NextAnswer = at /\ at <= at
    BY <1>2, EventsType DEF IInv, CallUnderWay, NextAnswer
  <2>2. \A e \in {at} : told[e] = "nothing"
    BY <2>1, Unanswered
  <2> QED
    BY <1>2, <2>1, <2>2, RefuseImplements
<1>3. CASE stage = "batchEnqueue" /\ Refuse(first .. last) /\ UNCHANGED log
  <2>1. first .. last \in SUBSET Events /\ NextAnswer = first
    BY <1>3, EventsType DEF IInv, CallUnderWay, NextAnswer
  <2>2. \A e \in first .. last : told[e] = "nothing"
    BY <2>1, Unanswered
  <2> QED
    BY <1>3, <2>1, <2>2, RefuseImplements
<1>4. CASE /\ stage \in {"await", "batchAwait"} /\ UNCHANGED log
           /\ \/ reported[at] = "written" /\ Confirm(at)
              \/ told' = [told EXCEPT ![at] = "error"]
  <2>1. at \in Events /\ NextAnswer = at /\ at <= at
    BY <1>4, EventsType DEF IInv, TypeOK, CallUnderWay, NextAnswer
  <2>2. told[at] = "nothing" /\ (reported[at] = "written" => Sink!Written(at))
    BY <2>1, Unanswered
  <2>3. CASE reported[at] = "written" /\ Confirm(at)
    BY <1>4, <2>1, <2>2, <2>3, ConfirmImplements
  <2>4. CASE told' = [told EXCEPT ![at] = "error"]
    <3>1. told' = [e \in Events |-> IF e \in {at} THEN "error" ELSE told[e]]
      BY <2>4 DEF IInv, TypeOK
    <3>2. Sink!Refuse({at})
      BY <1>4, <2>2, <3>1 DEF Sink!Refuse
    <3> QED
      BY <2>1, <3>2 DEF Sink!Next
  <2> QED
    BY <1>4, <2>3, <2>4
<1>5. CASE ProcessMessage \/ SendBatch \/ Flush \/ NewSession \/ DeleteTopic
           \/ OtherClient \/ UNCHANGED vars
  BY <1>5 DEF ProcessMessage, SendBatch, Flush, NewSession, DeleteTopic, OtherClient, vars
<1>6. CASE TopicExists \/ CreateTopic
  BY <1>2, <1>6 DEF TopicExists, CreateTopic
<1>7. CASE Enqueue
  BY <1>2, <1>7 DEF Enqueue
<1>8. CASE EnqueueBatch
  BY <1>3, <1>8 DEF EnqueueBatch
<1>9. CASE Await \/ AwaitBatch
  BY <1>2, <1>4, <1>9 DEF Await, AwaitBatch
<1> QED
  BY <1>1, <1>5, <1>6, <1>7, <1>8, <1>9 DEF Next, Caller

-----------------------------------------------------------------------------
(* The properties                                                          *)

\* Every variable has its type, and the client's queue stays within its
\* capacity, whoever queues.
THEOREM SinkTypes == Spec => []TypeOK
<1>1. IInv => TypeOK
  BY DEF IInv
<1> QED
  BY <1>1, Invariance, PTL

\* Whatever is still on its way when a call is over was reported as an error.
THEOREM StragglersRefused == Spec => []StragglersWereRefused
<1>1. ASSUME IInv PROVE StragglersWereRefused
  <2> SUFFICES ASSUME stage = "idle", NEW k \in DOMAIN queue
               PROVE  told[queue[k].event] = "error"
    BY DEF StragglersWereRefused
  <2>1. queue[k].event \in Events /\ queue[k].event \in Nat
    BY <1>1, QueueType DEF IInv
  <2>2. NextAnswer = last + 1 /\ NextEvent = last + 1 /\ last \in Nat
    BY <1>1, NextType, EventsType DEF IInv, TypeOK, NextEvent, NextAnswer
  <2>3. queue[k].event < NextEvent /\ reported[queue[k].event] = "nothing"
    BY <1>1 DEF IInv, QueueInOrder
  <2>4. told[queue[k].event] # "nothing"
    BY <1>1, <2>1, <2>2, <2>3 DEF IInv, AnswersInTurn
  <2>5. told[queue[k].event] # "delivered"
    BY <1>1, <2>1, <2>3 DEF IInv, AnswersInTurn
  <2> QED
    BY <1>1, <2>1, <2>4, <2>5 DEF IInv, TypeOK
<1> QED
  BY <1>1, Invariance, PTL

\* Whatever queues, limits, failures and other clients do, callers see an
\* ordered sink: nothing is written twice or out of order in its lane, and
\* "delivered" is true.
THEOREM SinkIsOrdered == Spec => ImplementsSink
<1>1. Init => Sink!Init
  BY DEF Init, Sink!Init
<1> QED
  BY <1>1, NextImplements, Invariance, PTL DEF Spec, ImplementsSink, Sink!Spec

\* The key depends on nothing of an image but the columns its strategy reads.
LEMMA SameColumnsSameKey ==
    ASSUME NEW s, s.kind \in {"PrimaryKey", "FieldPath", "Composite"}, NEW i, NEW j,
           \A c \in Columns(s) : Get(i, c) = Get(j, c)
    PROVE  KeyFrom(s, i) = KeyFrom(s, j)
<1>1. CASE s.kind = "FieldPath"
  <2>1. Get(i, Head(s.path)) = Get(j, Head(s.path))
    BY <1>1 DEF Columns
  <2>2. FieldValue(i, s.path) = FieldValue(j, s.path)
    BY <2>1 DEF FieldValue
  <2> QED
    BY <1>1, <2>2 DEF KeyFrom
<1>2. CASE s.kind \in {"PrimaryKey", "Composite"}
  <2>1. ASSUME NEW k \in DOMAIN s.fields
        PROVE  FieldValue(i, s.fields[k]) = FieldValue(j, s.fields[k])
    <3>1. Get(i, Head(s.fields[k])) = Get(j, Head(s.fields[k]))
      BY <1>2 DEF Columns
    <3> QED
      BY <3>1 DEF FieldValue
  <2>2. [k \in DOMAIN s.fields |-> FieldValue(i, s.fields[k])]
          = [k \in DOMAIN s.fields |-> FieldValue(j, s.fields[k])]
    BY <2>1
  <2>3. CompositeKey(i, s.fields) = CompositeKey(j, s.fields)
    BY <2>2 DEF CompositeKey
  <2> QED
    BY <1>2, <2>3 DEF KeyFrom
<1> QED
  BY <1>1, <1>2

\* extract_key takes the old image of a delete and the new one of the others,
\* which these have.
LEMMA ImageIsThere ==
    ASSUME NEW e \in Events
    PROVE  Image(Given[e]) \in Images(Given[e])
BY RowAssumption DEF RowAssumption, Image, Images

\* The events about a row have the same key under a strategy that names rows.
LEMMA RowsHaveOneKey ==
    ASSUME NEW s \in RowStrategies \intersect Strategies, NEW d \in Events, NEW e \in Events,
           Given[d].row = Given[e].row
    PROVE  /\ ExtractKey(s, Given[d]) = ExtractKey(s, Given[e])
           /\ ExtractKey(s, Given[d]) \notin {None, Some(<<>>)}
<1>1. CASE s = TableName
  <2>1. /\ ExtractKey(s, Given[d]) = Some(<<Given[d].table>>)
        /\ ExtractKey(s, Given[e]) = Some(<<Given[e].table>>)
    BY <1>1 DEF ExtractKey, TableName, NoStrategy
  <2>2. Given[d].table = Given[e].table
    BY RowAssumption DEF RowAssumption
  <2> QED
    BY <2>1, <2>2 DEF Some, None
<1>2. CASE s # TableName
  <2> DEFINE i == Image(Given[d])
             j == Image(Given[e])
  <2>1. i \in Images(Given[d]) /\ j \in Images(Given[e])
    BY ImageIsThere
  <2>2. i # None /\ j # None
    BY <2>1 DEF Images
  <2>3. s \notin {NoStrategy, TableName} /\ s.kind \in {"PrimaryKey", "FieldPath", "Composite"}
    BY <1>2, RowAssumption DEF RowAssumption, NoStrategy
  <2>4. ExtractKey(s, Given[d]) = KeyFrom(s, i) /\ ExtractKey(s, Given[e]) = KeyFrom(s, j)
    BY <2>2, <2>3 DEF ExtractKey
  <2>5. /\ \A c \in Columns(s) : Get(i, c) = Get(j, c)
        /\ KeyFrom(s, i) \notin {None, Some(<<>>)}
    BY <1>2, <2>1, RowAssumption DEF RowAssumption
  <2> QED
    BY <2>3, <2>4, <2>5, SameColumnsSameKey
<1> QED
  BY <1>1, <1>2

\* With strategies that name the row its events stay in one partition of a topic:
\* the operation chooses the image, the image and the strategy the key, and the
\* key the partition.
THEOREM RowsKeptTogether == Spec => []RowsStayTogether
<1>1. ASSUME IInv PROVE RowsStayTogether
  <2> SUFFICES ASSUME strategy \in RowStrategies, NEW l \in Lanes, NEW m \in Lanes,
                      NEW j \in DOMAIN log[l], NEW k \in DOMAIN log[m],
                      l[1] = m[1], Given[log[l][j]].row = Given[log[m][k]].row
               PROVE  l = m
    BY DEF RowsStayTogether
  <2>1. /\ log[l][j] \in Events /\ log[m][k] \in Events
        /\ strategy \in RowStrategies \intersect Strategies
    BY <1>1, QueueType DEF IInv, TypeOK
  <2> DEFINE key == ExtractKey(strategy, Given[log[l][j]])
  <2>2. ExtractKey(strategy, Given[log[m][k]]) = key /\ key \notin {None, Some(<<>>)}
    BY <2>1, RowsHaveOneKey
  <2>3. l[2] \in PartitionsFor(key) /\ m[2] \in PartitionsFor(key)
    BY <1>1, <2>2 DEF IInv, KeysRespected, Allowed
  <2> HIDE DEF key
  <2>4. l[2] = m[2]
    BY <2>2, <2>3 DEF PartitionsFor
  <2> QED
    BY <2>4 DEF Lanes
<1> QED
  BY <1>1, Invariance, PTL
=============================================================================
