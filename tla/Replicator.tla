----------------------------- MODULE Replicator -----------------------------
(***************************************************************************)
(* The replication pipeline of pg-capture: one `Replicator` process        *)
(* (src/src/replicator.rs) reads the logical decoding stream of one        *)
(* PostgreSQL replication slot, publishes every row change to Kafka,       *)
(* reports its position to the slot and saves checkpoints.  The process    *)
(* may lose its connection, meet a failing broker or disk, be asked to     *)
(* stop, crash at any await point and be started again.                    *)
(*                                                                         *)
(* The slot and the WAL are external: a slot streams whole transactions in *)
(* commit order, and START_REPLICATION at L streams the transactions whose *)
(* commit lies beyond both L and the slot's confirmed position.            *)
(***************************************************************************)
EXTENDS Integers, Sequences, FiniteSets, Lsn

CONSTANTS
    Wal,            \* what the slot has to stream, in streaming order
    PayloadTagged,  \* do the bytes given to the decoder begin with 'w'?
    MaxRetries,     \* max_retries, 5 in the code
    MaxFaults,      \* bound: faults of the environment in a behaviour
    MaxStops,       \* bound: Ctrl-C requests in a behaviour
    MaxStatuses     \* bound: status updates the socket holds unread

(***************************************************************************)
(* A record of the stream carries the LSN that XLogData reports for it,    *)
(* which the server may leave 0 in a relation message, and the end LSN of  *)
(* its transaction's commit.  A "malformed" record is a row change that    *)
(* the decoder rejects: one with an unchanged TOAST column, or of a        *)
(* relation it does not know (Decoder tells which).                        *)
(***************************************************************************)
Kinds == {"begin", "relation", "change", "malformed", "commit"}
Records == 1 .. Len(Wal)
Changes == {i \in Records : Wal[i].kind \in {"change", "malformed"}}

\* Transactions are streamed whole, in commit order; the commit is the last
\* record of its transaction and the only one that reaches its commit LSN.
ASSUME WalAssumption ==
    /\ Wal \in Seq([kind : Kinds, lsn : Nat, commit : Nat \ {0}])
    /\ \A i \in Records : /\ Wal[i].lsn = 0 => Wal[i].kind = "relation"
                          /\ Wal[i].lsn <= Wal[i].commit
                          /\ Wal[i].lsn = Wal[i].commit <=> Wal[i].kind = "commit"
    /\ \A i, j \in Records : i < j =>
          /\ Wal[i].commit <= Wal[j].commit
          /\ Wal[i].kind = "commit" => Wal[i].commit < Wal[j].commit

ASSUME ParameterAssumption ==
    /\ PayloadTagged \in BOOLEAN
    /\ MaxRetries \in Nat
    /\ MaxFaults \in Nat
    /\ MaxStops \in Nat
    /\ MaxStatuses \in Nat \ {0}

VARIABLES
    \* the process
    pc,             \* the await point it has reached
    retryCount,     \* retry_count of run
    receiver,       \* shutdown_receiver, and the loop's shutdown_rx
    currentLsn,     \* current_lsn
    record,         \* the record in hand, 0 for none
    stopRequested,  \* a Ctrl-C is waiting in the shutdown channel
    \* what survives it
    checkpoint,     \* the LSN printed in the checkpoint file, 0/0 without one
    damaged,        \* the file cannot be parsed, whatever it should say
    topic,          \* the Kafka topic: the records published, in order
    \* the slot
    confirmed,      \* confirmed_flush_lsn
    cursor,         \* the next record of the stream the process will read
    statuses,       \* status updates written and not yet handled
    \* history and bounds
    dropped,        \* records given up after an error was logged
    skipped,        \* row changes of which the decoder made nothing
    sessions,       \* streaming sessions so far
    streamed,       \* those of the present process
    faults, stops

process == <<pc, retryCount, receiver, currentLsn, record, stopRequested>>
file == <<checkpoint, damaged>>
slot == <<confirmed, cursor, statuses>>
history == <<sessions, streamed>>
bounds == <<faults, stops>>
vars == <<process, file, topic, slot, dropped, skipped, history, bounds>>

PcValues == {"initialize", "load", "start", "takeReceiver", "select", "status",
             "decode", "process", "periodic", "finalCheckpoint", "backoff",
             "stopped"}
Positions == {0} \union {Wal[i].lsn : i \in Records}
                 \union {Wal[i].commit : i \in Records}

\* current_lsn before the first record.
None == -1

Larger(a, b) == IF a >= b THEN a ELSE b

-----------------------------------------------------------------------------
(* Start, failure and retry                                                *)

\* Replicator::new and the head of run.
Init ==
    /\ pc = "initialize"
    /\ retryCount = 0
    /\ receiver = "present"
    /\ currentLsn = None
    /\ record = 0
    /\ stopRequested = FALSE
    /\ checkpoint = FormatLsn(0)
    /\ damaged = FALSE
    /\ topic = <<>>
    /\ confirmed = 0
    /\ cursor = 1
    /\ statuses = <<>>
    /\ dropped = {}
    /\ skipped = {}
    /\ sessions = 0
    /\ streamed = 0
    /\ faults = 0
    /\ stops = 0

\* Mutant: the limit is tested before the count goes up.
FailRunLate ==
    /\ retryCount' = retryCount + 1
    /\ pc' = IF retryCount > MaxRetries THEN "stopped" ELSE "backoff"
    /\ record' = 0

\* run_with_retry returned an error other than Shutdown: back off, or give up.
FailRun ==
    /\ retryCount' = retryCount + 1
    /\ pc' = IF retryCount + 1 > MaxRetries THEN "stopped" ELSE "backoff"
    /\ record' = 0

\* The environment misbehaves once more.
Fault == faults < MaxFaults /\ faults' = faults + 1 /\ UNCHANGED stops

Goto(from, to) == pc = from /\ pc' = to

\* The sleep of the backoff ends: connections and decoder are dropped and made
\* anew. shutdown_receiver, current_lsn and retry_count are left as they are.
Backoff ==
    /\ Goto("backoff", "initialize")
    /\ UNCHANGED <<retryCount, receiver, currentLsn, record, stopRequested,
                   file, topic, slot, dropped, skipped, history, bounds>>

\* Connect, IDENTIFY_SYSTEM, create the slot unless it exists, make the Kafka
\* clients and the decoder; any of them may fail.
InitializeConnections ==
    /\ pc = "initialize"
    /\ \/ pc' = "load" /\ UNCHANGED <<retryCount, record, bounds>>
       \/ Fault /\ FailRun
    /\ UNCHANGED <<receiver, currentLsn, stopRequested, file, topic, slot,
                   dropped, skipped, history>>

\* CheckpointManager::load. Reading the file may fail, and a damaged one fails
\* every load until it is replaced.
LoadCheckpoint ==
    /\ pc = "load"
    /\ \/ ~damaged /\ pc' = "start" /\ UNCHANGED <<retryCount, record, bounds>>
       \/ damaged /\ FailRun /\ UNCHANGED bounds
       \/ Fault /\ FailRun
    /\ UNCHANGED <<receiver, currentLsn, stopRequested, file, topic, slot,
                   dropped, skipped, history>>

\* The slot decides where the stream begins: after every transaction that
\* commits no later than the requested and the confirmed position.
StreamFrom(lsn) ==
    \E first \in 1 .. Len(Wal) + 1 :
        /\ \A i \in Records : i < first <=> Wal[i].commit <= Larger(lsn, confirmed)
        /\ cursor' = first

StartReplication ==
    /\ pc = "start"
    /\ \/ /\ StreamFrom(ParseLsn(checkpoint))
          /\ statuses' = <<>>
          /\ pc' = "takeReceiver"
          /\ UNCHANGED <<retryCount, record, confirmed, bounds>>
       \/ /\ Fault
          /\ FailRun
          /\ UNCHANGED slot
    /\ UNCHANGED <<receiver, currentLsn, stopRequested, file, topic,
                   dropped, skipped, history>>

\* Mutant: every session has a receiver.
ReceiverEveryTime == TRUE

\* shutdown_receiver.take(): only the first session of a process finds it.
ReceiverAvailable == receiver = "present"

TakeReceiver ==
    /\ pc = "takeReceiver"
    /\ \/ /\ ReceiverAvailable
          /\ receiver' = "taken"
          /\ pc' = "select"
          /\ sessions' = sessions + 1
          /\ streamed' = streamed + 1
          /\ UNCHANGED <<retryCount, record>>
       \/ /\ ~ReceiverAvailable
          /\ FailRun
          /\ UNCHANGED <<receiver, history>>
    /\ UNCHANGED <<currentLsn, stopRequested, file, topic, slot, dropped, skipped, bounds>>

-----------------------------------------------------------------------------
(* The replication loop                                                    *)

\* Mutant: the process takes over the end of the transaction.
ReceiveRecordCommit ==
    /\ Goto("select", "status")
    /\ cursor \in Records
    /\ record' = cursor
    /\ cursor' = cursor + 1
    /\ currentLsn' = Wal[cursor].commit
    /\ UNCHANGED <<retryCount, receiver, stopRequested, file, topic,
                   confirmed, statuses, dropped, skipped, history, bounds>>

\* recv_replication_message returns the next XLogData. The poll timeout, which
\* changes nothing here, is the subject of FrameReader.
ReceiveRecord ==
    /\ Goto("select", "status")
    /\ cursor \in Records
    /\ record' = cursor
    /\ cursor' = cursor + 1
    /\ currentLsn' = Wal[cursor].lsn
    /\ UNCHANGED <<retryCount, receiver, stopRequested, file, topic,
                   confirmed, statuses, dropped, skipped, history, bounds>>

\* A standby status update: one position, as received, flushed and applied.
WriteStatus(lsn) ==
    /\ Len(statuses) < MaxStatuses
    /\ statuses' = Append(statuses, lsn)

\* A keepalive that asks for a reply is answered inside the receive, with the
\* server's position: past every transaction it has already sent, and no other.
AnswerKeepalive ==
    /\ pc = "select"
    /\ \/ /\ \E lsn \in Positions :
                /\ \A i \in Records : i >= cursor => Wal[i].commit > lsn
                /\ WriteStatus(lsn)
          /\ UNCHANGED <<pc, retryCount, record, bounds>>
       \/ /\ Fault
          /\ FailRun
          /\ UNCHANGED statuses
    /\ UNCHANGED <<receiver, currentLsn, stopRequested, file, topic,
                   confirmed, cursor, dropped, skipped, history>>

\* The stream ends or breaks: the receive returns an error.
LoseConnection ==
    /\ pc = "select"
    /\ Fault
    /\ FailRun
    /\ UNCHANGED <<receiver, currentLsn, stopRequested, file, topic, slot,
                   dropped, skipped, history>>

\* Mutant: the whole transaction is reported.
SendStatusCommit ==
    /\ Goto("status", "decode")
    /\ \/ WriteStatus(Wal[record].commit) /\ UNCHANGED bounds
       \/ Fault /\ UNCHANGED statuses
    /\ UNCHANGED <<retryCount, receiver, currentLsn, record, stopRequested,
                   file, topic, confirmed, cursor, dropped, skipped, history>>

\* The position of the record in hand is reported BEFORE the record is decoded
\* or published. A failed write is only logged.
SendStatus ==
    /\ Goto("status", "decode")
    /\ \/ WriteStatus(Wal[record].lsn) /\ UNCHANGED bounds
       \/ Fault /\ UNCHANGED statuses
    /\ UNCHANGED <<retryCount, receiver, currentLsn, record, stopRequested,
                   file, topic, confirmed, cursor, dropped, skipped, history>>

\* What PgOutputDecoder::decode makes of a record: a message, nothing, or an
\* error. Nothing at all comes of data that does not begin with 'w'.
DecodeResult(i) ==
    CASE ~PayloadTagged                             -> "none"
      [] PayloadTagged /\ Wal[i].kind = "relation"  -> "none"
      [] PayloadTagged /\ Wal[i].kind = "malformed" -> "error"
      [] OTHER                                      -> "message"

\* Mutant: a decoding error passes for a message of no interest.
DecodeSilently ==
    /\ pc = "decode"
    /\ pc' = IF DecodeResult(record) = "message" THEN "process" ELSE "periodic"
    /\ UNCHANGED <<retryCount, receiver, currentLsn, record, stopRequested,
                   file, topic, slot, dropped, skipped, history, bounds>>

\* A message is processed; no message is none of the loop's business, whatever
\* the record was; an error is logged.
Decode ==
    /\ pc = "decode"
    /\ \/ /\ DecodeResult(record) = "message"
          /\ pc' = "process"
          /\ UNCHANGED <<dropped, skipped>>
       \/ /\ DecodeResult(record) = "none"
          /\ pc' = "periodic"
          /\ skipped' = skipped \union ({record} \intersect Changes)
          /\ UNCHANGED dropped
       \/ /\ DecodeResult(record) = "error"
          /\ pc' = "periodic"
          /\ dropped' = dropped \union {record}
          /\ UNCHANGED skipped
    /\ UNCHANGED <<retryCount, receiver, currentLsn, record, stopRequested,
                   file, topic, slot, history, bounds>>

\* Mutant: a failed send is taken for a success.
ProcessMessageSilently ==
    /\ Goto("process", "periodic")
    /\ \/ Wal[record].kind # "change" /\ UNCHANGED <<topic, bounds>>
       \/ /\ Wal[record].kind = "change"
          /\ topic' = Append(topic, record)
          /\ UNCHANGED bounds
       \/ Wal[record].kind = "change" /\ Fault /\ UNCHANGED topic
    /\ UNCHANGED <<retryCount, receiver, currentLsn, record, stopRequested,
                   file, slot, dropped, skipped, history>>

\* Begin and Commit are only logged. A change is published, or given up after a
\* Kafka or serialization error; a send that timed out may have been delivered.
ProcessMessage ==
    /\ Goto("process", "periodic")
    /\ \/ Wal[record].kind # "change" /\ UNCHANGED <<topic, dropped, bounds>>
       \/ /\ Wal[record].kind = "change"
          /\ topic' = Append(topic, record)
          /\ UNCHANGED <<dropped, bounds>>
       \/ /\ Wal[record].kind = "change"
          /\ Fault
          /\ dropped' = dropped \union {record}
          /\ topic' \in {topic, Append(topic, record)}
    /\ UNCHANGED <<retryCount, receiver, currentLsn, record, stopRequested,
                   file, slot, skipped, history>>

\* CheckpointManager::save as a whole (CheckpointFile shows the outcomes): the
\* file is replaced, damaged or not; a failure, which is only logged, leaves it; a
\* write that fails unseen replaces it by a text that does not load.
SaveCheckpoint ==
    \/ currentLsn = None /\ UNCHANGED <<file, bounds>>
    \/ /\ currentLsn # None
       /\ checkpoint' = FormatLsn(currentLsn)
       /\ damaged' = FALSE
       /\ UNCHANGED bounds
    \/ /\ currentLsn # None
       /\ Fault
       /\ damaged' \in {damaged, TRUE}
       /\ UNCHANGED checkpoint

\* The end of the loop's body: a checkpoint when the interval has elapsed.
PeriodicCheckpoint ==
    /\ Goto("periodic", "select")
    /\ record' = 0
    /\ \/ UNCHANGED <<file, bounds>>
       \/ SaveCheckpoint
    /\ UNCHANGED <<retryCount, receiver, currentLsn, stopRequested, topic, slot,
                   dropped, skipped, history>>

\* Mutant: the loop continues where it should end.
TakeShutdownContinue ==
    /\ Goto("select", "select")
    /\ stopRequested
    /\ stopRequested' = FALSE
    /\ UNCHANGED <<retryCount, receiver, currentLsn, record, file, topic,
                   slot, dropped, skipped, history, bounds>>

\* select! takes the shutdown branch: the loop ends.
TakeShutdown ==
    /\ Goto("select", "finalCheckpoint")
    /\ stopRequested
    /\ stopRequested' = FALSE
    /\ UNCHANGED <<retryCount, receiver, currentLsn, record, file, topic,
                   slot, dropped, skipped, history, bounds>>

\* Flush, save, return Error::Shutdown, which run turns into Ok.
FinalCheckpoint ==
    /\ Goto("finalCheckpoint", "stopped")
    /\ SaveCheckpoint
    /\ UNCHANGED <<retryCount, receiver, currentLsn, record, stopRequested, topic,
                   slot, dropped, skipped, history>>

-----------------------------------------------------------------------------
(* The rest of the system                                                  *)

\* The task spawned by run forwards one Ctrl-C to the channel and ends.
RequestStop ==
    /\ pc # "stopped"
    /\ ~stopRequested
    /\ stops < MaxStops
    /\ stops' = stops + 1
    /\ stopRequested' = TRUE
    /\ UNCHANGED <<pc, retryCount, receiver, currentLsn, record, file,
                   topic, slot, dropped, skipped, history, faults>>

\* The process dies where it stands.
Crash ==
    /\ pc # "stopped"
    /\ Fault
    /\ pc' = "stopped"
    /\ record' = 0
    /\ UNCHANGED <<retryCount, receiver, currentLsn, stopRequested, file,
                   topic, slot, dropped, skipped, history>>

\* Other hands damage the checkpoint file, or leave one that does not load.
Damage ==
    /\ ~damaged
    /\ Fault
    /\ damaged' = TRUE
    /\ UNCHANGED <<process, checkpoint, topic, slot, dropped, skipped, history>>

\* The operator removes a damaged file while no process runs.
RemoveDamaged ==
    /\ pc = "stopped"
    /\ damaged
    /\ damaged' = FALSE
    /\ checkpoint' = FormatLsn(0)
    /\ UNCHANGED <<process, topic, slot, dropped, skipped, history, bounds>>

\* main runs again in a new process: a new channel, no position, no retries.
Restart ==
    /\ Goto("stopped", "initialize")
    /\ retryCount' = 0
    /\ receiver' = "present"
    /\ currentLsn' = None
    /\ stopRequested' = FALSE
    /\ streamed' = 0
    /\ UNCHANGED <<record, file, topic, slot, dropped, skipped, sessions, bounds>>

\* The slot handles the next status update. Servers differ in whether a lower
\* flush position moves confirmed_flush back; none takes 0 for a position.
HandleStatus ==
    /\ statuses # <<>>
    /\ \/ Head(statuses) # 0 /\ confirmed' = Head(statuses)
       \/ confirmed' = Larger(Head(statuses), confirmed)
    /\ statuses' = Tail(statuses)
    /\ UNCHANGED <<process, file, topic, cursor, dropped, skipped, history,
                   bounds>>

-----------------------------------------------------------------------------
Run == InitializeConnections \/ LoadCheckpoint \/ StartReplication \/ TakeReceiver

Loop == \/ ReceiveRecord \/ AnswerKeepalive \/ LoseConnection \/ SendStatus
        \/ Decode \/ ProcessMessage \/ PeriodicCheckpoint
        \/ TakeShutdown \/ FinalCheckpoint

Environment == \/ RequestStop \/ Crash \/ Damage \/ RemoveDamaged
               \/ Restart \/ HandleStatus

Next == Run \/ Loop \/ Backoff \/ Environment

Spec == Init /\ [][Next]_vars

\* The runtime polls every task; select! picks among its ready branches at
\* random, so a branch that is ready again and again is taken; the server
\* streams, answers and reads; the service manager restarts the process.
Fairness ==
    /\ WF_vars(Run) /\ WF_vars(Backoff) /\ WF_vars(FinalCheckpoint)
    /\ WF_vars(SendStatus \/ Decode \/ ProcessMessage \/ PeriodicCheckpoint)
    /\ SF_vars(ReceiveRecord) /\ SF_vars(TakeShutdown)
    /\ WF_vars(HandleStatus) /\ WF_vars(Restart)

FairSpec == Spec /\ Fairness

-----------------------------------------------------------------------------
(* Correctness                                                             *)

\* What a row change may come to: it is published, or given up with an error in
\* the log, or, unseen by anybody, not recognised.
Published == {topic[k] : k \in DOMAIN topic}
Accounted == Published \union dropped
Handled == Accounted \union skipped

\* The types of the process: the loop's program points hold a record, and only
\* a process that has given up has used more than max_retries retries.
ProcessTypeOK ==
    /\ pc \in PcValues
    /\ retryCount \in 0 .. MaxRetries + 1
    /\ pc # "stopped" => retryCount <= MaxRetries
    /\ receiver \in {"present", "taken"}
    /\ currentLsn \in Positions \union {None}
    /\ record \in Records \union {0}
    /\ pc \in {"status", "decode", "process", "periodic"} => record \in Records
    /\ stopRequested \in BOOLEAN

\* The types of the slot's end.
SlotTypeOK ==
    /\ confirmed \in Positions
    /\ cursor \in 1 .. Len(Wal) + 1
    /\ statuses \in Seq(Positions)

\* The types of what the process leaves behind.
OutcomeTypeOK ==
    /\ checkpoint \in {FormatLsn(p) : p \in Positions}
    /\ damaged \in BOOLEAN
    /\ topic \in Seq(Records)
    /\ dropped \in SUBSET Records
    /\ skipped \in SUBSET Changes

\* The counters are within their bounds.
CounterTypeOK ==
    /\ sessions \in Nat
    /\ streamed \in Nat
    /\ faults \in 0 .. MaxFaults
    /\ stops \in 0 .. MaxStops

\* Every variable has its type.
TypeOK == ProcessTypeOK /\ SlotTypeOK /\ OutcomeTypeOK /\ CounterTypeOK

\* A stream restarted at lsn would leave out no change that the loop has not
\* dealt with.
Covered(lsn) == \A i \in Changes : Wal[i].commit <= lsn => i \in Handled

\* No resume point runs ahead of the loop: although replication_loop reports and
\* saves a position before it publishes the record there, no position a stream
\* may ever restart from (the slot's, the file's, a status update on its way, the
\* process's own) lies beyond a transaction with a change the loop has not dealt
\* with. That is, published or given up: a decoder that recognises its input
\* passes over no change.
NoSilentLoss ==
    /\ Covered(confirmed)
    /\ Covered(ParseLsn(checkpoint))
    /\ Covered(currentLsn)
    /\ \A k \in DOMAIN statuses : Covered(statuses[k])
    /\ PayloadTagged => skipped = {}

\* A change behind the slot's position has been published, or there is an error
\* in the log: what replication_loop's comments on its error paths ("will retry",
\* "Skipping") and Ok(None) ("not relevant") take for granted.
PublishedOrGivenUp ==
    \A i \in Changes : Wal[i].commit <= confirmed => i \in Accounted

\* Whatever a session has read past is handled, the record in hand excepted:
\* the body of the loop finishes one record before it reads the next, and
\* START_REPLICATION skips no transaction with an unhandled change.
ReadPrefixHandled ==
    pc \in {"takeReceiver", "select", "status", "decode", "process", "periodic",
            "finalCheckpoint"} =>
        \A i \in Changes :
            i < cursor => \/ i \in Handled
                          \/ i = record /\ pc \in {"status", "decode", "process"}

\* Consumers see changes for the first time in commit order, across crashes and
\* restarts: before a change reaches the topic every earlier change of the
\* stream is in it, or has come to nothing (one send at a time in
\* process_message, whole transactions after START_REPLICATION).
FirstDeliveryInOrder ==
    \A k \in DOMAIN topic : \A i \in Changes :
        i < topic[k] => \/ i \in dropped \union skipped
                        \/ \E m \in 1 .. k - 1 : topic[m] = i

\* Only a restart of the process publishes a change again: run takes the
\* shutdown receiver once, so a process has one streaming session, and a
\* session reads each record once.
DuplicatesNeedRestart ==
    /\ streamed <= 1
    /\ \A i \in Records :
          Cardinality({k \in DOMAIN topic : topic[k] = i}) <= sessions

SessionPoints == {"select", "status", "decode", "process", "periodic"}

\* The record the session has yet to deal with, 0 outside the loop.
NextToHandle ==
    CASE pc \notin SessionPoints                        -> 0
      [] pc \in {"status", "decode", "process"}         -> record
      [] pc \in {"select", "periodic"}                  -> cursor

Stream == INSTANCE ChangeStream WITH
    Last <- Len(Wal), Recognised <- PayloadTagged, next <- NextToHandle

\* The loop, its retries and its restarts keep the promise of ChangeStream: a
\* session takes the changes one by one and skips none, and every session
\* begins at or before the first change that is not handled.
ImplementsChangeStream == Stream!Spec

\* The promise of docs/prd.md: a change behind the slot's position or behind
\* the checkpoint, which no restart will read again, is in Kafka.
AtLeastOnce ==
    \A i \in Changes : Wal[i].commit <= Larger(confirmed, ParseLsn(checkpoint)) =>
                            i \in Published

\* The promise of run: transient failures are retried, and only an error that
\* outlasts max_retries attempts ends the process.
GivesUpOnlyOnPersistentFailure == retryCount > MaxRetries => faults > MaxRetries

\* Every change is published or given up with an error in the log, whatever
\* finite number of faults and stops the system meets, if it is restarted and
\* its checkpoint file is not left damaged: no process gets past such a file.
EventuallyHandled == \A i \in Changes : <>[]damaged \/ <>(i \in Accounted)

\* A Ctrl-C ends the process: at the next turn of the loop, or after the
\* retries run out in a process that lost its session and with it the receiver.
StopIsHonoured == stopRequested ~> pc = "stopped"
=============================================================================
