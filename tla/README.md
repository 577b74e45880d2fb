# pg-capture: models, checks and proofs

TLA+ models of pg-capture, the PostgreSQL-to-Kafka change data capture service in
this repository. Paths below are relative to the repository root.

## 1. The system

One process runs one `Replicator` (`src/replicator.rs`). It connects to PostgreSQL,
streams the logical decoding output of one replication slot, turns every row change
into an event, publishes it to a Kafka topic, tells the slot how far it has come and
saves a checkpoint file. `docker-compose.yml:87` restarts the process when it ends.

| Component | State it keeps | Operations | Talks to |
|---|---|---|---|
| Replicator core, `replicator.rs`, `main.rs` | connections, `current_lsn`, `shutdown_receiver`, retry count | `run`, `run_with_retry`, `initialize_connections`, `replication_loop`, `process_message` | everything below |
| Replication connection, `postgres/connection.rs` | socket, `replication_started` | login, `identify_system`, `create_replication_slot`, `start_replication`, `recv_replication_message`, `send_standby_status_update` | PostgreSQL, over one FIFO socket |
| Decoder, `postgres/decoder.rs` | relation cache, `current_xid`, `current_lsn` | `decode` and one function per message type | called by the loop |
| Value parser, `postgres/decoder.rs:425` on | none | text and binary values to JSON | called by the decoder |
| Kafka producer, `kafka/producer.rs` | client queue | `send`, `send_batch`, `flush` | Kafka |
| Topic manager, `kafka/topic_manager.rs` | `created_topics` | `ensure_topic_exists`, `delete_topic` | Kafka |
| Key strategy, `kafka/key_strategy.rs` | none | `extract_key` | called by the producer |
| Serializer, configuration | none | pure functions | called by the above |
| Checkpoint manager, `checkpoint.rs` | one file, one temporary file | `load`, `save`, `delete` | file system |
| `postgres/replication.rs` | - | dead code | - |

What is hard, and what makes each part correct:

* **Core.** Three records of progress (the slot's, the file's, the process's own) are
  written at different moments, all of them before or apart from the publication. No
  resume point may pass a change that was not handled; changes must keep their order;
  every change must be handled in the end; a Ctrl-C must end the process.
  (`NoSilentLoss`, `ReadPrefixHandled`, `FirstDeliveryInOrder`, `DuplicatesNeedRestart`,
  `EventuallyHandled`, `StopIsHonoured`) Together: the topic is a change stream, with
  restarts and repetitions but without gaps. (`ImplementsChangeStream`) A change that is
  passed over must leave an error in the log at least. (`PublishedOrGivenUp`)
* **Checkpoint manager.** A crash or loss of power between create, write, sync and
  rename, with a temporary file left over from before, must never show a partial
  checkpoint, nor must a write that fails. (`PartialOnlyIfCut`,
  `SyncedBeforeVisible`, `ImplementsRegister`)
* **Connection.** Answers are read message by message off a shared stream, with a
  time limit that drops a read in the middle. Every read must begin where a frame does
  and every command must read its own answer; a keepalive that asks must be answered even
  if the time limit strikes while it is; no attempt may hang. (`InStep`,
  `WholeFramesInStep`, `OnlyCutsLose`, `AnswersInOrder`, `EveryFrameDelivered`,
  `AsksAnswered`, `ReadsOwnAnswer`, `LagIsExact`, `AtMostOneBehind`,
  `StreamIsReal`, `HandshakeEnds`)
* **Decoder.** A change is decoded with what earlier messages said about its relation
  and its transaction, and by the types of its columns: arrays are split at their commas,
  numbers may not be finite, NULL is not the string NULL. A message about a relation that
  cannot be read costs every change that follows; an old row may hold its key alone.
  (`FailuresExplained`, `EventIsTrue`, `ValuesShown`)
* **Kafka side.** A cached topic may be gone, another client may create the topic between
  the check and the creation; a timed-out send may still arrive; a full queue ends a batch
  halfway. Who is told "delivered" must be able to rely on it, order must survive, every
  call must end; a key that names the row must keep its events in one partition, deletes
  included. (`ImplementsSink`, `StragglersWereRefused`, `RowsStayTogether`, `CallEnds`)

`PROJECT.json` lists each of these hazards at its line.

## 2. Modules

| Module | Models |
|---|---|
| `Replicator` | the core, composed with the slot, the status updates on their way, the checkpoint and the topic |
| `MCReplicator` | its instances: streams of one or two transactions |
| `Lsn` | an LSN printed as two words and read back |
| `ChangeStream` | what the readers of the topic are promised |
| `ReplicatorProofs` | the safety of `Replicator` and that it implements `ChangeStream`, proved |
| `AtomicCheckpoint` | what a checkpoint manager promises: a register |
| `CheckpointFile`, `MCCheckpointFile` | `CheckpointManager` on inodes and names; it implements the register |
| `CheckpointFileProofs` | its safety and the refinement, proved for one writer |
| `FrameReader`, `MCFrameReader` | `read_message` under the loop's poll timeout |
| `FrameReaderProofs` | its safety on every network, proved |
| `Handshake` | from connecting to streaming, command by command |
| `HandshakeProofs` | whose answer each operation reads, proved for every server |
| `ValueParser` | `parse_postgres_value` and `parse_array_value` |
| `Decoder`, `MCDecoder` | `PgOutputDecoder` over a stream with schema changes and sessions |
| `DecoderProofs` | its safety, proved for all relations, layouts and rows |
| `KeyStrategy` | `extract_key` |
| `OrderedSink` | what the Kafka side promises: at most once, in order, true answers |
| `KafkaSink`, `MCKafkaSink` | `TopicManager` and `KafkaProducer` over the client's queue; it implements the sink |
| `KafkaSinkProofs` | that refinement and its safety, proved |

**Replicator.** `pc` names the await point the process has reached; between two await
points nothing else can happen in it. `initialize`, `load`, `start` and `takeReceiver`
are `run_with_retry` up to the loop; `select` is the head of the loop; `status`,
`decode`, `process` and `periodic` are the parts of its body; `finalCheckpoint` is the
code after the loop; `backoff` is the sleep in `run`; `stopped` is a process that has
ended or died. `FailRun` is the error path common to all of them, `Fault` spends one
fault of the environment. A record of the stream has a kind, the LSN its XLogData
message reports and the LSN of its transaction's commit; `WalAssumption` says what a
logical slot guarantees of them; a relation message may have the LSN 0, which no server takes for a
position. `currentLsn` is `None` before the first record. `message_count` and timestamps are
left out: nothing depends on them. `dropped`, `skipped`, `sessions` and `streamed` are
history: a row change ends in the topic, in `dropped` (an error was logged) or in `skipped`
(the decoder returned Ok(None), and nothing at all was logged). The checkpoint holds
the LSN as the text `Lsn` prints; other hands may damage the file, which then fails every
load (checkpoint.rs:135) until an operator removes it or a running process replaces it. `confirmed` may move
back when the server handles a lower position, or not; servers differ, the model
allows both. A save is one step here because `CheckpointFile` shows that it may be
regarded so: the file is replaced, or left, or replaced by a text that does not load,
which then is as good as damaged. `InitializeConnections` and `StartReplication` may succeed or fail here;
what stands between the code and a successful start is the subject of `Handshake`, and
what a receive may do to the stream that of `FrameReader`.

**CheckpointFile.** A name leads to an inode, a writer has an inode open. tokio's
`write_all` succeeds once the text is handed to another thread, and `sync_all` keeps that
thread's error to itself, so `Write` has an outcome in which less than the text, or nothing,
is in the file and `save` goes on; `cut` remembers the files this happened to. `Abandon` is
an error return or the death of the process between two calls. The directory reaches
the disk when the file system likes (`WriteBackDirectory`), a file's text when it is
synced; `LosePower` brings back what the disk has.

**AtomicCheckpoint.** A save begins, and takes effect at once or not at all (`Commit`,
`Fail`), with the checkpoint it was called with; `Tear` is the one exception, a write that
fails unseen.

**ChangeStream.** `next` is the record a session deals with next, 0 while there is none:
`NextToHandle` reads it off `pc`, `record` and `cursor`. Taking a record over and
finishing the loop's body are stutters; what counts is the moment it is published, given
up or found to carry no change. `Resume` is where the promise is made: a session may begin
anywhere before the first change that is not handled. `Overlook`, which leaves a change out
without a word, is there only while `Recognised` is FALSE.

**FrameReader.** Bytes arrive in any pieces, or frame by frame (`network`). `TakeBytes` is
`read_exact`, which keeps what it took in a local buffer; `Timeout` drops that buffer, but
not the `BufWriter`, which belongs to the connection. `answer` is a receive that answers a
keepalive, under the time limit; `confirm` the loop's own status update, without one. `tokio::time::timeout`
polls what it guards before its clock, so a read is only cut while it is pending.

**Handshake.** `answers` is the socket. Each message carries the command it answers, so
that a property can tell whose answer was read. Whether a query's answer ends with
ReadyForQuery (`trailing`) and how START_REPLICATION is accepted (`copyAnswer`) are
chosen at the start of a behaviour. A server that has closed its end handles nothing more.

**Decoder.** A step of the stream is one message and what `decode` makes of it. A layout
gives the name and type of each column, `Rows` what the relation may hold then: values of
the columns' types (`Fits`), in `MCDecoder` every combination of a few. An update may leave out
those that are stored elsewhere. An old row is whole under REPLICA IDENTITY FULL; otherwise
its columns outside of the key are NULL markers (`KeyOnly`), whatever they hold, and
`message.was` is the row they hide. `spelling` says how the server spells names in a RELATION
message: the decoder reads their length first ("prefixed"), PostgreSQL ends them with a zero
byte ("terminated"). Reading the second as the first ends in an error, in a panic at the end
of the buffer, or in an entry (`Misread`) whose rows are `Garbled`. The values are SQL's;
`PgText` prints them as PostgreSQL does, `ParsePostgresValue` turns the text into JSON as the
code does, and `Shows` says when a consumer can read the value off the
JSON. A text is a sequence of tokens: words, and the punctuation of arrays. What the code
cannot show is named in `Blurred`: numbers that are not finite and JSON's own null, which
become null, and nested arrays, which are split at every comma. A number is a number as its
type rounds it; that a float4 prints with more digits after `as f64` is left out.

**KeyStrategy.** Strategies, records and keys as the code has them; a name with dots is
the sequence of its parts. `ExtractKey` is used by `KafkaSink`, where an event has its two
images and a key decides the partition. `Columns` are the columns a strategy reads; `RowAssumption`, in
`KafkaSink`, says of the data that all images of one row agree on those of the `RowStrategies`,
and that a delete has its old image and the other operations their new one.
The pipeline itself passes no keys
(replicator.rs:290); `strategy` is any of them.

**KafkaSink.** `stage` is the await point a call has reached. The client's queue is
bounded and, for each partition, FIFO and idempotent, which is what `KafkaProducer::new`
asks for. The pipeline asks for one partition per topic; the model has `Partitions`, since
topics may exist already, and takes their number as fixed: adding partitions moves keys.
`log` holds what was ever written, also to a topic
deleted since. `told` is what callers know: `send_batch` returns a vector of results or
one error for all. `Replicator` uses of it what `OrderedSink` says of one call: a change
is delivered, or an error is reported and it may be in the topic or not; a message that
lands after its error is appended there at the moment of the error, which nobody in the
pipeline can tell from later, since order is kept. A batch with events of several tables
goes to the topic of the first one (producer.rs:205), here too; an empty batch does
nothing.

External parts (PostgreSQL, the network, the file system, the death of a process) are
modelled from how the code uses them and marked so in `PROJECT.json`.

## 3. Runs

Runs that pass:

| Run | Shows | Bounds |
|---|---|---|
| `ReplicatorSafety` | the five safety properties, and a change stream | two overlapping transactions with a relation, three changes, one malformed; 1 retry, 2 faults, 1 Ctrl-C, 1 unread status, words of an LSN of 4; restarts unlimited |
| `ReplicatorLiveness` | every change handled, every stop honoured | two transactions, 2 faults (a damaged file is one), 1 retry |
| `CheckpointFileSafety` | one writer: partial only after a write that failed unseen, synced, a register | 2 checkpoints of different length, 4 inodes |
| `FrameReaderNetworks` | frames that arrive whole: in step, all delivered and answered; in pieces: exact delivery and answers in order until a frame is cut | 6 frames: two changes, two keepalives that ask, one message read past, a final error; two without a body; misread lengths up to 3 |
| `HandshakeServers` | one answer behind a server whose answers trail and none behind another, a stream is real, no attempt hangs | 3 attempts, 4 kinds of server, every login method, slot present or not |
| `KafkaSinkCalls` | an ordered sink, stragglers refused, rows kept together, every call ends | 3 events to 2 topics of 2 partitions, 6 key strategies, a queue of 2, batches of 1 to 3; other clients and lost deliveries unlimited |
| `DecoderEvents` | only unchanged values fail where names can be read, no event with rows where they cannot, events true, values shown | both spellings, 2 relations, 4 layouts over 7 types, 14 values, whole and key-only old rows, 2 transactions, sessions unlimited |

Why the bounds are enough: the resume positions that matter lie between two
transactions, and the hardest case, a second transaction that began writing before the
first committed, is in the stream. Two faults are a failed send or save followed by a
crash. One retry and one more is the whole difference between retrying and giving up.
Words of four put the first changes and the commits beyond them in different words, and one
commit exactly at a word's beginning. A queue of two is full in the middle of a batch of three, or
with one message left by a call that gave up in front of a batch of two. The life of one
row is an insert and a delete with another row's event between them. After the last change
comes a keepalive whose answer nothing will flush: `AsksAnswered` promises no more than
the answers before a later change. Four inodes are the checkpoint, the temporary file, the two the directory on disk still
names. A rename of a column keeps the number of columns, so that only the
name tells a stale layout; the later layouts keep a name and change its type.

Runs that refute what a document or comment says (each is a finding in `PROJECT.json`):

| Run | Says | The code |
|---|---|---|
| `ReplicatorAtLeastOnce` | zero data loss, retry on next message | a failed send is passed over and confirmed |
| `ReplicatorRecovery` | retries transient failures | the shutdown receiver is taken once, so the first lost connection is the last |
| `ReplicatorUntagged` | reads changes and publishes them | the connection strips the header the decoder looks for: all is skipped without an error |
| `FrameReaderTimeout` | a timeout is normal | it may fall inside a frame |
| `HandshakeStale` | each command reads its response | it reads what the one before left |

Some disagreements were met while modelling and have no run of their own. Three of them are
weighty, and the passing properties say exactly how far they reach. "This guarantees that
the checkpoint file is never partially written" (checkpoint.rs:152) does not hold for a write
that fails after `write_all` returned: `sync_all` does not tell, and the empty or cut file is
renamed into place (checkpoint.rs:183-187); `PartialOnlyIfCut` shows that nothing else leaves a
partial file. The decoder "handles all message types", RELATION among them
(postgres/connection_limitations.md:68), but reads names with their length in front
(decoder.rs:128, 139, 158), where PostgreSQL ends them with a zero byte: the message fails, and
every change of the relation after it; `FailuresExplained` shows that no change becomes an
event with its rows then. A DELETE has its "row data" in `before` (README.md:194), but under the
default replica identity the server sends the key alone, and the decoder shows the other
columns as null (decoder.rs:314); `ValuesShown` shows that no key column and no new row is
affected.

Of the others a glance at the line is enough: `start_replication` accepts CopyOutResponse where its
comment waits for CopyBothResponse (connection.rs:413); `decode_tuple_data` rejects
unchanged TOAST columns, so such an UPDATE is logged and skipped (decoder.rs:409, a
"malformed" record in `Replicator`, the value `Unchanged` in `Decoder`); an UPDATE has no old data
under the default replica identity, whatever the table of operations in README.md:193
says; two managers of one path share the temporary file, and TLC finds `PartialOnlyIfCut`
violated for `Writers = {w1, w2}`, where docs/checkpoint-design.md:105 lists concurrent
writes as handled (a process has one manager, so no run keeps this); the fifth backoff is 8 seconds, not 16 (replicator.rs:160); a damaged checkpoint
file fails every start instead of starting afresh (docs/checkpoint-design.md:81; `EventuallyHandled`
allows for it); more partitions, which README.md:323 recommends, give up the order of a row's events
while the pipeline sends no keys (replicator.rs:290); and
exactly-once delivery (README.md:12) is not what a crash between publishing a change and
reaching its commit leaves: the change is published again, which
`DuplicatesNeedRestart` bounds.

`Replicator` therefore has a parameter `PayloadTagged`: FALSE is the code as it is wired
today, TRUE the interface the decoder's own documentation and tests assume.
`ReplicatorSafety` and `ReplicatorLiveness` take TRUE, and show what the pipeline guarantees
once connection and decoder agree; `ReplicatorUntagged` takes FALSE. The proofs take
neither, but for `UntaggedPublishesNothing`: what holds only of one value says so in the
property (`NoSilentLoss` ends in `PayloadTagged => skipped = {}`).

Only two runs switch off the deadlock check, where the system may really stop: a session
that failed in `FrameReaderNetworks`, a connection that streams or has used its attempts
in `HandshakeServers`.

## 4. Fairness

`ReplicatorLiveness`: the runtime polls every task, so each step of the process that can
be taken is taken (WF). In `select!` two branches compete; tokio picks at random, so a
branch that is ready again and again is taken (SF on `ReceiveRecord` and
`TakeShutdown`). The slot reads its socket (WF on `HandleStatus`) and the service manager
restarts the process (WF on `Restart`, docker-compose.yml:87). Connecting has no time
limit in the code; WF on `Run` supposes that the peer answers or the connection fails.
Nothing is assumed of faults, crashes, Ctrl-C, keepalives or the operator: if a damaged
checkpoint file is left as it is, `EventuallyHandled` promises nothing.
`FrameReaderNetworks`: the stream arrives, what is flushed is taken, the loop receives, a
read that can go on is polled first. `HandshakeServers`: client and server act, and the server cuts a login
that does not come to an end (authentication_timeout). `KafkaSinkCalls`: the call in progress
is polled, its timers included; nothing is assumed of the brokers.

## 5. Proofs

tlapm checks every leaf; the constants' assumptions are named `...Assumption` in the
modules and evaluated by TLC on every run.

* `ReplicatorProofs!TypeCorrect`: `Spec => []TypeOK`, one lemma for each group of
  variables, one step per action.
* `ReplicatorProofs!NoSilentLossHolds` and `ReadPrefixHandledHolds`: `Spec => []NoSilentLoss`
  and `Spec => []ReadPrefixHandled`, for both values of `PayloadTagged`: with FALSE what is
  handled is skipped, with TRUE `skipped` is empty.
  `NoSilentLoss` is not inductive: that the position of the record in hand is a safe
  resume point follows from everything before it being handled. The invariant `IInv`
  adds `ReadPrefixHandled`, that a status update reports the position just taken over
  (`LsnOfRecord`), and that only decoded messages are processed (`MessageInHand`). The
  heart is `LsnCoversOnlyEarlier`: the LSN of a record reaches the commits of earlier
  records only, so reporting it before the record is handled gives nothing away.
* `ReplicatorProofs!DuplicatesNeedRestartHolds`: `streamed` counts what the receiver
  allows, one session at most, and a record still to be read in this session has been
  published by earlier sessions only.
* `ReplicatorProofs!FirstDeliveryInOrderHolds`: the order of the topic
  is kept by the step that appends to it because `ReadPrefixHandled` says that everything
  before the record in hand is handled.
* `ReplicatorProofs!ChangeStreamImplemented`: `Spec =>
  ImplementsChangeStream`, with one step per action; the session's start is `Resume`
  because of `ReadPrefixHandled`. `LsnSurvivesText` is the fact about `Lsn` all of these
  rest on: what is printed is read back.
* `ReplicatorProofs!UntaggedPublishesNothing`: the code as it is wired today. If not `PayloadTagged`, nothing is ever published and no change is
  given up with an error, for every stream and every history: what `ReplicatorUntagged`
  shows on one record.
* `CheckpointFileProofs`: for one writer (`OneWriter`), `TypeOK`, `PartialOnlyIfCut`,
  `SyncedBeforeVisible` and `ImplementsRegister`. The invariant says that the files the
  checkpoint's name leads to, in memory and on disk, are synced and whole unless their write
  failed (`NamesWhole`), that the temporary file is none of them (`NamesApart`), and what is
  in the temporary file at each step of a save (`SaveUnderWay`). With two writers it fails,
  and so does `PartialOnlyIfCut` (section 3).
* `FrameReaderProofs`: `TypeOK`, `WholeFramesInStep`, `OnlyCutsLose` and
  `AnswersInOrder`, for any frames of any kinds and lengths and any timing of the time
  limit. The three are consequences of one fact, `Progress`: there is a number of frames
  that have been taken off the stream, the changes among them have been delivered, each
  once and in order, and the answers to them have left or wait in the buffer. It holds as
  long as no frame was cut (`NothingLost`), and on a network that delivers whole frames
  none is, because a read in the body then finds its bytes there (`NetworkKeepsItsWay`,
  `ReadUnderWay`). `EndOrder` and `EndUnique` are the facts about the stream underneath: a
  byte at which a frame ends tells how many frames lie before it.
* `HandshakeProofs`: `TypeOK`, `AtMostOneBehind`, `LagIsExact` and
  `StreamIsReal`, for every server the constants allow and any number of connections.
  None of them is inductive: which answer comes next depends on what was asked
  (`PendingIsKnown`), where the answers in the socket end (`EndsAt`) and whose they are
  (`BelongsTo`), and a stream is real because nothing is asked after START_REPLICATION
  (`CopyIsKnown`). `Lag` adds what a server whose answers trail has left in the socket at
  each command: create_replication_slot always begins at the ReadyForQuery that
  identify_system left, start_replication after it at the answer to CREATE_REPLICATION_SLOT,
  and neither ever catches up, so that no client streams from such a server. PostgreSQL is
  one: the other kind is what the code expects.
* `DecoderProofs`: `TypeOK`, `FailuresExplained` and `EventIsTrue` follow from
  `CacheIsCurrent` (the decoder's cache is what the server announced in this session, or,
  where names cannot be read, nothing that is right) and `XidIsCurrent`. Of `ValuesShown`
  the proofs have all but one kind of value, `UnsplitValuesShown`: NULL, words, strings,
  arrays of other types, arrays kept as text (`ParserShows`), in whole and key-only rows. That
  an array split at its commas is shown is left to TLC: splitting and joining are folds, for
  which there is no theorem to use here. `DecoderEvents` decodes every row of its instance.
* `KafkaSinkProofs`: `TypeOK`, `StragglersWereRefused`, and `ImplementsSink`: `Spec =>
  Sink!Spec`, by one step of `OrderedSink` or a stutter for each action. `IInv` says
  which events a call may still answer (`CallUnderWay`), that along each partition what is
  written and then what is queued is in the order of the calls (`QueueInOrder`), that a
  report is true (`ReportsTrue`), and that nobody is told what was not reported
  (`AnswersInTurn`). `RowsStayTogether` follows from `KeysRespected`, that each message lies
  in a partition its key chooses, and from `RowsHaveOneKey`: `ExtractKey` takes the image that
  the operation has (`ImageIsThere`) and depends on nothing of it but the strategy's columns
  (`SameColumnsSameKey`). That all images of one row agree on these is a condition on the
  data, `RowAssumption`, and says nothing of which image is taken: TLC finds
  `RowsStayTogether` violated if a delete took its key from the new image.

Only model-checked: liveness, for the prover handles neither fairness nor ENABLED
(`EventuallyHandled`, `StopIsHonoured`, `EveryFrameDelivered`, `AsksAnswered`,
`HandshakeEnds`, `CallEnds`), and what the operators built on folds compute: `Split`, the texts of arrays,
`FieldValue` and `CompositeKey`. Every invariant and every refinement that a passing run
checks is also a theorem, `ValuesShown` but for split arrays.

## 6. Not modelled

The bytes of messages, the binary form of column values (the pipeline never asks for it),
the LSN in an event's source, the JSON text of an event (serializer.rs: pure formatting),
configuration (environment variables and defaults), logging, message counts and
timestamps, what a flush waits for in `Replicator` (every send is awaited before the next:
`StragglersWereRefused`), `drop_replication_slot`, `send_keepalive` and
`start_keepalive_sender` (not called), `postgres/replication.rs` (dead code). TLS is not
implemented by the code. Some behaviour of libraries could not be confirmed from the
repository and is left open or to a parameter: what `postgres-protocol` makes of a
CopyBothResponse (an error either way), and what librdkafka reports for a topic that does
not exist. That tokio's `write_all` and `sync_all` hide a failed write, and that PostgreSQL ends
names with a zero byte and answers with ReadyForQuery, is how those projects work today, and
is taken over from them.

## 7. Plan

Done: `Replicator` and `CheckpointFile` with their refinements, `FrameReader`, `Handshake`,
`Decoder` with `ValueParser`, `KafkaSink` with `KeyStrategy` and its refinement of
`OrderedSink`; proofs of the safety of each.

Next, in this order:

1. Proofs: what can still be said once a frame was cut (`OnlyCutsLose` speaks of
   `cuts = 0` alone), and `ValuesShown` for split arrays, by well-founded induction over
   sets, if the folds behind them can be given an equation to unfold.
2. The binary value parser, and `drop_replication_slot`, should the pipeline come to use
   them.
