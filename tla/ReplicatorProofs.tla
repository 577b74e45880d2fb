-------------------------- MODULE ReplicatorProofs --------------------------
(***************************************************************************)
(* Proofs about Replicator for every stream that satisfies WalAssumption   *)
(* and every value of the bounds, whether or not the decoder recognises    *)
(* its input: type correctness, that no resume point runs ahead of the     *)
(* loop, the order of first deliveries, that only restarts repeat, and the *)
(* refinement of ChangeStream; and what is left of the promise when the    *)
(* decoder recognises nothing.                                             *)
(***************************************************************************)
EXTENDS Replicator, SequenceTheorems, FiniteSetTheorems, TLAPS

-----------------------------------------------------------------------------
(* The stream                                                              *)

\* The fields of a record of the stream have their types.
LEMMA RecordTypes ==
    ASSUME NEW i \in Records
    PROVE  /\ Wal[i].kind \in Kinds
           /\ Wal[i].lsn \in Nat
           /\ Wal[i].commit \in Nat \ {0}
<1>1. Wal[i] \in [kind : Kinds, lsn : Nat, commit : Nat \ {0}]
  BY WalAssumption, ElementOfSeq DEF WalAssumption, Records
<1> QED
  BY <1>1

\* Reported positions and commit positions are positions, and those are naturals.
LEMMA PositionTypes ==
    /\ Positions \subseteq Nat
    /\ \A i \in Records : Wal[i].lsn \in Positions /\ Wal[i].commit \in Positions
BY RecordTypes DEF Positions

\* "No position" counts as one.
LEMMA ZeroPosition == 0 \in Positions
BY DEF Positions

\* The empty sequence is a sequence of anything.
LEMMA EmptySequences == <<>> \in Seq(Positions) /\ <<>> \in Seq(Records)
OBVIOUS

\* The stream is finite.
LEMMA LenWal == Len(Wal) \in Nat
BY WalAssumption, LenProperties DEF WalAssumption

\* The position a record reports lies beyond the commits of earlier records
\* only: this is why replication_loop may report a position before it handles
\* the record there.
LEMMA LsnCoversOnlyEarlier ==
    ASSUME NEW i \in Records, NEW j \in Changes, Wal[j].commit <= Wal[i].lsn
    PROVE  j < i
<1>1. j \in Records /\ Wal[j].kind # "commit"
  BY DEF Changes
<1>2. i \in Int /\ j \in Int
  BY <1>1 DEF Records
<1>3. CASE i = j
  <2>1. Wal[j].lsn <= Wal[j].commit /\ Wal[j].lsn # Wal[j].commit
    BY <1>1, WalAssumption DEF WalAssumption
  <2> QED
    BY <1>1, <1>3, <2>1, RecordTypes
<1>4. CASE i < j
  <2>1. Wal[i].lsn <= Wal[i].commit /\ Wal[i].commit <= Wal[j].commit
    BY <1>1, <1>4, WalAssumption DEF WalAssumption
  <2>2. Wal[i].lsn = Wal[i].commit => Wal[i].commit < Wal[j].commit
    BY <1>1, <1>4, WalAssumption DEF WalAssumption
  <2> QED
    BY <1>1, <2>1, <2>2, RecordTypes
<1> QED
  BY <1>2, <1>3, <1>4

\* A position survives its text: what save prints of a position is the position
\* that start_replication asks for after load.
LEMMA LsnSurvivesText ==
    ASSUME NEW lsn \in Nat
    PROVE  ParseLsn(FormatLsn(lsn)) = lsn
BY WordSizeAssumption DEF WordSizeAssumption, FormatLsn, ParseLsn

-----------------------------------------------------------------------------
(* Type correctness                                                        *)

\* The first state is well typed.
LEMMA TypeInit == Init => TypeOK
<1> SUFFICES ASSUME Init PROVE TypeOK
  OBVIOUS
<1>1. ProcessTypeOK
  <2>1. retryCount \in 0 .. MaxRetries + 1 /\ retryCount <= MaxRetries
    BY ParameterAssumption DEF Init, ParameterAssumption
  <2> QED
    BY <2>1, ZeroPosition DEF Init, ProcessTypeOK, PcValues
<1>2. SlotTypeOK
  BY ZeroPosition, LenWal, EmptySequences DEF Init, SlotTypeOK
<1>3. OutcomeTypeOK
  BY ZeroPosition, EmptySequences DEF Init, OutcomeTypeOK
<1>4. CounterTypeOK
  BY ParameterAssumption DEF Init, CounterTypeOK, ParameterAssumption
<1> QED
  BY <1>1, <1>2, <1>3, <1>4 DEF TypeOK

\* A run that fails has a retry left or stops.
LEMMA FailRunTypes ==
    ASSUME ProcessTypeOK, pc # "stopped", FailRun,
           UNCHANGED <<receiver, currentLsn, stopRequested>>
    PROVE  ProcessTypeOK'
BY ParameterAssumption
   DEF FailRun, ProcessTypeOK, PcValues, ParameterAssumption

\* Every step keeps the process well typed: the loop has a record where it uses
\* one, and only FailRun counts retries.
LEMMA ProcessTypes == TypeOK /\ [Next]_vars => ProcessTypeOK'
<1> SUFFICES ASSUME ProcessTypeOK, SlotTypeOK, [Next]_vars
             PROVE  ProcessTypeOK'
  BY DEF TypeOK
<1> USE DEF Goto
<1>1. CASE InitializeConnections
  <2>1. CASE FailRun
    BY <1>1, <2>1, FailRunTypes DEF InitializeConnections
  <2> QED
    BY <1>1, <2>1 DEF InitializeConnections, ProcessTypeOK, PcValues
<1>2. CASE LoadCheckpoint
  <2>1. CASE FailRun
    BY <1>2, <2>1, FailRunTypes DEF LoadCheckpoint
  <2> QED
    BY <1>2, <2>1 DEF LoadCheckpoint, ProcessTypeOK, PcValues
<1>3. CASE StartReplication
  <2>1. CASE FailRun
    BY <1>3, <2>1, FailRunTypes DEF StartReplication
  <2>2. CASE pc' = "takeReceiver" /\ UNCHANGED <<retryCount, record>>
    BY <1>3, <2>2 DEF StartReplication, ProcessTypeOK, PcValues
  <2> QED
    BY <1>3, <2>1, <2>2 DEF StartReplication
<1>4. CASE TakeReceiver
  <2>1. CASE FailRun /\ UNCHANGED receiver
    BY <1>4, <2>1, FailRunTypes DEF TakeReceiver
  <2> QED
    BY <1>4, <2>1 DEF TakeReceiver, ProcessTypeOK, PcValues
<1>5. CASE ReceiveRecord
  BY <1>5, PositionTypes DEF ReceiveRecord, ProcessTypeOK, PcValues
<1>6. CASE AnswerKeepalive
  <2>1. CASE FailRun
    BY <1>6, <2>1, FailRunTypes DEF AnswerKeepalive
  <2>2. CASE UNCHANGED <<pc, retryCount, record>>
    BY <1>6, <2>2 DEF AnswerKeepalive, ProcessTypeOK
  <2> QED
    BY <1>6, <2>1, <2>2 DEF AnswerKeepalive
<1>7. CASE LoseConnection
  BY <1>7, FailRunTypes DEF LoseConnection
<1>8. CASE SendStatus
  BY <1>8 DEF SendStatus, ProcessTypeOK, PcValues
<1>9. CASE Decode
  BY <1>9 DEF Decode, ProcessTypeOK, PcValues
<1>10. CASE ProcessMessage
  BY <1>10 DEF ProcessMessage, ProcessTypeOK, PcValues
<1>11. CASE PeriodicCheckpoint
  BY <1>11 DEF PeriodicCheckpoint, ProcessTypeOK, PcValues
<1>12. CASE TakeShutdown
  BY <1>12 DEF TakeShutdown, ProcessTypeOK, PcValues
<1>13. CASE FinalCheckpoint
  BY <1>13 DEF FinalCheckpoint, ProcessTypeOK, PcValues
<1>14. CASE Backoff
  BY <1>14 DEF Backoff, ProcessTypeOK, PcValues
<1>15. CASE RequestStop
  BY <1>15 DEF RequestStop, ProcessTypeOK
<1>16. CASE Crash
  BY <1>16 DEF Crash, ProcessTypeOK, PcValues
<1>17. CASE Restart
  <2>1. retryCount' \in 0 .. MaxRetries + 1 /\ retryCount' <= MaxRetries
    BY <1>17, ParameterAssumption DEF Restart, ParameterAssumption
  <2> QED
    BY <1>17, <2>1, ZeroPosition DEF Restart, ProcessTypeOK, PcValues
<1>18. CASE HandleStatus \/ Damage \/ RemoveDamaged \/ UNCHANGED vars
  BY <1>18 DEF HandleStatus, Damage, RemoveDamaged, process, vars, ProcessTypeOK
<1> QED
  BY <1>1, <1>2, <1>3, <1>4, <1>5, <1>6, <1>7, <1>8, <1>9, <1>10, <1>11, <1>12,
     <1>13, <1>14, <1>15, <1>16, <1>17, <1>18 DEF Next, Run, Loop, Environment

\* Every step keeps the slot well typed: what is reported is a position.
LEMMA SlotTypes == TypeOK /\ [Next]_vars => SlotTypeOK'
<1> SUFFICES ASSUME ProcessTypeOK, SlotTypeOK, [Next]_vars
             PROVE  SlotTypeOK'
  BY DEF TypeOK
<1>1. CASE StartReplication
  <2>1. CASE UNCHANGED slot
    BY <2>1 DEF slot, SlotTypeOK
  <2>2. CASE StreamFrom(ParseLsn(checkpoint)) /\ statuses' = <<>> /\ UNCHANGED confirmed
    BY <2>2, EmptySequences DEF StreamFrom, SlotTypeOK
  <2> QED
    BY <1>1, <2>1, <2>2 DEF StartReplication
<1>2. CASE ReceiveRecord
  BY <1>2, LenWal DEF ReceiveRecord, SlotTypeOK, Records
<1>3. CASE AnswerKeepalive
  BY <1>3, AppendProperties DEF AnswerKeepalive, WriteStatus, SlotTypeOK
<1>4. CASE SendStatus
  <2>1. Wal[record].lsn \in Positions
    BY <1>4, PositionTypes DEF SendStatus, Goto, ProcessTypeOK
  <2> QED
    BY <1>4, <2>1, AppendProperties DEF SendStatus, WriteStatus, SlotTypeOK
<1>5. CASE HandleStatus
  BY <1>5, HeadTailProperties DEF HandleStatus, Larger, SlotTypeOK
<1>6. CASE UNCHANGED slot
  BY <1>6 DEF slot, SlotTypeOK
<1>7. CASE Run /\ ~StartReplication
  BY <1>6, <1>7 DEF Run, InitializeConnections, LoadCheckpoint, TakeReceiver
<1>8. CASE LoseConnection \/ Decode \/ ProcessMessage
  BY <1>6, <1>8 DEF LoseConnection, Decode, ProcessMessage
<1>9. CASE PeriodicCheckpoint \/ TakeShutdown \/ FinalCheckpoint
  BY <1>6, <1>9 DEF PeriodicCheckpoint, TakeShutdown, FinalCheckpoint
<1>10. CASE Backoff \/ RequestStop \/ Crash \/ Damage \/ RemoveDamaged \/ Restart
  BY <1>6, <1>10 DEF Backoff, RequestStop, Crash, Damage, RemoveDamaged, Restart
<1>11. CASE UNCHANGED vars
  BY <1>6, <1>11 DEF vars
<1> QED
  BY <1>1, <1>2, <1>3, <1>4, <1>5, <1>7, <1>8, <1>9, <1>10, <1>11
     DEF Next, Run, Loop, Environment

\* Every step keeps checkpoint, topic, dropped and skipped well typed.
LEMMA OutcomeTypes == TypeOK /\ [Next]_vars => OutcomeTypeOK'
<1> SUFFICES ASSUME ProcessTypeOK, OutcomeTypeOK, [Next]_vars
             PROVE  OutcomeTypeOK'
  BY DEF TypeOK
<1>1. CASE Decode
  BY <1>1 DEF Decode, file, OutcomeTypeOK, ProcessTypeOK, Changes
<1>2. CASE ProcessMessage
  <2>1. record \in Records
    BY <1>2 DEF ProcessMessage, Goto, ProcessTypeOK
  <2> QED
    BY <1>2, <2>1, AppendProperties DEF ProcessMessage, file, OutcomeTypeOK
<1>3. CASE PeriodicCheckpoint \/ FinalCheckpoint
  BY <1>3 DEF PeriodicCheckpoint, FinalCheckpoint, SaveCheckpoint, file,
              OutcomeTypeOK, ProcessTypeOK
<1>4. CASE Damage \/ RemoveDamaged
  BY <1>4, ZeroPosition DEF Damage, RemoveDamaged, OutcomeTypeOK
<1>5. CASE UNCHANGED <<file, topic, dropped, skipped>>
  BY <1>5 DEF file, OutcomeTypeOK
<1> QED
  BY <1>1, <1>2, <1>3, <1>4, <1>5
     DEF Next, Run, Loop, Environment, InitializeConnections, LoadCheckpoint,
         StartReplication, TakeReceiver, ReceiveRecord, AnswerKeepalive,
         LoseConnection, SendStatus, TakeShutdown, Backoff, RequestStop, Crash,
         Restart, HandleStatus, file, vars

\* Every step keeps the counters well typed and within their bounds.
LEMMA CounterTypes == TypeOK /\ [Next]_vars => CounterTypeOK'
<1> SUFFICES ASSUME CounterTypeOK, [Next]_vars
             PROVE  CounterTypeOK'
  BY DEF TypeOK
<1>1. \/ Fault
      \/ RequestStop
      \/ UNCHANGED bounds
  BY DEF Next, Run, Loop, Environment, InitializeConnections, LoadCheckpoint,
         StartReplication, TakeReceiver, ReceiveRecord, AnswerKeepalive,
         LoseConnection, SendStatus, Decode, ProcessMessage,
         PeriodicCheckpoint, SaveCheckpoint, TakeShutdown, FinalCheckpoint,
         Backoff, Crash, Damage, RemoveDamaged, Restart, HandleStatus, vars
<1>2. faults' \in 0 .. MaxFaults /\ stops' \in 0 .. MaxStops
  BY <1>1, ParameterAssumption
     DEF Fault, RequestStop, bounds, CounterTypeOK, ParameterAssumption
<1>3. /\ sessions' \in {sessions, sessions + 1}
      /\ streamed' \in {0, streamed, streamed + 1}
  BY DEF Next, Run, Loop, Environment, InitializeConnections, LoadCheckpoint,
         StartReplication, TakeReceiver, ReceiveRecord, AnswerKeepalive,
         LoseConnection, SendStatus, Decode, ProcessMessage,
         PeriodicCheckpoint, TakeShutdown, FinalCheckpoint,
         Backoff, RequestStop, Crash, Damage, RemoveDamaged,
         Restart, HandleStatus, history, vars
<1> QED
  BY <1>2, <1>3 DEF CounterTypeOK

\* Every step preserves type correctness.
LEMMA TypeStep == TypeOK /\ [Next]_vars => TypeOK'
BY ProcessTypes, SlotTypes, OutcomeTypes, CounterTypes DEF TypeOK

\* Every reachable state is well typed.
THEOREM TypeCorrect == Spec => []TypeOK
BY TypeInit, TypeStep, PTL DEF Spec

-----------------------------------------------------------------------------
(* No silent loss                                                          *)

\* A status update reports the position the process has just taken over.
LsnOfRecord == pc = "status" => currentLsn = Wal[record].lsn

\* process_message is only given what the decoder made a message of.
MessageInHand == pc = "process" => DecodeResult(record) = "message"

\* The inductive invariant: safe resume points, kept safe by reading in order.
IInv == TypeOK /\ NoSilentLoss /\ ReadPrefixHandled /\ LsnOfRecord /\ MessageInHand

\* Publishing appends to the topic, giving up adds to dropped and making nothing
\* of a change to skipped: what is handled stays handled.
LEMMA HandledGrows == TypeOK /\ [Next]_vars => Handled \subseteq Handled'
<1> SUFFICES ASSUME TypeOK, [Next]_vars PROVE Handled \subseteq Handled'
  OBVIOUS
<1>1. topic \in Seq(Records) /\ (pc = "process" => record \in Records)
  BY DEF TypeOK, OutcomeTypeOK, ProcessTypeOK
<1>2. dropped \subseteq dropped' /\ skipped \subseteq skipped'
  BY DEF Next, Run, Loop, Environment, InitializeConnections, LoadCheckpoint,
         StartReplication, TakeReceiver, ReceiveRecord, AnswerKeepalive,
         LoseConnection, SendStatus, Decode, ProcessMessage,
         PeriodicCheckpoint, TakeShutdown, FinalCheckpoint,
         Backoff, RequestStop, Crash, Damage, RemoveDamaged,
         Restart, HandleStatus, vars
<1>3. topic' = topic \/ (pc = "process" /\ topic' = Append(topic, record))
  BY DEF Next, Run, Loop, Environment, InitializeConnections, LoadCheckpoint,
         StartReplication, TakeReceiver, ReceiveRecord, AnswerKeepalive,
         LoseConnection, SendStatus, Decode, ProcessMessage, Goto,
         PeriodicCheckpoint, TakeShutdown, FinalCheckpoint,
         Backoff, RequestStop, Crash, Damage, RemoveDamaged,
         Restart, HandleStatus, vars
<1>4. Published \subseteq Published'
  <2>1. CASE topic' = topic
    BY <2>1 DEF Published
  <2>2. CASE pc = "process" /\ topic' = Append(topic, record)
    <3>1. \A k \in DOMAIN topic : k \in DOMAIN topic' /\ topic'[k] = topic[k]
      BY <1>1, <2>2, AppendProperties, LenProperties
    <3> QED
      BY <3>1 DEF Published
  <2> QED
    BY <1>3, <2>1, <2>2
<1> QED
  BY <1>2, <1>4 DEF Handled, Accounted

\* A published record is handled.
LEMMA AppendHandles ==
    ASSUME TypeOK, record \in Records, topic' = Append(topic, record)
    PROVE  record \in Handled'
<1>1. topic \in Seq(Records)
  BY DEF TypeOK, OutcomeTypeOK
<1>2. Len(topic) + 1 \in DOMAIN topic' /\ topic'[Len(topic) + 1] = record
  BY <1>1, AppendProperties, LenProperties
<1> QED
  BY <1>2 DEF Handled, Accounted, Published

\* The position before the first record covers nothing.
LEMMA CoveredZero == Covered(0) /\ Covered(None)
BY RecordTypes DEF Covered, Changes, None

\* The inductive invariant holds at the start: nothing is covered, nothing read.
LEMMA InitSafe == Init => IInv
<1> SUFFICES ASSUME Init PROVE IInv
  OBVIOUS
<1>1. Covered(confirmed) /\ Covered(ParseLsn(checkpoint)) /\ Covered(currentLsn)
  BY CoveredZero, LsnSurvivesText DEF Init
<1>2. \A k \in DOMAIN statuses : Covered(statuses[k])
  BY DEF Init
<1> QED
  BY <1>1, <1>2, TypeInit DEF Init, IInv, NoSilentLoss, ReadPrefixHandled, LsnOfRecord,
                                  MessageInHand

\* While the loop reads, everything before the next record is handled, but for
\* the record in hand: the decoder turns every change into a message, an error or
\* nothing, and the loop handles the one, logs the other and goes on.
LEMMA ReadPrefixStep ==
    ASSUME IInv, [Next]_vars
    PROVE  ReadPrefixHandled'
<1>1. Handled \subseteq Handled'
  BY HandledGrows DEF IInv
<1>2. \A i \in Changes : i \in Records
  BY DEF Changes
<1> USE DEF Goto
<1>3. CASE InitializeConnections \/ LoadCheckpoint \/ LoseConnection \/ Backoff
            \/ Crash \/ RemoveDamaged \/ Restart
  BY <1>3 DEF InitializeConnections, LoadCheckpoint, LoseConnection, Backoff,
              Crash, RemoveDamaged, Restart, FailRun, ReadPrefixHandled, process
<1>4. CASE StartReplication
  <2>1. CASE FailRun
    BY <2>1 DEF FailRun, ReadPrefixHandled
  <2>2. CASE StreamFrom(ParseLsn(checkpoint))
    <3>1. \A i \in Changes : i < cursor' => 
                      Wal[i].commit <= Larger(ParseLsn(checkpoint), confirmed)
      BY <1>2, <2>2 DEF StreamFrom
    <3>2. \A i \in Changes : i < cursor' => i \in Handled
      BY <3>1 DEF IInv, NoSilentLoss, Covered, Larger
    <3> QED
      BY <1>1, <3>2 DEF ReadPrefixHandled
  <2> QED
    BY <1>4, <2>1, <2>2 DEF StartReplication
<1>5. CASE TakeReceiver
  BY <1>1, <1>5 DEF TakeReceiver, FailRun, IInv, ReadPrefixHandled, slot
<1>6. CASE ReceiveRecord
  <2>1. \A i \in Changes : i < cursor' => i \in Handled \/ i = record'
    <3>1. \A i \in Changes : i < cursor' => i < cursor \/ i = cursor
      BY <1>2, <1>6 DEF ReceiveRecord, Records
    <3> QED
      BY <1>6, <3>1 DEF ReceiveRecord, IInv, ReadPrefixHandled
  <2> QED
    BY <1>1, <1>6, <2>1 DEF ReceiveRecord, ReadPrefixHandled
<1>7. CASE AnswerKeepalive
  BY <1>1, <1>7 DEF AnswerKeepalive, FailRun, IInv, ReadPrefixHandled
<1>8. CASE SendStatus
  BY <1>1, <1>8 DEF SendStatus, IInv, ReadPrefixHandled
<1>9. CASE Decode
  <2>1. record \in Changes => \/ pc' = "process"
                              \/ record \in dropped' \/ record \in skipped'
    BY <1>9 DEF Decode, DecodeResult
  <2>2. record \in dropped' \/ record \in skipped' => record \in Handled'
    BY DEF Handled, Accounted
  <2>3. \A i \in Changes : i < cursor => i \in Handled \/ i = record
    BY <1>9 DEF Decode, IInv, ReadPrefixHandled
  <2> QED
    BY <1>1, <1>9, <2>1, <2>2, <2>3 DEF Decode, ReadPrefixHandled, slot
<1>10. CASE ProcessMessage
  <2>1. \A i \in Changes : i < cursor => i \in Handled \/ i = record
    BY <1>10 DEF ProcessMessage, IInv, ReadPrefixHandled
  <2>2. record \in Changes => record \in Handled'
    <3>1. record \in Changes => Wal[record].kind = "change"
      BY <1>10 DEF ProcessMessage, IInv, MessageInHand, DecodeResult, Changes
    <3>2. CASE topic' = Append(topic, record) /\ record \in Records
      BY <3>2, AppendHandles DEF IInv
    <3>3. CASE record \in dropped'
      BY <3>3 DEF Handled, Accounted
    <3> QED
      BY <1>2, <1>10, <3>1, <3>2, <3>3 DEF ProcessMessage
  <2> QED
    BY <1>1, <1>10, <2>1, <2>2 DEF ProcessMessage, ReadPrefixHandled, slot
<1>11. CASE PeriodicCheckpoint \/ TakeShutdown \/ FinalCheckpoint
  BY <1>1, <1>11 DEF PeriodicCheckpoint, TakeShutdown, FinalCheckpoint, IInv,
                     ReadPrefixHandled, slot
<1>12. CASE RequestStop
  BY <1>1, <1>12 DEF RequestStop, IInv, ReadPrefixHandled, slot
<1>13. CASE Damage \/ HandleStatus \/ UNCHANGED vars
  BY <1>1, <1>13 DEF Damage, HandleStatus, vars, process, slot, IInv, ReadPrefixHandled
<1> QED
  BY <1>3, <1>4, <1>5, <1>6, <1>7, <1>8, <1>9, <1>10, <1>11, <1>12, <1>13
     DEF Next, Run, Loop, Environment

\* Every resume point stays covered.
LEMMA NoSilentLossStep ==
    ASSUME IInv, [Next]_vars
    PROVE  NoSilentLoss'
<1>1. \A lsn : Covered(lsn) => \A i \in Changes : Wal[i].commit <= lsn => i \in Handled'
  BY HandledGrows DEF IInv, Covered
<1> DEFINE CoveredNext(lsn) == \A i \in Changes : Wal[i].commit <= lsn => i \in Handled'
<1>2. /\ CoveredNext(confirmed)
      /\ CoveredNext(ParseLsn(checkpoint))
      /\ CoveredNext(currentLsn)
      /\ \A k \in DOMAIN statuses : CoveredNext(statuses[k])
  BY <1>1 DEF IInv, NoSilentLoss
<1>3. statuses \in Seq(Positions) /\ Positions \subseteq Nat
  BY PositionTypes DEF IInv, TypeOK, SlotTypeOK
<1>4. \A i \in Changes : i \in Records
  BY DEF Changes
<1>5. CoveredNext(0) /\ CoveredNext(None)
  BY <1>1, CoveredZero
<1> HIDE DEF CoveredNext
<1>6. CoveredNext(confirmed')
  <2>1. CASE HandleStatus
    <3>1. CoveredNext(Head(statuses))
      BY <1>2, <1>3, <2>1 DEF HandleStatus
    <3> QED
      BY <1>2, <2>1, <3>1 DEF HandleStatus, Larger
  <2>2. CASE confirmed' = confirmed
    BY <1>2, <2>2
  <2> QED
    BY <2>1, <2>2
       DEF Next, Run, Loop, Environment, InitializeConnections, LoadCheckpoint,
         StartReplication, TakeReceiver, ReceiveRecord, AnswerKeepalive,
         LoseConnection, SendStatus, Decode, ProcessMessage, PeriodicCheckpoint,
         TakeShutdown, FinalCheckpoint, Backoff, RequestStop, Crash, Damage,
         RemoveDamaged, Restart, vars, slot
<1>7. CoveredNext(ParseLsn(checkpoint'))
  <2>1. \/ checkpoint' \in {checkpoint, FormatLsn(0)}
        \/ currentLsn # None /\ checkpoint' = FormatLsn(currentLsn)
    BY DEF Next, Run, Loop, Environment, InitializeConnections, LoadCheckpoint,
         StartReplication, TakeReceiver, ReceiveRecord, AnswerKeepalive,
         LoseConnection, SendStatus, Decode, ProcessMessage, PeriodicCheckpoint,
         SaveCheckpoint, TakeShutdown, FinalCheckpoint, Backoff, RequestStop,
         Crash, Damage, RemoveDamaged, Restart, HandleStatus, file, vars
  <2>2. /\ currentLsn # None => ParseLsn(FormatLsn(currentLsn)) = currentLsn
        /\ ParseLsn(FormatLsn(0)) = 0
    BY LsnSurvivesText, PositionTypes DEF IInv, TypeOK, ProcessTypeOK
  <2> QED
    BY <1>2, <1>5, <2>1, <2>2
<1>8. CoveredNext(currentLsn')
  <2>1. CASE ReceiveRecord
    <3>1. \A i \in Changes : i < cursor => i \in Handled
      BY <2>1 DEF ReceiveRecord, Goto, IInv, ReadPrefixHandled
    <3>2. \A i \in Changes : Wal[i].commit <= Wal[cursor].lsn => i < cursor
      BY <2>1, LsnCoversOnlyEarlier DEF ReceiveRecord
    <3>3. Handled \subseteq Handled'
      BY HandledGrows DEF IInv
    <3> QED
      BY <2>1, <3>1, <3>2, <3>3 DEF ReceiveRecord, CoveredNext
  <2>2. CASE Restart
    BY <1>5, <2>2 DEF Restart
  <2>3. CASE currentLsn' = currentLsn
    BY <1>2, <2>3
  <2> QED
    BY <2>1, <2>2, <2>3
       DEF Next, Run, Loop, Environment, InitializeConnections, LoadCheckpoint,
         StartReplication, TakeReceiver, AnswerKeepalive, LoseConnection,
         SendStatus, Decode, ProcessMessage, PeriodicCheckpoint, TakeShutdown,
         FinalCheckpoint, Backoff, RequestStop, Crash, Damage, RemoveDamaged,
         HandleStatus, process, vars
<1>9. \A k \in DOMAIN statuses' : CoveredNext(statuses'[k])
  <2>1. ASSUME NEW lsn \in Positions, CoveredNext(lsn),
               statuses' = Append(statuses, lsn)
        PROVE  \A k \in DOMAIN statuses' : CoveredNext(statuses'[k])
    <3>1. \A k \in DOMAIN statuses' : k \in DOMAIN statuses \/ k = Len(statuses) + 1
      BY <1>3, <2>1, AppendProperties, LenProperties
    <3>2. \A k \in DOMAIN statuses : statuses'[k] = statuses[k]
      BY <1>3, <2>1, AppendProperties, LenProperties
    <3>3. statuses'[Len(statuses) + 1] = lsn
      BY <1>3, <2>1, AppendProperties
    <3> QED
      BY <1>2, <2>1, <3>1, <3>2, <3>3
  <2>2. CASE AnswerKeepalive
    <3>1. CASE statuses' = statuses
      BY <1>2, <3>1
    <3>2. CASE \E lsn \in Positions :
                  /\ \A i \in Records : i >= cursor => Wal[i].commit > lsn
                  /\ statuses' = Append(statuses, lsn)
      <4>1. PICK lsn \in Positions :
                  /\ \A i \in Records : i >= cursor => Wal[i].commit > lsn
                  /\ statuses' = Append(statuses, lsn)
        BY <3>2
      <4>2. \A i \in Changes : Wal[i].commit <= lsn => i < cursor
        <5>1. cursor \in Int /\ \A i \in Records : i \in Int /\ Wal[i].commit \in Int
          BY LenWal, RecordTypes DEF IInv, TypeOK, SlotTypeOK, Records
        <5> QED
          BY <1>3, <1>4, <4>1, <5>1
      <4>3. \A i \in Changes : i < cursor => i \in Handled
        BY <2>2 DEF AnswerKeepalive, IInv, ReadPrefixHandled
      <4>4. CoveredNext(lsn)
        BY <4>2, <4>3, HandledGrows DEF IInv, CoveredNext
      <4> QED
        BY <2>1, <4>1, <4>4
    <3> QED
      BY <2>2, <3>1, <3>2 DEF AnswerKeepalive, WriteStatus
  <2>3. CASE SendStatus
    <3>1. record \in Records /\ currentLsn = Wal[record].lsn
      BY <2>3 DEF SendStatus, Goto, IInv, LsnOfRecord, TypeOK, ProcessTypeOK
    <3>2. CASE statuses' = statuses
      BY <1>2, <3>2
    <3>3. CASE statuses' = Append(statuses, Wal[record].lsn)
      BY <1>2, <2>1, <3>1, <3>3, PositionTypes
    <3> QED
      BY <2>3, <3>2, <3>3 DEF SendStatus, WriteStatus
  <2>4. CASE HandleStatus
    <3>1. \A k \in DOMAIN statuses' : k + 1 \in DOMAIN statuses /\ statuses'[k] = statuses[k + 1]
      BY <1>3, <2>4, HeadTailProperties, LenProperties DEF HandleStatus
    <3> QED
      BY <1>2, <3>1
  <2>5. CASE statuses' = <<>>
    BY <2>5
  <2>6. CASE statuses' = statuses
    BY <1>2, <2>6
  <2> QED
    BY <2>2, <2>3, <2>4, <2>5, <2>6
       DEF Next, Run, Loop, Environment, InitializeConnections, LoadCheckpoint,
         StartReplication, TakeReceiver, ReceiveRecord, LoseConnection, Decode,
         ProcessMessage, PeriodicCheckpoint, TakeShutdown, FinalCheckpoint,
         Backoff, RequestStop, Crash, Damage, RemoveDamaged, Restart, slot, vars
<1>10. PayloadTagged => skipped' = {}
  <2>1. PayloadTagged => skipped = {}
    BY DEF IInv, NoSilentLoss
  <2>2. CASE Decode
    <3>1. PayloadTagged /\ DecodeResult(record) = "none" => record \notin Changes
      BY DEF DecodeResult, Changes
    <3> QED
      BY <2>1, <2>2, <3>1 DEF Decode
  <2>3. CASE skipped' = skipped
    BY <2>1, <2>3
  <2> QED
    BY <2>2, <2>3
       DEF Next, Run, Loop, Environment, InitializeConnections, LoadCheckpoint,
         StartReplication, TakeReceiver, ReceiveRecord, AnswerKeepalive,
         LoseConnection, SendStatus, ProcessMessage, PeriodicCheckpoint,
         TakeShutdown, FinalCheckpoint, Backoff, RequestStop, Crash, Damage,
         RemoveDamaged, Restart, HandleStatus, vars
<1> QED
  BY <1>6, <1>7, <1>8, <1>9, <1>10 DEF CoveredNext, NoSilentLoss, Covered

\* The two facts about the record in hand.
LEMMA RecordStep ==
    ASSUME IInv, [Next]_vars
    PROVE  LsnOfRecord' /\ MessageInHand'
<1>1. CASE ReceiveRecord \/ Decode \/ SendStatus \/ ProcessMessage
  BY <1>1 DEF ReceiveRecord, Decode, SendStatus, ProcessMessage, Goto,
              DecodeResult, LsnOfRecord, MessageInHand
<1>2. CASE Run \/ Backoff \/ Crash \/ Restart
  BY <1>2 DEF Run, Backoff, Crash, Restart, InitializeConnections,
              LoadCheckpoint, StartReplication, TakeReceiver, FailRun, Goto,
              LsnOfRecord, MessageInHand
<1>3. CASE LoseConnection \/ PeriodicCheckpoint \/ TakeShutdown \/ FinalCheckpoint
  BY <1>3 DEF LoseConnection, PeriodicCheckpoint, TakeShutdown, FinalCheckpoint,
              FailRun, Goto, LsnOfRecord, MessageInHand
<1>4. CASE AnswerKeepalive
  BY <1>4 DEF AnswerKeepalive, FailRun, LsnOfRecord, MessageInHand
<1>5. CASE RequestStop \/ Damage \/ RemoveDamaged \/ HandleStatus \/ UNCHANGED vars
  BY <1>5 DEF RequestStop, Damage, RemoveDamaged, HandleStatus, vars, process, IInv, LsnOfRecord,
              MessageInHand, DecodeResult
<1> QED
  BY <1>1, <1>2, <1>3, <1>4, <1>5 DEF Next, Loop, Environment

\* The invariant holds in every reachable state.
LEMMA Invariant == Spec => []IInv
<1>1. IInv /\ [Next]_vars => IInv'
  BY TypeStep, NoSilentLossStep, ReadPrefixStep, RecordStep DEF IInv
<1> QED
  BY InitSafe, <1>1, PTL DEF Spec

\* No resume point, the slot's, the file's or any other, ever runs ahead of what
\* replication_loop has dealt with, through any number of faults, stops, crashes
\* and restarts; and a decoder that recognises its input skips no change.
THEOREM NoSilentLossHolds == Spec => []NoSilentLoss
<1>1. IInv => NoSilentLoss
  BY DEF IInv
<1> QED
  BY Invariant, <1>1, PTL

\* Nor is a change read past unhandled: the loop finishes one record before it
\* reads the next, and no session begins behind an unhandled change.
THEOREM ReadPrefixHandledHolds == Spec => []ReadPrefixHandled
<1>1. IInv => ReadPrefixHandled
  BY DEF IInv
<1> QED
  BY Invariant, <1>1, PTL

-----------------------------------------------------------------------------
(* Repetitions                                                             *)

\* The stream moves on by one record at a time.
CursorAfterRecord ==
    pc \in {"status", "decode", "process", "periodic"} => cursor = record + 1

\* The first session of a process takes its receiver, and there is no second.
OneReceiver == streamed = IF receiver = "present" THEN 0 ELSE 1

\* The places of a record in the topic.
Places(i) == {k \in DOMAIN topic : topic[k] = i}

\* Every session publishes a record at most once: what the present session has
\* yet to deal with was published at most in the sessions before.
OncePerSession ==
    \A i \in Records :
        /\ Cardinality(Places(i)) <= sessions
        /\ pc \in SessionPoints /\ i >= NextToHandle =>
               Cardinality(Places(i)) < sessions

\* The inductive invariant about repetitions.
RepetitionInv == TypeOK /\ CursorAfterRecord /\ OneReceiver /\ OncePerSession

\* A record has finitely many places in the topic, one more if it is published
\* once more.
LEMMA PlacesGrow ==
    ASSUME TypeOK
    PROVE  /\ \A i : Cardinality(Places(i)) \in Nat
           /\ \A i, j : topic' = Append(topic, j) =>
                 Cardinality(Places(i)') = IF i = j THEN Cardinality(Places(i)) + 1
                                           ELSE Cardinality(Places(i))
<1>1. topic \in Seq(Records) /\ Len(topic) \in Nat /\ DOMAIN topic = 1 .. Len(topic)
  BY LenProperties DEF TypeOK, OutcomeTypeOK
<1>2. \A i : IsFiniteSet(Places(i))
  <2>1. IsFiniteSet(1 .. Len(topic))
    BY <1>1, FS_Interval
  <2> QED
    BY <1>1, <2>1, FS_Subset DEF Places
<1>3. ASSUME NEW i, NEW j, topic' = Append(topic, j)
      PROVE  Cardinality(Places(i)') = IF i = j THEN Cardinality(Places(i)) + 1
                                       ELSE Cardinality(Places(i))
  <2>1. /\ DOMAIN topic' = 1 .. Len(topic) + 1
        /\ \A k \in 1 .. Len(topic) : topic'[k] = topic[k]
        /\ topic'[Len(topic) + 1] = j
    BY <1>1, <1>3
  <2>2. CASE i = j
    <3>1. Places(i)' = Places(i) \union {Len(topic) + 1}
      BY <1>1, <2>1, <2>2 DEF Places
    <3>2. Len(topic) + 1 \notin Places(i)
      BY <1>1 DEF Places
    <3> QED
      BY <1>2, <2>2, <3>1, <3>2, FS_AddElement
  <2>3. CASE i # j
    <3>1. Places(i)' = Places(i)
      BY <1>1, <2>1, <2>3 DEF Places
    <3> QED
      BY <2>3, <3>1
  <2> QED
    BY <2>2, <2>3
<1> QED
  BY <1>2, <1>3, FS_CardinalityType

\* Nothing is published at the start.
LEMMA RepetitionInit == Init => RepetitionInv
<1> SUFFICES ASSUME Init PROVE RepetitionInv
  OBVIOUS
<1>1. \A i : Places(i) = {}
  BY DEF Init, Places
<1>2. OncePerSession
  BY <1>1, FS_EmptySet DEF Init, OncePerSession, SessionPoints
<1> QED
  BY <1>2, TypeInit DEF Init, RepetitionInv, CursorAfterRecord, OneReceiver

\* Reading moves the cursor past the record in hand, and the loop lets go of the
\* one before it moves the other.
LEMMA CursorStep == RepetitionInv /\ [Next]_vars => CursorAfterRecord'
<1> SUFFICES ASSUME RepetitionInv, [Next]_vars PROVE CursorAfterRecord'
  OBVIOUS
<1> USE DEF RepetitionInv, CursorAfterRecord, Goto
<1>1. CASE Run \/ Backoff \/ Crash \/ Restart
  BY <1>1 DEF Run, Backoff, Crash, Restart, InitializeConnections,
              LoadCheckpoint, StartReplication, TakeReceiver, FailRun
<1>2. CASE ReceiveRecord \/ AnswerKeepalive \/ LoseConnection
  BY <1>2 DEF ReceiveRecord, AnswerKeepalive, LoseConnection, FailRun
<1>3. CASE SendStatus \/ Decode \/ ProcessMessage
  BY <1>3 DEF SendStatus, Decode, ProcessMessage, slot
<1>4. CASE PeriodicCheckpoint \/ TakeShutdown \/ FinalCheckpoint
  BY <1>4 DEF PeriodicCheckpoint, TakeShutdown, FinalCheckpoint
<1>5. CASE RequestStop \/ Damage \/ RemoveDamaged \/ HandleStatus \/ UNCHANGED vars
  BY <1>5 DEF RequestStop, Damage, RemoveDamaged, HandleStatus, vars, process, slot
<1> QED
  BY <1>1, <1>2, <1>3, <1>4, <1>5 DEF Next, Loop, Environment

\* Only TakeReceiver takes the receiver and counts a session, and only a new
\* process has another.
LEMMA ReceiverStep == RepetitionInv /\ [Next]_vars => OneReceiver'
<1> SUFFICES ASSUME RepetitionInv, [Next]_vars PROVE OneReceiver'
  OBVIOUS
<1> USE DEF RepetitionInv, OneReceiver
<1>1. CASE TakeReceiver
  BY <1>1 DEF TakeReceiver, ReceiverAvailable, history
<1>2. CASE Restart
  BY <1>2 DEF Restart
<1>3. CASE UNCHANGED <<receiver, streamed>>
  BY <1>3
<1> QED
  BY <1>1, <1>2, <1>3
     DEF Next, Run, Loop, Environment, InitializeConnections, LoadCheckpoint,
         StartReplication, ReceiveRecord, AnswerKeepalive, LoseConnection,
         SendStatus, Decode, ProcessMessage, PeriodicCheckpoint, TakeShutdown,
         FinalCheckpoint, Backoff, RequestStop, Crash, Damage, RemoveDamaged,
         HandleStatus, process, history, vars

\* A step that publishes moves the session past what it publishes.
LEMMA OnceStep == RepetitionInv /\ [Next]_vars => OncePerSession'
<1> SUFFICES ASSUME RepetitionInv, [Next]_vars, NEW i \in Records
             PROVE  /\ Cardinality(Places(i)') <= sessions'
                    /\ pc' \in SessionPoints /\ i >= NextToHandle' =>
                          Cardinality(Places(i)') < sessions'
  BY DEF OncePerSession
<1>1. /\ Cardinality(Places(i)) \in Nat
      /\ sessions \in Nat
      /\ i \in Int
      /\ Cardinality(Places(i)) <= sessions
      /\ pc \in SessionPoints /\ i >= NextToHandle =>
             Cardinality(Places(i)) < sessions
  BY PlacesGrow DEF RepetitionInv, TypeOK, CounterTypeOK, OncePerSession, Records
<1>2. topic' = topic => Places(i)' = Places(i)
  BY DEF Places
<1>3. CASE ProcessMessage
  <2>1. /\ pc' = "periodic" /\ NextToHandle' = record + 1
        /\ pc = "process" /\ NextToHandle = record
        /\ sessions' = sessions
        /\ record \in Int
    BY <1>3 DEF ProcessMessage, Goto, RepetitionInv, CursorAfterRecord,
                NextToHandle, SessionPoints, slot, history, TypeOK,
                ProcessTypeOK, Records
  <2>2. CASE topic' = topic
    BY <1>1, <1>2, <2>1, <2>2 DEF SessionPoints
  <2>3. CASE topic' = Append(topic, record)
    BY <1>1, <2>1, <2>3, PlacesGrow DEF RepetitionInv, SessionPoints
  <2> QED
    BY <1>3, <2>2, <2>3 DEF ProcessMessage
<1>4. CASE TakeReceiver
  <2>1. topic' = topic /\ (\/ sessions' = sessions + 1
                           \/ sessions' = sessions /\ pc' \notin SessionPoints)
    BY <1>4 DEF TakeReceiver, FailRun, SessionPoints, history
  <2> QED
    BY <1>1, <1>2, <2>1
<1>5. CASE topic' = topic /\ sessions' = sessions /\ pc' \notin SessionPoints
  BY <1>1, <1>2, <1>5
<1>6. CASE /\ topic' = topic /\ sessions' = sessions
           /\ pc \in SessionPoints /\ NextToHandle' >= NextToHandle
           /\ NextToHandle \in Int /\ NextToHandle' \in Int
  BY <1>1, <1>2, <1>6
<1>7. CASE topic' = topic /\ sessions' = sessions /\ UNCHANGED <<pc, record, cursor>>
  BY <1>1, <1>2, <1>7 DEF NextToHandle
<1> USE DEF Goto, SessionPoints, slot, history
<1>8. record \in Int /\ cursor \in Int
  BY LenWal DEF RepetitionInv, TypeOK, ProcessTypeOK, SlotTypeOK, Records
<1>9. CASE InitializeConnections \/ LoadCheckpoint \/ StartReplication \/ Backoff
            \/ LoseConnection \/ TakeShutdown \/ FinalCheckpoint \/ Crash \/ Restart
  BY <1>5, <1>9 DEF InitializeConnections, LoadCheckpoint, StartReplication, Backoff,
              LoseConnection, TakeShutdown, FinalCheckpoint, Crash, Restart, FailRun
<1>10. CASE AnswerKeepalive
  BY <1>5, <1>7, <1>10 DEF AnswerKeepalive, FailRun
<1>11. CASE ReceiveRecord \/ SendStatus \/ Decode \/ PeriodicCheckpoint
  <2>1. NextToHandle \in Int
    BY <1>8, <1>11 DEF NextToHandle, ReceiveRecord, SendStatus, Decode, PeriodicCheckpoint
  <2>2. NextToHandle' \in {NextToHandle, NextToHandle + 1}
    BY <1>8, <1>11 DEF NextToHandle, ReceiveRecord, SendStatus, Decode,
                       PeriodicCheckpoint, RepetitionInv, CursorAfterRecord
  <2> QED
    BY <1>6, <1>11, <2>1, <2>2 DEF ReceiveRecord, SendStatus, Decode, PeriodicCheckpoint
<1>12. CASE RequestStop \/ Damage \/ RemoveDamaged \/ HandleStatus \/ UNCHANGED vars
  BY <1>7, <1>12 DEF RequestStop, Damage, RemoveDamaged, HandleStatus, process, vars
<1> QED
  BY <1>3, <1>4, <1>9, <1>10, <1>11, <1>12 DEF Next, Run, Loop, Environment

\* Only a restart of the process publishes a change again, for any number of
\* faults, stops and restarts.
THEOREM DuplicatesNeedRestartHolds == Spec => []DuplicatesNeedRestart
<1>1. RepetitionInv /\ [Next]_vars => RepetitionInv'
  BY TypeStep, CursorStep, ReceiverStep, OnceStep DEF RepetitionInv
<1>2. RepetitionInv => DuplicatesNeedRestart
  BY DEF RepetitionInv, OneReceiver, OncePerSession, Places, DuplicatesNeedRestart
<1> QED
  BY RepetitionInit, <1>1, <1>2, PTL DEF Spec

-----------------------------------------------------------------------------
(* The promise to the consumers                                            *)

\* The first delivery of a change comes after all earlier changes.
LEMMA InOrderStep ==
    ASSUME IInv, CursorAfterRecord, FirstDeliveryInOrder, [Next]_vars
    PROVE  FirstDeliveryInOrder'
<1>1. topic \in Seq(Records) /\ dropped \subseteq Records
  BY DEF IInv, TypeOK, OutcomeTypeOK
<1>2. dropped \subseteq dropped' /\ skipped \subseteq skipped'
  BY DEF Next, Run, Loop, Environment, InitializeConnections, LoadCheckpoint,
         StartReplication, TakeReceiver, ReceiveRecord, AnswerKeepalive,
         LoseConnection, SendStatus, Decode, ProcessMessage,
         PeriodicCheckpoint, TakeShutdown, FinalCheckpoint, Backoff, RequestStop,
         Crash, Damage, RemoveDamaged, Restart, HandleStatus, vars
<1>3. CASE topic' = topic
  BY <1>2, <1>3 DEF FirstDeliveryInOrder
<1>4. CASE ProcessMessage /\ topic' = Append(topic, record)
  <2>1. record \in Records /\ cursor = record + 1 /\ pc = "process"
    BY <1>4 DEF ProcessMessage, Goto, IInv, TypeOK, ProcessTypeOK, CursorAfterRecord
  <2>2. /\ Len(topic) \in Nat
        /\ DOMAIN topic = 1 .. Len(topic)
        /\ DOMAIN topic' = 1 .. Len(topic) + 1
        /\ \A k \in 1 .. Len(topic) : topic'[k] = topic[k]
        /\ topic'[Len(topic) + 1] = record
    BY <1>1, <1>4, <2>1, AppendProperties, LenProperties
  <2>3. ASSUME NEW i \in Changes, i < record
        PROVE  i \in dropped \union skipped \/ \E m \in 1 .. Len(topic) : topic'[m] = i
    <3>1. i \in Int /\ record \in Int /\ i < cursor
      BY <2>1, <2>3 DEF Changes, Records
    <3>2. i \in Handled
      BY <2>1, <2>3, <3>1 DEF IInv, ReadPrefixHandled
    <3> QED
      BY <2>2, <3>2 DEF Handled, Accounted, Published
  <2>4. ASSUME NEW k \in 1 .. Len(topic), NEW i \in Changes, i < topic[k]
        PROVE  i \in dropped \union skipped \/ \E m \in 1 .. k - 1 : topic'[m] = i
    BY <2>2, <2>4 DEF FirstDeliveryInOrder
  <2>5. ASSUME NEW k \in DOMAIN topic', NEW i \in Changes, i < topic'[k]
        PROVE  i \in dropped \union skipped \/ \E m \in 1 .. k - 1 : topic'[m] = i
    <3>1. CASE k \in 1 .. Len(topic)
      BY <2>2, <2>4, <2>5, <3>1
    <3>2. CASE k = Len(topic) + 1
      BY <2>2, <2>3, <2>5, <3>2
    <3> QED
      BY <2>2, <3>1, <3>2
  <2> QED
    BY <1>2, <2>5 DEF FirstDeliveryInOrder
<1> QED
  BY <1>3, <1>4
     DEF Next, Run, Loop, Environment, InitializeConnections, LoadCheckpoint,
         StartReplication, TakeReceiver, ReceiveRecord, AnswerKeepalive,
         LoseConnection, SendStatus, Decode, ProcessMessage,
         PeriodicCheckpoint, TakeShutdown, FinalCheckpoint, Backoff, RequestStop,
         Crash, Damage, RemoveDamaged, Restart, HandleStatus, vars

\* Both invariants together with the order of first deliveries.
LEMMA OrderInvariant == Spec => [](IInv /\ CursorAfterRecord /\ FirstDeliveryInOrder)
<1>1. Init => IInv /\ RepetitionInv /\ FirstDeliveryInOrder
  BY InitSafe, RepetitionInit DEF Init, FirstDeliveryInOrder
<1>2. IInv /\ RepetitionInv /\ FirstDeliveryInOrder /\ [Next]_vars
      => IInv' /\ RepetitionInv' /\ FirstDeliveryInOrder'
  <2>1. IInv /\ [Next]_vars => IInv'
    BY TypeStep, NoSilentLossStep, ReadPrefixStep, RecordStep DEF IInv
  <2>2. RepetitionInv /\ [Next]_vars => RepetitionInv'
    BY TypeStep, CursorStep, ReceiverStep, OnceStep DEF RepetitionInv
  <2> QED
    BY <2>1, <2>2, InOrderStep DEF RepetitionInv
<1>3. RepetitionInv => CursorAfterRecord
  BY DEF RepetitionInv
<1> QED
  BY <1>1, <1>2, <1>3, PTL DEF Spec

\* Consumers see changes for the first time in commit order, across any number
\* of faults, stops and restarts.
THEOREM FirstDeliveryInOrderHolds == Spec => []FirstDeliveryInOrder
BY OrderInvariant, PTL

\* Every step of the pipeline is a step of the promise or leaves it alone.
LEMMA StreamStep ==
    ASSUME IInv, CursorAfterRecord, [Next]_vars
    PROVE  [Stream!Next]_(Stream!vars)
<1> USE DEF Goto, SessionPoints, Stream!vars
<1>1. \A i : i \in Changes => i \in Records
  BY DEF Changes
<1>2. /\ record \in Int /\ cursor \in 1 .. Len(Wal) + 1 /\ Len(Wal) \in Nat
      /\ pc \in {"status", "decode", "process", "periodic"} => record \in Records
      /\ 0 \notin Records /\ Records = 1 .. Len(Wal)
  BY LenWal DEF IInv, TypeOK, ProcessTypeOK, SlotTypeOK, Records
<1>3. Stream!Handled = Handled
  BY DEF Stream!Handled, Handled, Accounted, Published
<1>4. ASSUME UNCHANGED <<topic, dropped, skipped>>, NextToHandle' = 0
      PROVE  [Stream!Next]_(Stream!vars)
  BY <1>4 DEF Stream!Next, Stream!Halt
<1>5. CASE InitializeConnections \/ LoadCheckpoint \/ StartReplication \/ Backoff
            \/ LoseConnection
  BY <1>4, <1>5 DEF InitializeConnections, LoadCheckpoint, StartReplication, Backoff,
                    LoseConnection, FailRun, NextToHandle
<1>6. CASE TakeShutdown \/ FinalCheckpoint \/ Crash \/ Restart
  BY <1>4, <1>6 DEF TakeShutdown, FinalCheckpoint, Crash, Restart, NextToHandle
<1>7. CASE TakeReceiver
  <2>1. CASE FailRun
    BY <1>4, <1>7, <2>1 DEF TakeReceiver, FailRun, NextToHandle
  <2>2. CASE pc' = "select"
    <3>1. /\ NextToHandle = 0 /\ NextToHandle' = cursor
          /\ UNCHANGED <<topic, dropped, skipped>>
      BY <1>7, <2>2 DEF TakeReceiver, NextToHandle, slot
    <3>2. \A i \in Changes : i < cursor => i \in Handled
      BY <1>7 DEF TakeReceiver, IInv, ReadPrefixHandled
    <3> QED
      BY <1>2, <1>3, <3>1, <3>2 DEF Stream!Next, Stream!Resume
  <2> QED
    BY <1>7, <2>1, <2>2 DEF TakeReceiver
<1>8. CASE AnswerKeepalive
  <2>1. CASE FailRun
    BY <1>4, <1>8, <2>1 DEF AnswerKeepalive, FailRun, NextToHandle
  <2> QED
    BY <1>8, <2>1 DEF AnswerKeepalive, NextToHandle
<1>9. CASE ReceiveRecord \/ SendStatus \/ PeriodicCheckpoint
  BY <1>9 DEF ReceiveRecord, SendStatus, PeriodicCheckpoint, NextToHandle, slot
<1>10. CASE RequestStop \/ Damage \/ RemoveDamaged \/ HandleStatus \/ UNCHANGED vars
  BY <1>10 DEF RequestStop, Damage, RemoveDamaged, HandleStatus, process, vars, slot,
               NextToHandle
<1>11. ASSUME pc \in {"decode", "process"}, pc' = "periodic", UNCHANGED <<record, cursor>>
       PROVE  /\ NextToHandle = record
              /\ NextToHandle' = NextToHandle + 1
              /\ record \in 1 .. Len(Wal)
  BY <1>2, <1>11 DEF NextToHandle, CursorAfterRecord
<1>12. CASE Decode
  <2>1. CASE DecodeResult(record) = "message"
    BY <1>12, <2>1 DEF Decode, NextToHandle, slot
  <2>2. CASE DecodeResult(record) = "error"
    <3>1. record \in Changes
      BY <1>2, <1>12, <2>2 DEF Decode, DecodeResult, Changes
    <3> QED
      BY <1>11, <1>12, <2>2, <3>1 DEF Decode, slot, Stream!Next, Stream!GiveUp
  <2>3. CASE DecodeResult(record) = "none"
    <3>a. /\ pc = "decode" /\ pc' = "periodic" /\ UNCHANGED <<record, cursor, topic, dropped>>
          /\ skipped' = skipped \union ({record} \intersect Changes)
      BY <1>12, <2>3 DEF Decode, slot
    <3>1. CASE record \notin Changes
      <4>1. skipped' = skipped
        BY <3>a, <3>1
      <4>2. Stream!Pass
        BY <1>11, <3>a, <3>1, <4>1 DEF Stream!Pass
      <4> QED
        BY <4>2 DEF Stream!Next
    <3>2. CASE record \in Changes
      <4>1. ~PayloadTagged
        BY <2>3, <3>2 DEF DecodeResult, Changes
      <4>2. skipped' = skipped \union {record}
        BY <3>a, <3>2
      <4>3. NextToHandle = record /\ NextToHandle' = NextToHandle + 1
        BY <1>11, <3>a
      <4>4. Stream!Overlook
        BY <3>a, <3>2, <4>1, <4>2, <4>3, Zenon DEF Stream!Overlook
      <4> QED
        BY <4>4 DEF Stream!Next
    <3> QED
      BY <3>1, <3>2
  <2> QED
    BY <2>1, <2>2, <2>3 DEF DecodeResult
<1>13. CASE ProcessMessage
  <2>1. /\ pc = "process" /\ pc' = "periodic" /\ UNCHANGED <<record, cursor, skipped>>
        /\ DecodeResult(record) = "message" /\ record \in Records
    BY <1>2, <1>13 DEF ProcessMessage, slot, IInv, MessageInHand
  <2>2. CASE Wal[record].kind # "change"
    <3>1. record \notin Changes
      BY <2>1, <2>2 DEF DecodeResult, Changes
    <3> QED
      BY <1>11, <1>13, <2>1, <2>2, <3>1 DEF ProcessMessage, Stream!Next, Stream!Pass
  <2>3. CASE Wal[record].kind = "change"
    <3>1. record \in Changes
      BY <2>1, <2>3 DEF Changes
    <3>2. CASE topic' = Append(topic, record)
      <4>1. dropped' \in {dropped, dropped \union {record}}
        BY <1>13, <2>3 DEF ProcessMessage
      <4> QED
        BY <1>11, <2>1, <3>1, <3>2, <4>1 DEF Stream!Next, Stream!Deliver
    <3>3. CASE topic' = topic /\ dropped' = dropped \union {record}
      BY <1>11, <2>1, <3>1, <3>3 DEF Stream!Next, Stream!GiveUp
    <3> QED
      BY <1>13, <2>3, <3>2, <3>3 DEF ProcessMessage
  <2> QED
    BY <2>2, <2>3
<1> QED
  BY <1>5, <1>6, <1>7, <1>8, <1>9, <1>10, <1>12, <1>13
     DEF Next, Run, Loop, Environment

\* The pipeline keeps the promise of ChangeStream: changes are taken one by one,
\* each delivered, given up or, only by a decoder that does not recognise its
\* input, overlooked, and no session begins behind one that was not.
THEOREM ChangeStreamImplemented == Spec => ImplementsChangeStream
<1>1. Init => Stream!Init
  BY DEF Init, Stream!Init, NextToHandle, SessionPoints
<1>2. IInv /\ CursorAfterRecord /\ [Next]_vars => [Stream!Next]_(Stream!vars)
  BY StreamStep
<1> QED
  BY OrderInvariant, <1>1, <1>2, PTL DEF Spec, ImplementsChangeStream, Stream!Spec

-----------------------------------------------------------------------------
(* A decoder that does not recognise its input                             *)

\* Nothing has been published and no error was met.
NothingHappened == pc # "process" /\ topic = <<>> /\ dropped = {}

\* The finding that ReplicatorUntagged shows, for every stream and every history:
\* replication_loop hands the decoder WalMessage.data, whose header is already
\* off, and then nothing is ever published and no change is ever given up with an
\* error, however long the pipeline runs and whatever it reports to the server.
THEOREM UntaggedPublishesNothing ==
    ASSUME ~PayloadTagged
    PROVE  Spec => [](topic = <<>> /\ dropped = {})
<1>1. Init => NothingHappened
  BY DEF Init, NothingHappened
<1>2. NothingHappened /\ [Next]_vars => NothingHappened'
  <2> SUFFICES ASSUME NothingHappened, [Next]_vars
               PROVE  NothingHappened'
    OBVIOUS
  <2> USE DEF NothingHappened, Goto, FailRun
  <2>1. CASE Run
    BY <2>1 DEF Run, InitializeConnections, LoadCheckpoint, StartReplication,
                TakeReceiver
  <2>2. CASE ReceiveRecord \/ AnswerKeepalive \/ LoseConnection \/ SendStatus
    BY <2>2 DEF ReceiveRecord, AnswerKeepalive, LoseConnection, SendStatus
  <2>3. CASE Decode
    <3>1. DecodeResult(record) = "none"
      BY DEF DecodeResult
    <3> QED
      BY <2>3, <3>1 DEF Decode
  <2>4. CASE ProcessMessage
    BY <2>4 DEF ProcessMessage
  <2>5. CASE PeriodicCheckpoint \/ TakeShutdown \/ FinalCheckpoint \/ Backoff
    BY <2>5 DEF PeriodicCheckpoint, TakeShutdown, FinalCheckpoint, Backoff
  <2>6. CASE Environment
    BY <2>6 DEF Environment, RequestStop, Crash, Damage, RemoveDamaged, Restart,
                HandleStatus, process
  <2>7. CASE UNCHANGED vars
    BY <2>7 DEF vars, process
  <2> QED
    BY <2>1, <2>2, <2>3, <2>4, <2>5, <2>6, <2>7 DEF Next, Loop
<1>3. NothingHappened => topic = <<>> /\ dropped = {}
  BY DEF NothingHappened
<1> QED
  BY <1>1, <1>2, <1>3, PTL DEF Spec
=============================================================================
