------------------------- MODULE FrameReaderProofs -------------------------
(***************************************************************************)
(* Proofs about FrameReader, whatever the frames, their lengths and kinds, *)
(* and whatever the network does: no time limit harms a stream that        *)
(* arrives in whole frames, and as long as no receive is dropped inside a  *)
(* frame the loop is given every change, and the server every answer, in   *)
(* order and once.                                                         *)
(***************************************************************************)
EXTENDS FrameReader, SequenceTheorems, TLAPS

\* The network has delivered no more than the stream, and nothing but whole
\* frames when it works that way: then no receive is dropped inside a frame.
NetworkKeepsItsWay ==
    /\ arrived <= StreamEnd
    /\ network = "frames" => arrived \in Boundaries /\ cuts = 0

\* read_exact is between the beginning of what it reads and its end.
ReadUnderWay ==
    /\ stage = "header" => start <= taken /\ taken + missing = start + HeaderSize
    /\ stage = "body" => start < taken
    /\ stage = "body" /\ cuts = 0 =>
          \E k \in Frames : start = Start(k) /\ taken + missing = End(k)

\* n frames have been taken off the stream, and what has come of them is what
\* had to: the changes are delivered, the answers have left or will.
Progress(n) ==
    /\ Position(n)
    /\ Lists(delivered, UpTo(n, {"xlog"}))
    /\ Lists(sent \o buffer, UpTo(n, {"xlog", "ask"}))
    /\ stage = "failed" <=> n \in OfKind({"error"})

NothingLost == cuts = 0 => \E n \in 0 .. Len(Ends) : Progress(n)

\* The inductive invariant.
IInv == TypeOK /\ NetworkKeepsItsWay /\ ReadUnderWay /\ NothingLost

-----------------------------------------------------------------------------
(* The stream                                                              *)

\* Every frame ends at some byte.
LEMMA EndType == Len(Ends) \in Nat /\ \A n \in 0 .. Len(Ends) : End(n) \in Nat
BY StreamAssumption DEF StreamAssumption, End

\* Frames lie one behind the other, each with a header at least.
LEMMA EndOrder ==
    \A m, n \in 0 .. Len(Ends) : m < n => End(m) + HeaderSize <= End(n) /\ End(m) < End(n)
<1> SUFFICES ASSUME NEW m \in 0 .. Len(Ends), NEW n \in 0 .. Len(Ends), m < n
             PROVE  End(m) + HeaderSize <= End(n) /\ End(m) < End(n)
  OBVIOUS
<1>1. n \in Frames
  BY EndType DEF Frames
<1>2. End(m) + HeaderSize <= End(n)
  BY <1>1, StreamAssumption DEF StreamAssumption
<1> QED
  BY <1>2, EndType, StreamAssumption DEF StreamAssumption

\* A byte at which a frame ends tells how many frames lie before it.
LEMMA EndUnique == \A m, n \in 0 .. Len(Ends) : End(m) = End(n) => m = n
<1> SUFFICES ASSUME NEW m \in 0 .. Len(Ends), NEW n \in 0 .. Len(Ends), m # n
             PROVE  End(m) # End(n)
  OBVIOUS
<1>1. m < n \/ n < m
  BY EndType
<1> QED
  BY <1>1, EndOrder, EndType

\* The first byte of a frame is the end of the one before it.
LEMMA StartIsEnd ==
    \A k \in Frames : k - 1 \in 0 .. Len(Ends) /\ k \in 0 .. Len(Ends) /\ Start(k) = End(k - 1)
BY EndType DEF Frames, Start

\* The frame that begins behind frame n is frame n + 1, unless the stream ends.
LEMMA NextFrame ==
    ASSUME NEW n \in 0 .. Len(Ends), NEW k \in Frames, Start(k) = End(n)
    PROVE  k = n + 1
<1>1. k - 1 = n
  BY StartIsEnd, EndUnique
<1> QED
  BY <1>1, EndType DEF Frames

LEMMA FrameBegins ==
    ASSUME NEW n \in 0 .. Len(Ends), End(n) < StreamEnd
    PROVE  n + 1 \in Frames /\ Start(n + 1) = End(n)
<1>1. n # Len(Ends)
  BY EndType DEF StreamEnd
<1>2. n + 1 - 1 = n
  BY EndType
<1> QED
  BY <1>1, <1>2, EndType DEF Frames, Start

-----------------------------------------------------------------------------
(* What has been made of the frames                                        *)

\* One more frame counts if it is of the kind.
LEMMA UpToNext ==
    ASSUME NEW n \in Nat, NEW kinds
    PROVE  /\ Kinds[n + 1] \in kinds => UpTo(n + 1, kinds) = UpTo(n, kinds) \union {n + 1}
           /\ Kinds[n + 1] \notin kinds => UpTo(n + 1, kinds) = UpTo(n, kinds)
<1>1. 1 .. n + 1 = (1 .. n) \union {n + 1}
  OBVIOUS
<1> QED
  BY <1>1 DEF UpTo

\* A list grows in order by a frame later than all of them.
LEMMA ListsAppend ==
    ASSUME NEW n \in Nat, NEW kinds, NEW seq \in Seq(Nat),
           Lists(seq, UpTo(n, kinds)), Kinds[n + 1] \in kinds
    PROVE  Lists(Append(seq, n + 1), UpTo(n + 1, kinds))
<1> DEFINE longer == Append(seq, n + 1)
<1>1. /\ Len(seq) \in Nat
      /\ DOMAIN seq = 1 .. Len(seq)
      /\ DOMAIN longer = 1 .. Len(seq) + 1
      /\ \A m \in DOMAIN seq : longer[m] = seq[m]
      /\ longer[Len(seq) + 1] = n + 1
  BY AppendProperties
<1>2. DOMAIN longer = DOMAIN seq \union {Len(seq) + 1}
  BY <1>1
<1>3. \A m \in DOMAIN seq : seq[m] \in UpTo(n, kinds)
  BY DEF Lists
<1>4. \A m \in DOMAIN seq : seq[m] \in Nat /\ seq[m] < n + 1
  BY <1>3 DEF UpTo
<1>5. {longer[m] : m \in DOMAIN longer} = UpTo(n, kinds) \union {n + 1}
  BY <1>1, <1>2 DEF Lists
<1>6. \A l, m \in DOMAIN longer : l < m => longer[l] < longer[m]
  <2> SUFFICES ASSUME NEW l \in DOMAIN longer, NEW m \in DOMAIN longer, l < m
               PROVE  longer[l] < longer[m]
    OBVIOUS
  <2>1. l \in DOMAIN seq
    BY <1>1
  <2>2. CASE m \in DOMAIN seq
    BY <2>1, <2>2, <1>1 DEF Lists
  <2>3. CASE m = Len(seq) + 1
    BY <2>1, <2>3, <1>1, <1>4
  <2> QED
    BY <2>2, <2>3, <1>2
<1> QED
  BY <1>5, <1>6, UpToNext DEF Lists

\* The answers are frames.
LEMMA AnswersType ==
    ASSUME TypeOK
    PROVE  {sent, buffer, sent \o buffer, delivered} \subseteq Seq(Nat)
<1>1. \A seq \in Seq(Frames) : seq \in Seq(Nat)
  BY EndType, SeqMonotonic DEF Frames
<1>2. {sent, buffer, delivered} \subseteq Seq(Nat)
  BY <1>1 DEF TypeOK
<1> QED
  BY <1>2, ConcatProperties

\* An answer joins the others at the end of the buffer ...
LEMMA AnswerJoins ==
    ASSUME TypeOK, NEW k
    PROVE  sent \o Append(buffer, k) = Append(sent \o buffer, k)
BY DEF TypeOK

\* ... and leaves it at its head: the list of the answers stays what it is.
LEMMA AnswerLeaves ==
    ASSUME TypeOK, buffer # <<>>
    PROVE  /\ Append(sent, Head(buffer)) \o Tail(buffer) = sent \o buffer
           /\ Head(buffer) \in Frames
           /\ Tail(buffer) \in Seq(Frames)
<1> buffer \in Seq(Frames) /\ sent \in Seq(Frames)
  BY DEF TypeOK
<1>1. Head(buffer) \in Frames /\ Tail(buffer) \in Seq(Frames)
  BY HeadTailProperties
<1>2. buffer = <<Head(buffer)>> \o Tail(buffer)
  OBVIOUS
<1>3. Append(sent, Head(buffer)) \o Tail(buffer) = sent \o buffer
  OBVIOUS
<1> QED
  BY <1>1, <1>3

-----------------------------------------------------------------------------
(* The inductive invariant, action by action                               *)

\* At the beginning nothing has been read.
LEMMA InitInv == Init => IInv
<1> SUFFICES ASSUME Init PROVE IInv
  OBVIOUS
<1>1. TypeOK
  BY DEF Init, TypeOK, Stages
<1>2. 0 \in 0 .. Len(Ends) /\ End(0) = 0
  BY EndType DEF End
<1>3. NetworkKeepsItsWay /\ ReadUnderWay
  BY <1>2, EndType DEF Init, NetworkKeepsItsWay, ReadUnderWay, StreamEnd, Boundaries
<1>4. \A kinds : UpTo(0, kinds) = {}
  BY DEF UpTo
<1>5. sent \o buffer = <<>>
  BY DEF Init
<1>6. Lists(<<>>, {})
  BY DEF Lists
<1>7. 0 \notin OfKind({"error"})
  BY DEF OfKind, Frames
<1>8. Progress(0)
  BY <1>2, <1>4, <1>5, <1>6, <1>7 DEF Init, Progress, Position
<1> QED
  BY <1>1, <1>2, <1>3, <1>8 DEF IInv, NothingLost

\* What the network delivers disturbs nothing that has been read.
LEMMA ArriveInv == IInv /\ Arrive => IInv'
<1> SUFFICES ASSUME IInv, Arrive PROVE IInv'
  OBVIOUS
<1>1. arrived' \in Nat /\ arrived < arrived' /\ arrived' <= StreamEnd
  BY EndType DEF IInv, TypeOK, Arrive, StreamEnd
<1>2. TypeOK'
  BY <1>1 DEF IInv, TypeOK, Arrive, reader, writer
<1>3. NetworkKeepsItsWay'
  BY <1>1 DEF IInv, NetworkKeepsItsWay, Arrive, reader
<1>4. ReadUnderWay' /\ NothingLost'
  BY DEF IInv, ReadUnderWay, NothingLost, Progress, Position, Arrive, reader, writer
<1> QED
  BY <1>2, <1>3, <1>4 DEF IInv

\* A header is read from where the last frame ended.
LEMMA ReadHeaderInv ==
    ASSUME IInv, stage \notin {"header", "body", "failed"}, ReadHeader,
           UNCHANGED <<network, arrived, taken, delivered, cuts, writer>>
    PROVE  IInv'
<1>1. TypeOK'
  BY StreamAssumption
     DEF StreamAssumption, IInv, TypeOK, ReadHeader, Stages, writer
<1>2. NetworkKeepsItsWay'
  BY DEF IInv, NetworkKeepsItsWay
<1>3. ReadUnderWay'
  BY DEF IInv, TypeOK, ReadUnderWay, ReadHeader
<1>4. \A n \in 0 .. Len(Ends) : Progress(n) => Progress(n)'
  BY DEF Progress, Position, ReadHeader, writer
<1> QED
  BY <1>1, <1>2, <1>3, <1>4 DEF IInv, NothingLost

LEMMA ReceiveInv == IInv /\ Receive => IInv'
BY ReadHeaderInv DEF Receive

\* read_exact takes no more than what there is.
LEMMA TakeBytesInv == IInv /\ TakeBytes => IInv'
<1> SUFFICES ASSUME IInv, TakeBytes PROVE IInv'
  OBVIOUS
<1>1. /\ taken' \in Nat
      /\ taken < taken'
      /\ taken' <= arrived
      /\ missing' \in Nat
      /\ taken' + missing' = taken + missing
  BY DEF IInv, TypeOK, TakeBytes, Smaller
<1>2. TypeOK'
  BY <1>1 DEF IInv, TypeOK, TakeBytes, writer
<1>3. NetworkKeepsItsWay'
  BY DEF IInv, NetworkKeepsItsWay, TakeBytes
<1>4. ReadUnderWay'
  BY <1>1 DEF IInv, TypeOK, ReadUnderWay, TakeBytes
<1>5. NothingLost'
  BY DEF IInv, NothingLost, Progress, Position, TakeBytes, writer
<1> QED
  BY <1>2, <1>3, <1>4, <1>5 DEF IInv

\* In step, the header that has been read is that of the next frame.
LEMMA ParseHeaderInv == IInv /\ ParseHeader => IInv'
<1> SUFFICES ASSUME IInv, ParseHeader PROVE IInv'
  OBVIOUS
<1>1. start + HeaderSize = taken /\ start < taken /\ taken <= StreamEnd
  <2>1. StreamEnd \in Nat /\ HeaderSize \in Nat \ {0}
    BY EndType, StreamAssumption DEF StreamAssumption, StreamEnd
  <2>2. start + HeaderSize = taken + missing /\ missing = 0
    BY DEF IInv, ReadUnderWay, ParseHeader
  <2> QED
    BY <2>1, <2>2 DEF IInv, TypeOK, NetworkKeepsItsWay
<1>2. ASSUME NEW k \in Frames, start = Start(k)
      PROVE  End(k) - taken \in Nat
  <2>1. Start(k) + HeaderSize <= End(k)
    BY EndOrder, StartIsEnd
  <2> QED
    BY <1>1, <1>2, <2>1, StartIsEnd, EndType DEF IInv, TypeOK
<1>3. missing' \in Nat
  BY <1>2, StreamAssumption DEF StreamAssumption, ParseHeader
<1>4. TypeOK'
  BY <1>3 DEF IInv, TypeOK, ParseHeader, Stages, writer
<1>5. NetworkKeepsItsWay'
  BY DEF IInv, NetworkKeepsItsWay, ParseHeader
<1>6. cuts = 0 => \E k \in Frames : start = Start(k) /\ taken + missing' = End(k)
  <2> SUFFICES ASSUME cuts = 0
               PROVE  \E k \in Frames : start = Start(k) /\ taken + missing' = End(k)
    OBVIOUS
  <2>1. PICK n \in 0 .. Len(Ends) : start = End(n)
    BY DEF IInv, NothingLost, Progress, Position, ParseHeader
  <2>2. n + 1 \in Frames /\ Start(n + 1) = start
    BY <1>1, <2>1, FrameBegins, EndType DEF StreamEnd, IInv, TypeOK
  <2>3. PICK k \in Frames : start = Start(k) /\ missing' = End(k) - taken
    BY <2>2 DEF ParseHeader
  <2> QED
    BY <2>3, StartIsEnd, EndType DEF IInv, TypeOK
<1>7. ReadUnderWay'
  BY <1>1, <1>6 DEF ParseHeader, ReadUnderWay
<1>8. NothingLost'
  BY DEF IInv, NothingLost, Progress, Position, ParseHeader, writer
<1> QED
  BY <1>4, <1>5, <1>7, <1>8 DEF IInv

\* When the body of a frame is complete, the frame counts as read, whatever
\* becomes of it.
LEMMA HandleInv ==
    ASSUME IInv, stage = "body", missing = 0, NEW k \in Frames, start = Start(k), Handle(k)
    PROVE  IInv'
<1>1. TypeOK'
  <2>1. Append(delivered, k) \in Seq(Frames) /\ Append(buffer, k) \in Seq(Frames)
    BY AppendProperties DEF IInv, TypeOK
  <2>2. {delivered', buffer', sent'} \subseteq Seq(Frames)
    BY <2>1 DEF IInv, TypeOK, Handle
  <2>3. stage' \in Stages /\ start' \in Nat /\ missing' \in Nat
    BY StreamAssumption DEF StreamAssumption, IInv, TypeOK, Handle, ReadHeader, Stages
  <2> QED
    BY <2>2, <2>3 DEF IInv, TypeOK, Handle
<1>2. NetworkKeepsItsWay'
  BY DEF IInv, NetworkKeepsItsWay, Handle
<1>3. ReadUnderWay'
  BY DEF IInv, TypeOK, ReadUnderWay, Handle, ReadHeader
<1>4. NothingLost'
  <2> SUFFICES ASSUME cuts = 0 PROVE \E n \in 0 .. Len(Ends) : Progress(n)'
    BY DEF NothingLost, Handle
  <2>1. PICK n \in 0 .. Len(Ends) : Progress(n)
    BY DEF IInv, NothingLost
  <2>2. start = End(n)
    BY <2>1 DEF Progress, Position
  <2>3. k = n + 1 /\ n \in Nat
    <3>1. Start(k) = End(n)
      BY <2>2
    <3> QED
      BY <3>1, NextFrame, EndType
  <2>4. PICK j \in Frames : start = Start(j) /\ taken + missing = End(j)
    BY DEF IInv, ReadUnderWay
  <2>5. j = k
    <3>1. Start(j) = End(n)
      BY <2>2, <2>4
    <3> QED
      BY <2>3, <3>1, NextFrame
  <2>6. taken = End(k)
    BY <2>4, <2>5 DEF IInv, TypeOK
  <2>7. Position(k)'
    BY <2>6 DEF Position, Handle, ReadHeader
  <2>8. Lists(delivered, UpTo(k, {"xlog"}))'
    <3>1. CASE Kinds[k] = "xlog"
      BY <2>1, <2>3, <3>1, ListsAppend, AnswersType DEF Progress, Handle, IInv
    <3>2. CASE Kinds[k] # "xlog"
      BY <2>1, <2>3, <3>2, UpToNext DEF Progress, Handle
    <3> QED
      BY <3>1, <3>2
  <2>9. Lists(sent \o buffer, UpTo(k, {"xlog", "ask"}))'
    <3>1. CASE Kinds[k] \in {"xlog", "ask"}
      <4>1. sent' \o buffer' = Append(sent \o buffer, k)
        BY <3>1, AnswerJoins DEF Handle, IInv
      <4>2. sent \o buffer \in Seq(Nat)
        BY AnswersType DEF IInv
      <4> QED
        BY <2>1, <2>3, <3>1, <4>1, <4>2, ListsAppend DEF Progress
    <3>2. CASE Kinds[k] \notin {"xlog", "ask"}
      BY <2>1, <2>3, <3>2, UpToNext DEF Progress, Handle
    <3> QED
      BY <3>1, <3>2
  <2>10. stage' = "failed" <=> k \in OfKind({"error"})
    BY DEF Handle, ReadHeader, OfKind
  <2>11. k \in 0 .. Len(Ends)
    BY StartIsEnd
  <2> QED
    BY <2>7, <2>8, <2>9, <2>10, <2>11 DEF Progress
<1> QED
  BY <1>1, <1>2, <1>3, <1>4 DEF IInv

\* Garbage is read as a frame only after a receive has been dropped inside one.
LEMMA FinishFrameInv == IInv /\ FinishFrame => IInv'
<1> SUFFICES ASSUME IInv, FinishFrame PROVE IInv'
  OBVIOUS
<1>1. CASE \E k \in Frames : start = Start(k) /\ Handle(k)
  BY <1>1, HandleInv DEF FinishFrame
<1>2. CASE start \notin {Start(k) : k \in Frames}
  <2>1. ~ \E k \in Frames : start = Start(k)
    BY <1>2
  <2>2. cuts # 0
    BY <2>1 DEF IInv, ReadUnderWay, FinishFrame
  <2>3. /\ UNCHANGED <<network, arrived, taken, delivered, cuts, writer>>
        /\ ReadHeader \/ (stage' = "failed" /\ UNCHANGED <<start, missing>>)
    BY <2>1 DEF FinishFrame
  <2>4. TypeOK'
    BY <2>3, StreamAssumption
       DEF StreamAssumption, IInv, TypeOK, ReadHeader, Stages, writer
  <2>5. NetworkKeepsItsWay' /\ NothingLost'
    BY <2>2, <2>3 DEF IInv, NetworkKeepsItsWay, NothingLost
  <2>6. ReadUnderWay'
    BY <2>3 DEF IInv, TypeOK, ReadUnderWay, ReadHeader
  <2> QED
    BY <2>4, <2>5, <2>6 DEF IInv
<1> QED
  BY <1>1, <1>2 DEF FinishFrame

\* Flushing moves answers, and keeps their list.
LEMMA FlushInv == IInv /\ Flush => IInv'
<1> SUFFICES ASSUME IInv, Flush PROVE IInv'
  OBVIOUS
<1>1. /\ sent' \o buffer' = sent \o buffer
      /\ Head(buffer) \in Frames
      /\ Tail(buffer) \in Seq(Frames)
  BY AnswerLeaves DEF IInv, Flush
<1>2. TypeOK'
  BY <1>1 DEF IInv, TypeOK, Flush, reader
<1>3. NetworkKeepsItsWay' /\ ReadUnderWay'
  BY DEF IInv, NetworkKeepsItsWay, ReadUnderWay, Flush, reader
<1>4. NothingLost'
  BY <1>1 DEF IInv, NothingLost, Progress, Position, Flush, reader
<1> QED
  BY <1>2, <1>3, <1>4 DEF IInv

\* The receive or the loop goes on once its answer has left.
LEMMA FinishWriteInv == IInv /\ FinishWrite => IInv'
<1> SUFFICES ASSUME IInv, FinishWrite PROVE IInv'
  OBVIOUS
<1>1. CASE stage = "answer" /\ ReadHeader
  BY <1>1, ReadHeaderInv DEF FinishWrite
<1>2. CASE stage = "confirm" /\ stage' = "idle" /\ UNCHANGED <<start, missing>>
  <2>1. TypeOK'
    BY <1>2 DEF IInv, TypeOK, FinishWrite, Stages, writer
  <2>2. NetworkKeepsItsWay' /\ ReadUnderWay' /\ NothingLost'
    BY <1>2
       DEF IInv, NetworkKeepsItsWay, ReadUnderWay, NothingLost, Progress, Position,
           FinishWrite, writer
  <2> QED
    BY <2>1, <2>2 DEF IInv
<1> QED
  BY <1>1, <1>2 DEF FinishWrite

\* When frames arrive whole, a read that waits has taken nothing of its frame.
LEMMA WholeFrameWaits ==
    ASSUME IInv, network = "frames", stage \in {"header", "body"}, missing > 0,
           taken = arrived
    PROVE  taken = start
<1>1. cuts = 0
  BY DEF IInv, NetworkKeepsItsWay
<1>2. PICK m \in 0 .. Len(Ends) : taken = End(m)
  BY DEF IInv, NetworkKeepsItsWay, Boundaries
<1>3. PICK n \in 0 .. Len(Ends) : start = End(n)
  BY <1>1 DEF IInv, NothingLost, Progress, Position
<1>4. start <= taken
  BY DEF IInv, TypeOK, ReadUnderWay
<1>5. SUFFICES ASSUME n < m PROVE FALSE
  BY <1>2, <1>3, <1>4, EndOrder, EndType
<1>6. n + 1 \in Frames /\ Start(n + 1) = End(n) /\ n + 1 \in 0 .. Len(Ends)
  BY <1>5, EndType, EndOrder, FrameBegins, StartIsEnd DEF StreamEnd, Frames
<1>7. taken + missing <= End(n + 1)
  <2>1. CASE stage = "header"
    <3>1. End(n) + HeaderSize <= End(n + 1)
      BY <1>6, EndOrder, EndType
    <3> QED
      BY <2>1, <3>1, <1>3 DEF IInv, ReadUnderWay
  <2>2. CASE stage = "body"
    <3>1. PICK k \in Frames : start = Start(k) /\ taken + missing = End(k)
      BY <2>2, <1>1 DEF IInv, ReadUnderWay
    <3>2. Start(k) = End(n)
      BY <3>1, <1>3
    <3>3. k = n + 1
      BY <3>2, NextFrame
    <3> QED
      BY <3>1, <3>3, <1>6, EndType
  <2> QED
    BY <2>1, <2>2
<1>8. End(n + 1) <= End(m)
  <2>1. n + 1 = m \/ n + 1 < m
    BY <1>5
  <2> QED
    BY <2>1, <1>6, EndOrder, EndType
<1> QED
  BY <1>2, <1>6, <1>7, <1>8, EndType DEF IInv, TypeOK

\* A dropped receive leaves the stream where it was, unless it had taken a part
\* of a frame.
LEMMA TimeoutInv == IInv /\ Timeout => IInv'
<1> SUFFICES ASSUME IInv, Timeout PROVE IInv'
  OBVIOUS
<1>1. TypeOK'
  BY DEF IInv, TypeOK, Timeout, Stages, writer
<1>2. network = "frames" => cuts' = 0
  BY WholeFrameWaits DEF IInv, NetworkKeepsItsWay, Timeout
<1>3. NetworkKeepsItsWay'
  BY <1>2 DEF IInv, NetworkKeepsItsWay, Timeout
<1>4. ReadUnderWay'
  BY DEF ReadUnderWay, Timeout
<1>5. ASSUME cuts' = 0 PROVE cuts = 0 /\ (stage = "answer" \/ taken = start)
  BY <1>5 DEF IInv, TypeOK, Timeout
<1>6. NothingLost'
  BY <1>5 DEF IInv, NothingLost, Progress, Position, Timeout, writer
<1> QED
  BY <1>1, <1>3, <1>4, <1>6 DEF IInv

\* Every step preserves the inductive invariant.
LEMMA NextInv == IInv /\ [Next]_vars => IInv'
<1> SUFFICES ASSUME IInv, [Next]_vars PROVE IInv'
  OBVIOUS
<1>1. CASE UNCHANGED vars
  BY <1>1
     DEF vars, reader, writer, IInv, TypeOK, NetworkKeepsItsWay, ReadUnderWay,
         NothingLost, Progress, Position
<1> QED
  BY <1>1, ArriveInv, ReceiveInv, TakeBytesInv, ParseHeaderInv, FinishFrameInv,
     FinishWriteInv, FlushInv, TimeoutInv DEF Next, Read

LEMMA Invariance == Spec => []IInv
BY InitInv, NextInv, PTL DEF Spec

-----------------------------------------------------------------------------
(* The properties                                                          *)

\* Every variable has its type, and read_exact takes nothing that has not
\* arrived.
THEOREM ReaderTypes == Spec => []TypeOK
<1>1. IInv => TypeOK
  BY DEF IInv
<1> QED
  BY <1>1, Invariance, PTL

\* Whatever the frames, when they arrive whole a receive dropped at its time
\* limit never makes the next one read a header where no frame begins.
THEOREM WholeFramesStayInStep == Spec => []WholeFramesInStep
<1>1. IInv => WholeFramesInStep
  BY DEF IInv, NetworkKeepsItsWay, NothingLost, Progress, Position, WholeFramesInStep,
         InStep, Boundaries
<1> QED
  BY <1>1, Invariance, PTL

\* As long as no receive is dropped inside a frame, the loop is given exactly
\* the changes before the frame being read, in order, each once.
THEOREM DeliveryExact == Spec => []OnlyCutsLose
<1>1. IInv => OnlyCutsLose
  BY DEF IInv, NothingLost, Progress, OnlyCutsLose
<1> QED
  BY <1>1, Invariance, PTL

\* And the answers leave in the order of the frames, none lost with the receive
\* that was to give it and none given twice.
THEOREM AnswersExact == Spec => []AnswersInOrder
<1>1. IInv => AnswersInOrder
  BY DEF IInv, NothingLost, Progress, AnswersInOrder
<1> QED
  BY <1>1, Invariance, PTL
=============================================================================
