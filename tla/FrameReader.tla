---------------------------- MODULE FrameReader ----------------------------
(***************************************************************************)
(* How the replication loop reads frames off its socket.  read_message     *)
(* (src/src/postgres/connection.rs) takes a header and then a body out of  *)
(* a buffered reader with read_exact; the loop (src/src/replicator.rs)     *)
(* gives every receive poll_interval_ms and, when the time is up, drops it *)
(* and starts a new one.  The bytes read_exact had taken go with it.       *)
(*                                                                         *)
(* A receive answers a keepalive that asks for it, and the loop confirms   *)
(* every change it is given, through one BufWriter: an answer that is not  *)
(* flushed when the receive is dropped stays there and goes out with the   *)
(* next one.  It holds some 200 of them, and the server asks again only    *)
(* when it has been answered, so that it is never full.                    *)
(*                                                                         *)
(* The network is external: it delivers the stream in order, in pieces,    *)
(* and takes what is flushed when it likes.                                *)
(***************************************************************************)
EXTENDS Integers, Sequences

CONSTANTS
    HeaderSize,     \* 5 bytes in the code: tag and length
    Ends,           \* Ends[k]: the bytes of the stream up to the end of frame k
    Kinds,          \* Kinds[k]: what frame k is
    Networks,       \* how the network may deliver: in "frames", in "pieces"
    MaxGarbage      \* bound: the longest body a misread header announces

Frames == 1 .. Len(Ends)
End(k) == IF k = 0 THEN 0 ELSE Ends[k]
Start(k) == End(k - 1)
Boundaries == {End(k) : k \in 0 .. Len(Ends)}
StreamEnd == End(Len(Ends))

\* A change (XLogData); a keepalive that asks for an answer; what is read past,
\* that is, other keepalives, CopyData that is empty or unknown and messages of
\* other kinds; and the server's error.
AllKinds == {"xlog", "ask", "skip", "error"}
OfKind(kinds) == {k \in Frames : Kinds[k] \in kinds}

ASSUME StreamAssumption ==
    /\ HeaderSize \in Nat \ {0}
    /\ Ends \in Seq(Nat)
    /\ \A j \in 0 .. Len(Ends), k \in Frames : j < k => End(j) + HeaderSize <= End(k)
    /\ Kinds \in [Frames -> AllKinds]
    /\ OfKind({"error"}) \subseteq {Len(Ends)}
    /\ Networks \subseteq {"frames", "pieces"}
    /\ MaxGarbage \in Nat

VARIABLES
    network,        \* how it does: whole frames only, or any pieces
    arrived,        \* bytes the network has delivered
    taken,          \* bytes taken out of the buffered reader
    stage,          \* where the receive stands
    start,          \* the position at which it began its frame
    missing,        \* bytes its read_exact still waits for
    delivered,      \* the frames handed to the replication loop
    cuts,           \* receives dropped inside a frame
    buffer,         \* the BufWriter: the answers to these frames, not yet flushed
    sent            \* the frames whose answers have left

reader == <<taken, stage, start, missing, delivered, cuts>>
writer == <<buffer, sent>>
vars == <<network, arrived, reader, writer>>

Stages == {"idle", "header", "body", "answer", "confirm", "failed"}

Init ==
    /\ network \in Networks
    /\ arrived = 0
    /\ taken = 0
    /\ stage = "idle"
    /\ start = 0
    /\ missing = 0
    /\ delivered = <<>>
    /\ cuts = 0
    /\ buffer = <<>>
    /\ sent = <<>>

\* The network delivers some more of the stream.
Arrive ==
    /\ arrived' \in arrived + 1 .. StreamEnd
    /\ network = "frames" => arrived' \in Boundaries
    /\ UNCHANGED <<network, reader, writer>>

\* The first lines of read_message: a header is to be read from here.
ReadHeader ==
    /\ stage' = "header"
    /\ start' = taken
    /\ missing' = HeaderSize

\* The loop's turn: recv_replication_message is called.
Receive ==
    /\ stage = "idle"
    /\ ReadHeader
    /\ UNCHANGED <<network, arrived, taken, delivered, cuts, writer>>

Smaller(a, b) == IF a <= b THEN a ELSE b

\* Mutant: what is needed is taken, whether it is there or not.
TakeBytesUnread ==
    /\ stage \in {"header", "body"}
    /\ missing > 0
    /\ taken < arrived
    /\ taken' = taken + missing
    /\ missing' = 0
    /\ UNCHANGED <<network, arrived, stage, start, delivered, cuts, writer>>

\* read_exact takes what there is, up to what it needs.
TakeBytes ==
    /\ stage \in {"header", "body"}
    /\ missing > 0
    /\ taken < arrived
    /\ LET n == Smaller(missing, arrived - taken)
       IN taken' = taken + n /\ missing' = missing - n
    /\ UNCHANGED <<network, arrived, stage, start, delivered, cuts, writer>>

\* Mutant: the announced length is taken for the length of the body, although
\* it counts its own bytes too.
ParseHeaderLong ==
    /\ stage = "header"
    /\ missing = 0
    /\ stage' = "body"
    /\ \/ \E k \in Frames : start = Start(k) /\ missing' = End(k) - taken + HeaderSize
       \/ start \notin {Start(k) : k \in Frames} /\ missing' \in 0 .. MaxGarbage
    /\ UNCHANGED <<network, arrived, taken, start, delivered, cuts, writer>>

\* The header tells the length of the body. Bytes that are no header may tell
\* any length.
ParseHeader ==
    /\ stage = "header"
    /\ missing = 0
    /\ stage' = "body"
    /\ \/ \E k \in Frames : start = Start(k) /\ missing' = End(k) - taken
       \/ start \notin {Start(k) : k \in Frames} /\ missing' \in 0 .. MaxGarbage
    /\ UNCHANGED <<network, arrived, taken, start, delivered, cuts, writer>>

\* What becomes of frame k when its body is complete. A change is handed over,
\* and the loop confirms it; an answer is given before the receive goes on.
Handle(k) ==
    /\ UNCHANGED <<network, arrived, taken, cuts, sent>>
    /\ \/ /\ Kinds[k] = "xlog"
          /\ stage' = "confirm"
          /\ delivered' = Append(delivered, k)
          /\ buffer' = Append(buffer, k)
          /\ UNCHANGED <<start, missing>>
       \/ /\ Kinds[k] = "ask"
          /\ stage' = "answer"
          /\ buffer' = Append(buffer, k)
          /\ UNCHANGED <<start, missing, delivered>>
       \/ /\ Kinds[k] = "skip"
          /\ ReadHeader
          /\ UNCHANGED <<delivered, buffer>>
       \/ /\ Kinds[k] = "error"
          /\ stage' = "failed"
          /\ UNCHANGED <<start, missing, delivered, buffer>>

\* Mutant: a frame is handled as soon as its header is read.
FinishFrameEarly ==
    /\ stage = "body"
    /\ \E k \in Frames : start = Start(k) /\ Handle(k)

\* The body is complete. Garbage fails to parse, or is read past.
FinishFrame ==
    /\ stage = "body"
    /\ missing = 0
    /\ \/ \E k \in Frames : start = Start(k) /\ Handle(k)
       \/ /\ start \notin {Start(k) : k \in Frames}
          /\ \/ ReadHeader
             \/ stage' = "failed" /\ UNCHANGED <<start, missing>>
          /\ UNCHANGED <<network, arrived, taken, delivered, cuts, writer>>

\* write_message, inside the receive or after it: what is in the buffer leaves,
\* as the network takes it, and then the receive or the loop goes on.
Flush ==
    /\ stage \in {"answer", "confirm"}
    /\ buffer # <<>>
    /\ buffer' = Tail(buffer)
    /\ sent' = Append(sent, Head(buffer))
    /\ UNCHANGED <<network, arrived, reader>>

FinishWrite ==
    /\ stage \in {"answer", "confirm"}
    /\ buffer = <<>>
    /\ \/ stage = "answer" /\ ReadHeader
       \/ stage = "confirm" /\ stage' = "idle" /\ UNCHANGED <<start, missing>>
    /\ UNCHANGED <<network, arrived, taken, delivered, cuts, writer>>

\* Mutant: the time limit cuts a read that could go on.
TimeoutAnywhere ==
    /\ stage \in {"header", "body", "answer"}
    /\ stage' = "idle"
    /\ missing' = 0
    /\ cuts' = IF stage = "answer" \/ taken = start THEN cuts ELSE cuts + 1
    /\ UNCHANGED <<network, arrived, taken, start, delivered, writer>>

\* Mutant: an answer goes with the receive that was to give it.
TimeoutWithAnswer ==
    /\ \/ stage \in {"header", "body"} /\ missing > 0 /\ taken = arrived
       \/ stage = "answer" /\ buffer # <<>>
    /\ stage' = "idle"
    /\ missing' = 0
    /\ cuts' = IF stage = "answer" \/ taken = start THEN cuts ELSE cuts + 1
    /\ buffer' = <<>>
    /\ UNCHANGED <<network, arrived, taken, start, delivered, sent>>

\* poll_interval_ms is over while read_exact or a flush waits for the network (a
\* timeout polls what it guards first): the receive is dropped, the loop goes on.
Timeout ==
    /\ \/ stage \in {"header", "body"} /\ missing > 0 /\ taken = arrived
       \/ stage = "answer" /\ buffer # <<>>
    /\ stage' = "idle"
    /\ missing' = 0
    /\ cuts' = IF stage = "answer" \/ taken = start THEN cuts ELSE cuts + 1
    /\ UNCHANGED <<network, arrived, taken, start, delivered, writer>>

Read == TakeBytes \/ ParseHeader \/ FinishFrame \/ FinishWrite

Next == Arrive \/ Receive \/ Read \/ Flush \/ Timeout

Spec == Init /\ [][Next]_vars

\* The network delivers the whole stream and takes what is flushed; the loop
\* receives again and again, and a read that can go on is polled before its time
\* limit is.
Fairness == WF_vars(Arrive) /\ WF_vars(Receive) /\ WF_vars(Read) /\ WF_vars(Flush)

FairSpec == Spec /\ Fairness

-----------------------------------------------------------------------------
(* Correctness                                                             *)

\* Every variable has its type, and nothing is taken that has not arrived.
TypeOK ==
    /\ network \in Networks
    /\ arrived \in Nat
    /\ taken \in Nat
    /\ taken <= arrived
    /\ stage \in Stages
    /\ start \in Nat
    /\ missing \in Nat
    /\ {delivered, buffer, sent} \subseteq Seq(Frames)
    /\ cuts \in Nat

\* Dropping a receive at its time limit is harmless, as the comment "Timeout is
\* normal, continue" has it: a header is read only where a frame begins.
InStep == stage \in {"header", "body"} => start \in Boundaries

\* It is harmless as long as frames arrive whole: then no time limit cuts one.
WholeFramesInStep == network = "frames" => InStep

\* The frames of these kinds, up to frame n.
UpTo(n, kinds) == {k \in 1 .. n : Kinds[k] \in kinds}

\* These frames, each once and in order.
Lists(seq, frames) ==
    /\ {seq[m] : m \in DOMAIN seq} = frames
    /\ \A l, m \in DOMAIN seq : l < m => seq[l] < seq[m]

\* n frames have been taken off the stream, completely.
Position(n) == (IF stage \in {"header", "body"} THEN start ELSE taken) = End(n)

\* Only a receive dropped inside a frame disturbs the stream: without one, the
\* loop is given exactly the changes before the frame being read, in order, each
\* once, and only the server's own error ends it.
OnlyCutsLose ==
    cuts = 0 => \E n \in 0 .. Len(Ends) :
        /\ Position(n)
        /\ Lists(delivered, UpTo(n, {"xlog"}))
        /\ (stage = "failed") <=> n \in OfKind({"error"})

\* The answers leave in the order of the frames, and a receive dropped while it
\* answers takes no answer with it and gives none twice.
AnswersInOrder ==
    cuts = 0 => \E n \in 0 .. Len(Ends) :
        Position(n) /\ Lists(sent \o buffer, UpTo(n, {"xlog", "ask"}))

\* Every change of a stream that arrives in whole frames reaches the loop,
\* whatever the time limit does.
EveryFrameDelivered ==
    \A k \in OfKind({"xlog"}) :
        <>(network = "frames" => \E m \in DOMAIN delivered : delivered[m] = k)

\* The server gets the answers it asked for, those the time limit cut with the
\* confirmation of the next change.
AsksAnswered ==
    \A k \in OfKind({"ask"}) : OfKind({"xlog"}) \intersect (k .. Len(Ends)) # {} =>
        <>(network = "frames" => \E m \in DOMAIN sent : sent[m] = k)
=============================================================================
