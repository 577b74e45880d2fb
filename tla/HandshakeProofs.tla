-------------------------- MODULE HandshakeProofs --------------------------
(***************************************************************************)
(* Proofs about Handshake, whatever servers the constants allow and        *)
(* however many connections are made: an operation is at most one answer   *)
(* behind the server; the slot and stream commands are exactly one behind  *)
(* when answers end with ReadyForQuery and not at all when they do not;    *)
(* and a client that streams streams from a server that does, whose        *)
(* answers do not trail.                                                   *)
(***************************************************************************)
EXTENDS Handshake, SequenceTheorems, TLAPS

\* What the client may have asked for that the server has not handled.  Only
\* when answers trail does it ask again before an answer has been read.
Pending ==
    CASE operation = "authenticate" -> {<<>>, <<"startup">>, <<"password">>}
      [] operation = "identify"     -> {<<>>, <<"identify">>}
      [] operation = "create"       -> {<<>>, <<"create">>}
      [] (operation \in {"start", "failed"} /\ trailing) ->
             {<<>>, <<"start">>, <<"create", "start">>}
      [] (operation = "start" /\ ~trailing) -> {<<>>, <<"start">>}
      [] OTHER -> {<<>>}

PendingIsKnown == requests \in Pending \/ (operation = "failed" /\ server = "closed")

\* Whose answer a message can be, given what reads it.  A message from before
\* it is the ReadyForQuery identify_system left, or the answer to
\* CREATE_REPLICATION_SLOT when that one was taken for it.
BelongsTo(n) ==
    LET a == answers[n] IN
    CASE operation = "authenticate" -> a.command \in {"startup", "password"} /\ requests = <<>>
      [] operation = "awaitReady"   -> a.command \in {"startup", "password"}
      [] operation = "identify"     -> a.command = "identify" /\ requests = <<>>
      [] operation = "create"       ->
             \/ a.command = "create" /\ requests = <<>>
             \/ trailing /\ n = 1 /\ a = [message |-> "ready", command |-> "identify"]
      [] operation = "start"        ->
             \/ a.command = "start" /\ requests = <<>>
             \/ trailing /\ a.command \in {"create", "start"}
      [] OTHER -> TRUE

\* An operation that stops at a message has read the answer to the end, but
\* for the ReadyForQuery that trails it.
EndsAt(n) ==
    LET a == answers[n] IN
    /\ operation \in {"authenticate", "awaitReady", "identify"} /\ a.message \in {"ready", "authPassword"} =>
          n = Len(answers)
    /\ operation \in {"identify", "create"} /\ a.message \in {"complete", "alreadyExists"} =>
          \/ n = Len(answers)
          \/ /\ trailing
             /\ n + 1 = Len(answers)
             /\ answers[n + 1] = [message |-> "ready", command |-> a.command]
    /\ operation \in {"identify", "create"} /\ a.message = "ready" => trailing

AnswersAreKnown == \A n \in DOMAIN answers : BelongsTo(n) /\ EndsAt(n)

\* Replication starts once, from the slot, and nothing is asked after it.
CopyIsKnown ==
    /\ server = "copy" => requests = <<>> /\ slotExists /\ operation \in {"start", "streaming", "failed"}
    /\ \A n \in DOMAIN answers : answers[n].message \in {"copyOut", "copyBoth"} => server = "copy"
    /\ operation = "streaming" => server = "copy"
    /\ server = "copy" /\ ~trailing /\ copyAnswer = "copyOut" =>
          \/ operation = "streaming"
          \/ operation = "start" /\ answers = <<[message |-> "copyOut", command |-> "start"]>>

\* The inductive invariant.
IInv == TypeOK /\ PendingIsKnown /\ AnswersAreKnown /\ CopyIsKnown

-----------------------------------------------------------------------------
(* What is read and what is answered                                       *)

\* An answer to a command: the row it asks for or an error, and, if answers
\* trail, ReadyForQuery.  None of them starts a copy or asks for a password.
Proper(messages) ==
    /\ messages \in Seq(Messages)
    /\ \A k \in DOMAIN messages :
          /\ messages[k] \notin {"copyOut", "copyBoth", "authPassword"}
          /\ messages[k] \in {"complete", "alreadyExists"} =>
                \/ k = Len(messages)
                \/ trailing /\ k + 1 = Len(messages) /\ messages[k + 1] = "ready"
          /\ messages[k] = "ready" => trailing /\ k = Len(messages)

\* ReadyForQuery, or nothing, can follow an answer that does not hold one.
LEMMA TrailedIsProper ==
    ASSUME NEW body \in Seq(Messages),
           \A k \in DOMAIN body :
              /\ body[k] \notin {"copyOut", "copyBoth", "authPassword", "ready"}
              /\ body[k] \in {"complete", "alreadyExists"} => k = Len(body)
    PROVE  Proper(body \o Trailer)
<1>1. CASE trailing
  <2> DEFINE whole == body \o <<"ready">>
  <2>1. <<"ready">> \in Seq(Messages) /\ Len(<<"ready">>) = 1 /\ Len(body) \in Nat
    BY DEF Messages
  <2>2. /\ whole \in Seq(Messages) /\ Len(whole) = Len(body) + 1
        /\ DOMAIN whole = 1 .. Len(body) + 1 /\ DOMAIN body = 1 .. Len(body)
        /\ \A k \in 1 .. Len(body) : whole[k] = body[k]
        /\ whole[Len(body) + 1] = "ready"
    BY <2>1, ConcatProperties
  <2>3. Proper(whole)
    BY <1>1, <2>1, <2>2 DEF Proper
  <2> QED
    BY <1>1, <2>3 DEF Trailer
<1>2. CASE ~trailing
  <2>1. body \o Trailer = body
    BY <1>2, ConcatEmptySeq DEF Trailer
  <2> QED
    BY <2>1 DEF Proper
<1> QED
  BY <1>1, <1>2

\* The answers to IDENTIFY_SYSTEM and CREATE_REPLICATION_SLOT are proper.
LEMMA ProperAnswers ==
    /\ Proper(Rows \o Trailer)
    /\ Proper(<<"error">> \o Trailer)
    /\ Proper(<<"alreadyExists">> \o Trailer)
<1>1. Proper(Rows \o Trailer)
  <2>1. /\ Rows \in Seq(Messages) /\ Len(Rows) = 3 /\ DOMAIN Rows = 1 .. 3
        /\ Rows[1] = "rowDescription" /\ Rows[2] = "dataRow" /\ Rows[3] = "complete"
    BY DEF Rows, Messages
  <2>2. \A k \in DOMAIN Rows :
           /\ Rows[k] \notin {"copyOut", "copyBoth", "authPassword", "ready"}
           /\ Rows[k] \in {"complete", "alreadyExists"} => k = Len(Rows)
    BY <2>1
  <2> QED
    BY <2>1, <2>2, TrailedIsProper
<1>2. Proper(<<"error">> \o Trailer)
  <2> DEFINE body == <<"error">>
  <2>1. body \in Seq(Messages) /\ DOMAIN body = {1} /\ body[1] = "error"
    BY DEF Messages
  <2> HIDE DEF body
  <2>2. Proper(body \o Trailer)
    BY <2>1, TrailedIsProper
  <2> QED
    BY <2>2 DEF body
<1>3. Proper(<<"alreadyExists">> \o Trailer)
  <2> DEFINE body == <<"alreadyExists">>
  <2>1. body \in Seq(Messages) /\ DOMAIN body = {1} /\ body[1] = "alreadyExists" /\ Len(body) = 1
    BY DEF Messages
  <2> HIDE DEF body
  <2>2. Proper(body \o Trailer)
    BY <2>1, TrailedIsProper
  <2> QED
    BY <2>2 DEF body
<1> QED
  BY <1>1, <1>2, <1>3

\* What becomes of the short queues of commands there are.
LEMMA Queues ==
    /\ \A c \in Commands : /\ Append(<<>>, c) = <<c>>
                            /\ Head(<<c>>) = c /\ Tail(<<c>>) = <<>> /\ <<c>> # <<>>
    /\ Append(<<"create">>, "start") = <<"create", "start">>
    /\ Head(<<"create", "start">>) = "create"
    /\ Tail(<<"create", "start">>) = <<"start">>
    /\ <<"create", "start">> # <<>>
    /\ \A c \in Commands : <<c>> # <<"create", "start">>
<1>1. \A c \in Commands : /\ Append(<<>>, c) = <<c>>
                          /\ Head(<<c>>) = c /\ Tail(<<c>>) = <<>> /\ <<c>> # <<>>
  OBVIOUS
<1>2. Append(<<"create">>, "start") = <<"create", "start">>
  <2> DEFINE one == <<"create">>
             two == <<"create", "start">>
             longer == Append(one, "start")
  <2>1. /\ one \in Seq(Commands) /\ Len(one) = 1 /\ one[1] = "create"
        /\ two \in Seq(Commands) /\ Len(two) = 2 /\ two[1] = "create" /\ two[2] = "start"
        /\ "start" \in Commands
    BY DEF Commands
  <2> HIDE DEF one, two
  <2>2. /\ longer \in Seq(Commands) /\ Len(longer) = Len(one) + 1
        /\ \A n \in 1 .. Len(one) : longer[n] = one[n]
        /\ longer[Len(one) + 1] = "start"
    BY <2>1, AppendProperties
  <2> HIDE DEF longer
  <2>3. longer = two
    BY <2>1, <2>2, SeqEqual
  <2> QED
    BY <2>3 DEF one, two, longer
<1>3. /\ Head(<<"create", "start">>) = "create"
      /\ Tail(<<"create", "start">>) = <<"start">>
      /\ <<"create", "start">> # <<>>
      /\ \A c \in Commands : <<c>> # <<"create", "start">>
  OBVIOUS
<1> QED
  BY <1>1, <1>2, <1>3

\* What is left when the first message has been read.
LEMMA ReadShape ==
    ASSUME TypeOK, NEW messages, Read(messages)
    PROVE  /\ Len(answers) \in Nat /\ Len(answers) > 0 /\ DOMAIN answers = 1 .. Len(answers)
           /\ answers[1].message \in messages
           /\ answers' \in Seq([message : Messages, command : Commands])
           /\ Len(answers') = Len(answers) - 1 /\ DOMAIN answers' = 1 .. Len(answers) - 1
           /\ \A n \in DOMAIN answers' : n + 1 \in DOMAIN answers /\ answers'[n] = answers[n + 1]
BY DEF TypeOK, Read

\* What waits in the socket when another answer has joined it.
LEMMA AnswerShape ==
    ASSUME TypeOK, NEW messages \in Seq(Messages), Answer(messages), requests # <<>>
    PROVE  /\ Len(answers) \in Nat /\ Len(messages) \in Nat
           /\ DOMAIN answers = 1 .. Len(answers) /\ DOMAIN messages = 1 .. Len(messages)
           /\ answers' \in Seq([message : Messages, command : Commands])
           /\ Len(answers') = Len(answers) + Len(messages)
           /\ DOMAIN answers' = 1 .. Len(answers) + Len(messages)
           /\ \A n \in DOMAIN answers : answers'[n] = answers[n]
           /\ \A k \in DOMAIN messages :
                 answers'[Len(answers) + k] = [message |-> messages[k], command |-> Head(requests)]
           /\ Head(requests) \in Commands
<1> DEFINE All == [message : Messages, command : Commands]
           added == [k \in DOMAIN messages |-> [message |-> messages[k], command |-> Head(requests)]]
<1>1. answers \in Seq(All) /\ Head(requests) \in Commands
  BY DEF TypeOK
<1>2. /\ Len(answers) \in Nat /\ Len(messages) \in Nat
      /\ DOMAIN answers = 1 .. Len(answers) /\ DOMAIN messages = 1 .. Len(messages)
  BY <1>1
<1>3. added \in Seq(All) /\ Len(added) = Len(messages)
  <2>1. \A k \in 1 .. Len(messages) : messages[k] \in Messages
    OBVIOUS
  <2>2. added \in [1 .. Len(messages) -> All]
    BY <1>1, <1>2, <2>1
  <2> QED
    BY <1>2, <2>2
<1>4. \A k \in DOMAIN messages :
         added[k] = [message |-> messages[k], command |-> Head(requests)]
  OBVIOUS
<1>5. answers' = answers \o added
  BY DEF Answer
<1> HIDE DEF All, added
<1>6. /\ answers' \in Seq(All)
      /\ Len(answers') = Len(answers) + Len(messages)
      /\ \A n \in 1 .. Len(answers) + Len(messages) :
            answers'[n] = IF n <= Len(answers) THEN answers[n] ELSE added[n - Len(answers)]
  <2> DEFINE whole == answers \o added
  <2>1. /\ whole \in Seq(All)
        /\ Len(whole) = Len(answers) + Len(added)
        /\ \A n \in 1 .. Len(answers) + Len(added) :
              whole[n] = IF n <= Len(answers) THEN answers[n] ELSE added[n - Len(answers)]
    BY <1>1, <1>3, ConcatProperties
  <2> HIDE DEF whole
  <2>2. answers' = whole
    BY <1>5 DEF whole
  <2> QED
    BY <2>1, <2>2, <1>3
<1>7. \A n \in DOMAIN answers : answers'[n] = answers[n]
  BY <1>2, <1>6
<1>8. \A k \in DOMAIN messages : answers'[Len(answers) + k] = added[k]
  <2> SUFFICES ASSUME NEW k \in DOMAIN messages
               PROVE  answers'[Len(answers) + k] = added[k]
    OBVIOUS
  <2> DEFINE n == Len(answers) + k
  <2>1. n \in 1 .. Len(answers) + Len(messages) /\ ~(n <= Len(answers)) /\ n - Len(answers) = k
    BY <1>2
  <2> QED
    BY <1>6, <2>1
<1>9. DOMAIN answers' = 1 .. Len(answers) + Len(messages)
  BY <1>2, <1>6
<1> QED
  BY <1>1, <1>2, <1>4, <1>6, <1>7, <1>8, <1>9 DEF All

-----------------------------------------------------------------------------
(* Types                                                                   *)

\* A command added to the queue leaves a queue of commands, one taken off too.
LEMMA QueueType ==
    ASSUME TypeOK
    PROVE  /\ \A c \in Commands : Append(requests, c) \in Seq(Commands)
           /\ requests # <<>> => Tail(requests) \in Seq(Commands)
           /\ <<>> \in Seq(Commands) /\ <<"startup">> \in Seq(Commands)
           /\ <<>> \in Seq([message : Messages, command : Commands])
BY DEF TypeOK, Commands

\* Every step keeps the types.
LEMMA TypesKept == TypeOK /\ [Next]_vars => TypeOK'
<1> SUFFICES ASSUME TypeOK, [Next]_vars
             PROVE  TypeOK'
  OBVIOUS
<1>1. \A messages : Read(messages) =>
         answers' \in Seq([message : Messages, command : Commands])
  BY ReadShape
<1>2. \A messages \in Seq(Messages) : requests # <<>> /\ Answer(messages) =>
         answers' \in Seq([message : Messages, command : Commands])
  BY AnswerShape
<1> USE QueueType DEF settings, Operations
<1>3. CASE Authenticate
  BY <1>1, <1>3 DEF Authenticate, Ignore, Fail, Proceed, Send, TypeOK, Commands
<1>4. CASE AwaitReady
  BY <1>1, <1>4 DEF AwaitReady, Ignore, Proceed, Send, TypeOK, Commands
<1>5. CASE IdentifySystem
  BY <1>1, <1>5 DEF IdentifySystem, Ignore, Fail, Proceed, Send, TypeOK, Commands
<1>6. CASE CreateReplicationSlot
  BY <1>1, <1>6 DEF CreateReplicationSlot, Ignore, Fail, Proceed, Send, TypeOK, Commands
<1>7. CASE StartReplication
  BY <1>1, <1>7 DEF StartReplication, Fail, TypeOK
<1>8. CASE Disconnected
  BY <1>8 DEF Disconnected, Fail, TypeOK
<1>9. CASE Reconnect
  <2>1. attempts' \in 1 .. MaxAttempts
    BY <1>9, HandshakeAssumption DEF Reconnect, TypeOK, HandshakeAssumption
  <2> QED
    BY <1>9, <2>1 DEF Reconnect, TypeOK
<1>10. CASE HandleStartup
  <2>1. /\ Welcome \in Seq(Messages) /\ <<"authPassword">> \in Seq(Messages)
        /\ <<"authOther">> \in Seq(Messages) /\ <<"error">> \in Seq(Messages)
    BY DEF Welcome, Messages
  <2> QED
    BY <1>2, <1>10, <2>1 DEF HandleStartup, Handle, TypeOK
<1>11. CASE HandlePassword
  <2>1. Welcome \in Seq(Messages) /\ <<"error">> \in Seq(Messages)
    BY DEF Welcome, Messages
  <2> QED
    BY <1>2, <1>11, <2>1 DEF HandlePassword, Handle, TypeOK
<1>12. CASE HandleIdentify
  BY <1>2, <1>12, ProperAnswers DEF HandleIdentify, Handle, TypeOK, Proper
<1>13. CASE HandleCreate
  BY <1>2, <1>13, ProperAnswers DEF HandleCreate, Handle, TypeOK, Proper
<1>14. CASE HandleStart
  <2>1. <<copyAnswer>> \in Seq(Messages)
    BY HandshakeAssumption DEF HandshakeAssumption, TypeOK, Messages
  <2> QED
    BY <1>2, <1>14, <2>1, ProperAnswers DEF HandleStart, Handle, TypeOK, Proper
<1>15. CASE Close
  BY <1>15 DEF Close, TypeOK
<1>16. CASE UNCHANGED vars
  BY <1>16 DEF vars, TypeOK
<1> QED
  BY <1>3, <1>4, <1>5, <1>6, <1>7, <1>8, <1>9, <1>10, <1>11, <1>12, <1>13, <1>14,
     <1>15, <1>16 DEF Next, Client, Server

-----------------------------------------------------------------------------
(* The client's steps                                                      *)

\* What the steps have to keep, besides the types.
Known == PendingIsKnown /\ AnswersAreKnown /\ CopyIsKnown

\* authenticate reads nothing it has not asked for.
LEMMA AuthenticateKeeps == IInv /\ Authenticate => Known'
<1> SUFFICES ASSUME IInv, Authenticate
             PROVE  Known'
  OBVIOUS
<1> USE DEF IInv, settings
<1>1. PICK messages : Read(messages)
  BY DEF Authenticate, Ignore
<1>2. requests = <<>> /\ operation = "authenticate"
  BY <1>1, ReadShape DEF Authenticate, AnswersAreKnown, BelongsTo
<1>3. \/ operation' = "authenticate" /\ requests' = <<>>
      \/ operation' = "awaitReady" /\ requests' = <<>>
      \/ operation' = "failed" /\ requests' = <<>>
      \/ /\ operation' = "authenticate" /\ requests' = <<"password">>
         /\ answers[1].message = "authPassword"
  BY <1>2, Queues, ReadShape DEF Authenticate, Ignore, Fail, Proceed, Send, Commands
<1>4. PendingIsKnown'
  BY <1>3 DEF PendingIsKnown, Pending
<1>5. AnswersAreKnown'
  <2> SUFFICES ASSUME NEW n \in DOMAIN answers'
               PROVE  (BelongsTo(n) /\ EndsAt(n))'
    BY DEF AnswersAreKnown
  <2>1. /\ Len(answers) \in Nat /\ n \in Nat /\ 1 \in DOMAIN answers /\ n + 1 \in DOMAIN answers
        /\ answers'[n] = answers[n + 1] /\ Len(answers') = Len(answers) - 1 /\ n # 0
    BY <1>1, ReadShape
  <2>2. BelongsTo(n + 1) /\ EndsAt(n + 1) /\ EndsAt(1)
    BY <2>1 DEF AnswersAreKnown
  <2>3. requests' = <<>>
    BY <1>2, <1>3, <2>1, <2>2 DEF EndsAt
  <2>4. BelongsTo(n)'
    BY <1>2, <1>3, <2>1, <2>2, <2>3 DEF BelongsTo
  <2>5. EndsAt(n)'
    BY <1>2, <1>3, <2>1, <2>2 DEF EndsAt
  <2> QED
    BY <2>4, <2>5
<1>6. CopyIsKnown'
  BY <1>1, <1>2, <1>3, ReadShape DEF CopyIsKnown, Authenticate
<1> QED
  BY <1>4, <1>5, <1>6 DEF Known

\* awaitReady stops at the end of the login, so nothing is left for
\* identify_system but its own answer.
LEMMA AwaitReadyKeeps == IInv /\ AwaitReady => Known'
<1> SUFFICES ASSUME IInv, AwaitReady
             PROVE  Known'
  OBVIOUS
<1> USE DEF IInv, settings
<1>1. PICK messages : Read(messages)
  BY DEF AwaitReady, Ignore
<1>2. requests = <<>> /\ operation = "awaitReady"
  BY DEF AwaitReady, PendingIsKnown, Pending
<1>3. \/ operation' = "awaitReady" /\ requests' = <<>>
      \/ /\ operation' = "identify" /\ requests' = <<"identify">>
         /\ answers[1].message = "ready"
  BY <1>2, Queues, ReadShape DEF AwaitReady, Ignore, Proceed, Send, Commands
<1>4. PendingIsKnown'
  BY <1>3 DEF PendingIsKnown, Pending
<1>5. AnswersAreKnown'
  <2> SUFFICES ASSUME NEW n \in DOMAIN answers'
               PROVE  (BelongsTo(n) /\ EndsAt(n))'
    BY DEF AnswersAreKnown
  <2>1. /\ Len(answers) \in Nat /\ n \in Nat /\ 1 \in DOMAIN answers /\ n + 1 \in DOMAIN answers
        /\ answers'[n] = answers[n + 1] /\ Len(answers') = Len(answers) - 1 /\ n # 0
    BY <1>1, ReadShape
  <2>2. BelongsTo(n + 1) /\ EndsAt(n + 1) /\ EndsAt(1)
    BY <2>1 DEF AnswersAreKnown
  <2>3. operation' = "awaitReady"
    BY <1>2, <1>3, <2>1, <2>2 DEF EndsAt
  <2>4. BelongsTo(n)'
    BY <1>2, <2>1, <2>2, <2>3 DEF BelongsTo
  <2>5. EndsAt(n)'
    BY <1>2, <2>1, <2>2, <2>3 DEF EndsAt
  <2> QED
    BY <2>4, <2>5
<1>6. CopyIsKnown'
  BY <1>1, <1>2, <1>3, ReadShape DEF CopyIsKnown, AwaitReady
<1> QED
  BY <1>4, <1>5, <1>6 DEF Known

\* identify_system stops at CommandComplete and leaves ReadyForQuery, if one
\* trails, for create_replication_slot.
LEMMA IdentifySystemKeeps == IInv /\ IdentifySystem => Known'
<1> SUFFICES ASSUME IInv, IdentifySystem
             PROVE  Known'
  OBVIOUS
<1> USE DEF IInv, settings
<1>1. PICK messages : Read(messages)
  BY DEF IdentifySystem, Ignore
<1>2. requests = <<>> /\ operation = "identify"
  BY <1>1, ReadShape DEF IdentifySystem, AnswersAreKnown, BelongsTo
<1>3. \/ operation' \in {"identify", "failed"} /\ requests' = <<>>
      \/ /\ operation' = "create" /\ requests' = <<"create">>
         /\ answers[1].message \in {"complete", "ready"}
  BY <1>2, Queues, ReadShape DEF IdentifySystem, Ignore, Fail, Proceed, Send, Commands
<1>4. PendingIsKnown'
  BY <1>3 DEF PendingIsKnown, Pending, IdentifySystem
<1>5. AnswersAreKnown'
  <2> SUFFICES ASSUME NEW n \in DOMAIN answers'
               PROVE  (BelongsTo(n) /\ EndsAt(n))'
    BY DEF AnswersAreKnown
  <2>1. /\ Len(answers) \in Nat /\ n \in Nat /\ 1 \in DOMAIN answers /\ n + 1 \in DOMAIN answers
        /\ answers'[n] = answers[n + 1] /\ Len(answers') = Len(answers) - 1 /\ n # 0
        /\ n + 1 <= Len(answers)
    BY <1>1, ReadShape
  <2>2. BelongsTo(1) /\ BelongsTo(n + 1) /\ EndsAt(n + 1) /\ EndsAt(1)
    BY <2>1 DEF AnswersAreKnown
  <2>3. trailing' = trailing
    BY DEF IdentifySystem
  <2>4. operation' = "create" =>
           n = 1 /\ trailing /\ answers'[n] = [message |-> "ready", command |-> "identify"]
    BY <1>2, <1>3, <2>1, <2>2 DEF EndsAt, BelongsTo
  <2>5. BelongsTo(n)'
    BY <1>2, <1>3, <2>1, <2>2, <2>3, <2>4 DEF BelongsTo
  <2>6. CASE operation' = "identify"
    <3>1. /\ answers'[n].message \in {"ready", "authPassword"} => n = Len(answers')
          /\ answers'[n].message = "ready" => trailing
      BY <1>2, <2>1, <2>2 DEF EndsAt
    <3>2. answers'[n].message \in {"complete", "alreadyExists"} =>
             \/ n = Len(answers')
             \/ /\ trailing
                /\ n + 1 = Len(answers')
                /\ answers'[n + 1] = [message |-> "ready", command |-> answers'[n].command]
      <4>1. n + 1 \in Nat /\ (n + 1 = Len(answers') => answers'[n + 1] = answers[n + 1 + 1])
        BY <1>1, <2>1, ReadShape
      <4> QED
        BY <1>2, <2>1, <2>2, <4>1 DEF EndsAt
    <3> QED
      BY <2>6, <2>3, <2>5, <3>1, <3>2 DEF EndsAt
  <2>7. CASE operation' = "create"
    BY <2>3, <2>4, <2>5, <2>7 DEF EndsAt
  <2>8. CASE operation' = "failed"
    BY <2>5, <2>8 DEF EndsAt
  <2> QED
    BY <1>3, <2>6, <2>7, <2>8
<1>6. CopyIsKnown'
  BY <1>1, <1>2, <1>3, ReadShape DEF CopyIsKnown, IdentifySystem
<1> QED
  BY <1>4, <1>5, <1>6 DEF Known

\* create_replication_slot stops at its own answer or at the ReadyForQuery
\* that identify_system left; its own may then be read by start_replication.
LEMMA CreateReplicationSlotKeeps == IInv /\ CreateReplicationSlot => Known'
<1> SUFFICES ASSUME IInv, CreateReplicationSlot
             PROVE  Known'
  OBVIOUS
<1> USE DEF IInv, settings
<1>1. PICK messages : Read(messages)
  BY DEF CreateReplicationSlot, Ignore
<1>2. /\ operation = "create" /\ trailing' = trailing
      /\ Len(answers) \in Nat /\ 1 \in DOMAIN answers /\ BelongsTo(1) /\ EndsAt(1)
  BY <1>1, ReadShape DEF CreateReplicationSlot, AnswersAreKnown
<1>3. requests \in {<<>>, <<"create">>} /\ (requests # <<>> => trailing /\ answers[1].message = "ready")
  BY <1>2 DEF PendingIsKnown, Pending, BelongsTo
<1>4. \/ operation' \in {"create", "failed"} /\ requests' = <<>> /\ answers[1].message # "ready"
      \/ /\ operation' = "start" /\ requests' \in {<<"start">>, <<"create", "start">>}
         /\ answers[1].message \in {"complete", "ready", "alreadyExists"}
         /\ requests' = <<"create", "start">> => trailing
  <2>1. CASE Read({"complete", "ready", "alreadyExists"}) /\ Proceed("start", "start")
    <3>1. answers[1].message \in {"complete", "ready", "alreadyExists"}
      BY <2>1, ReadShape
    <3>2. operation' = "start" /\ requests' = Append(requests, "start")
      BY <2>1 DEF Proceed, Send
    <3>3. requests' \in {<<"start">>, <<"create", "start">>}
      BY <1>3, <3>2, Queues DEF Commands
    <3>4. requests = <<>> => requests' # <<"create", "start">>
      BY <3>2
    <3> QED
      BY <1>3, <3>1, <3>2, <3>3, <3>4
  <2>2. CASE Read({"error"}) /\ Fail
    <3>1. answers[1].message = "error"
      BY <2>2, ReadShape
    <3> QED
      BY <1>3, <2>2, <3>1 DEF Fail
  <2>3. CASE Ignore(Messages \ {"complete", "ready", "alreadyExists", "error"})
    <3>1. answers[1].message # "ready"
      BY <2>3, ReadShape DEF Ignore
    <3> QED
      BY <1>2, <1>3, <2>3, <3>1 DEF Ignore
  <2> QED
    BY <2>1, <2>2, <2>3 DEF CreateReplicationSlot
<1>5. PendingIsKnown'
  BY <1>2, <1>4 DEF PendingIsKnown, Pending
<1>6. AnswersAreKnown'
  <2> SUFFICES ASSUME NEW n \in DOMAIN answers'
               PROVE  (BelongsTo(n) /\ EndsAt(n))'
    BY DEF AnswersAreKnown
  <2>1. /\ n \in Nat /\ n + 1 \in DOMAIN answers
        /\ answers'[n] = answers[n + 1] /\ Len(answers') = Len(answers) - 1 /\ n # 0
        /\ n + 1 <= Len(answers) /\ n + 1 # 1
    BY <1>1, ReadShape
  <2>2. BelongsTo(n + 1) /\ EndsAt(n + 1)
    BY <2>1 DEF AnswersAreKnown
  <2>3. requests = <<>> /\ answers'[n].command = "create"
    BY <1>2, <2>1, <2>2 DEF BelongsTo
  <2>4. operation' = "start" => trailing
    BY <1>2, <1>4, <2>1, <2>2 DEF EndsAt
  <2>5. BelongsTo(n)'
    BY <1>2, <1>4, <2>3, <2>4 DEF BelongsTo
  <2>6. CASE operation' = "create"
    <3>1. n + 1 \in Nat /\ (n + 1 = Len(answers') => answers'[n + 1] = answers[n + 1 + 1])
      BY <1>1, <1>2, <2>1, ReadShape
    <3>2. /\ answers'[n].message = "ready" => trailing
          /\ answers'[n].message \in {"complete", "alreadyExists"} =>
               \/ n = Len(answers')
               \/ /\ trailing
                  /\ n + 1 = Len(answers')
                  /\ answers'[n + 1] = [message |-> "ready", command |-> answers'[n].command]
      BY <1>2, <2>1, <2>2, <3>1 DEF EndsAt
    <3> QED
      BY <1>2, <2>5, <2>6, <3>2 DEF EndsAt
  <2>7. CASE operation' \in {"start", "failed"}
    BY <2>5, <2>7 DEF EndsAt
  <2> QED
    BY <1>4, <2>6, <2>7
<1>7. CopyIsKnown'
  BY <1>1, <1>2, <1>4, ReadShape DEF CopyIsKnown, CreateReplicationSlot
<1> QED
  BY <1>5, <1>6, <1>7 DEF Known

\* start_replication takes CopyOutResponse, which only a server that copies
\* sends; if answers do not trail it has no other answer to take it from.
LEMMA StartReplicationKeeps == IInv /\ StartReplication => Known'
<1> SUFFICES ASSUME IInv, StartReplication
             PROVE  Known'
  OBVIOUS
<1> USE DEF IInv, settings
<1>1. PICK messages : Read(messages)
  BY DEF StartReplication
<1>2. /\ operation = "start" /\ UNCHANGED <<trailing, requests, server, slotExists, copyAnswer>>
      /\ Len(answers) \in Nat /\ 1 \in DOMAIN answers /\ BelongsTo(1)
  BY <1>1, ReadShape DEF StartReplication, AnswersAreKnown, Fail
<1>3. requests \in {<<>>, <<"start">>, <<"create", "start">>} /\ (~trailing => requests = <<>>)
  BY <1>2 DEF PendingIsKnown, Pending, BelongsTo
<1>4. \/ operation' = "streaming" /\ answers[1].message = "copyOut"
      \/ operation' = "failed" /\ answers[1].message # "copyOut"
  BY ReadShape DEF StartReplication, Fail
<1>5. operation' = "streaming" => server = "copy" /\ requests = <<>>
  BY <1>2, <1>4 DEF CopyIsKnown
<1>6. PendingIsKnown'
  BY <1>2, <1>3, <1>4, <1>5 DEF PendingIsKnown, Pending
<1>7. AnswersAreKnown'
  BY <1>4 DEF AnswersAreKnown, BelongsTo, EndsAt
<1>8. CopyIsKnown'
  <2>1. \A n \in DOMAIN answers' : answers'[n].message \in {"copyOut", "copyBoth"} => server' = "copy"
    BY <1>1, <1>2, ReadShape DEF CopyIsKnown
  <2>2. server = "copy" /\ ~trailing /\ copyAnswer = "copyOut" => operation' = "streaming"
    BY <1>2, <1>4 DEF CopyIsKnown
  <2> QED
    BY <1>2, <1>4, <1>5, <2>1, <2>2 DEF CopyIsKnown
<1> QED
  BY <1>6, <1>7, <1>8 DEF Known

\* A lost connection and a new one leave nothing of the old one behind.
LEMMA ConnectionsKeep == IInv /\ (Disconnected \/ Reconnect) => Known'
<1> SUFFICES ASSUME IInv, Disconnected \/ Reconnect
             PROVE  Known'
  OBVIOUS
<1> USE DEF IInv, settings
<1>1. answers' = <<>> /\ DOMAIN answers' = {}
  BY DEF Disconnected, Reconnect
<1>2. AnswersAreKnown'
  BY <1>1 DEF AnswersAreKnown
<1>3. PendingIsKnown'
  BY DEF Disconnected, Reconnect, Fail, PendingIsKnown, Pending
<1>4. CopyIsKnown'
  BY <1>1 DEF Disconnected, Reconnect, Fail, CopyIsKnown
<1> QED
  BY <1>2, <1>3, <1>4 DEF Known

-----------------------------------------------------------------------------
(* The server's steps                                                      *)

\* What the server handles tells what the client is doing.
LEMMA HandledIsPending ==
    ASSUME IInv, NEW c \in Commands, Handle(c)
    PROVE  /\ requests # <<>> /\ Head(requests) = c
           /\ c \in {"startup", "password"} => operation = "authenticate" /\ requests = <<c>>
           /\ c = "identify" => operation = "identify" /\ requests = <<c>>
           /\ c = "create" => \/ operation = "create" /\ requests = <<c>>
                              \/ /\ operation \in {"start", "failed"} /\ trailing
                                 /\ requests = <<"create", "start">>
           /\ c = "start" => /\ operation \in {"start", "failed"} /\ requests = <<c>>
                             /\ operation = "failed" => trailing
           /\ requests' = IF requests = <<"create", "start">> THEN <<"start">> ELSE <<>>
           /\ UNCHANGED <<trailing, copyAnswer, operation>>
           /\ server # "copy"
<1> USE DEF IInv
<1>1. requests # <<>> /\ Head(requests) = c /\ requests' = Tail(requests)
  BY DEF Handle
<1>2. UNCHANGED <<trailing, copyAnswer, operation>> /\ server # "copy" /\ requests \in Pending
  BY <1>1 DEF Handle, settings, CopyIsKnown, PendingIsKnown
<1>3. \/ operation = "authenticate" /\ requests \in {<<"startup">>, <<"password">>}
      \/ operation = "identify" /\ requests = <<"identify">>
      \/ operation = "create" /\ requests = <<"create">>
      \/ operation \in {"start", "failed"} /\ trailing /\ requests \in {<<"start">>, <<"create", "start">>}
      \/ operation = "start" /\ requests = <<"start">>
  BY <1>1, <1>2 DEF Pending, TypeOK, Operations
<1> QED
  BY <1>1, <1>2, <1>3, Queues DEF Commands

\* An answer to a login ends where authenticate or awaitReady stops reading.
LoginAnswer(messages) ==
    /\ messages \in Seq(Messages)
    /\ \A k \in DOMAIN messages :
          /\ messages[k] \in {"ready", "authPassword"} => k = Len(messages)
          /\ messages[k] \notin {"copyOut", "copyBoth"}

LEMMA LoginAnswers ==
    \A messages \in {Welcome, <<"authPassword">>, <<"authOther">>, <<"error">>} : LoginAnswer(messages)
<1>1. LoginAnswer(Welcome)
  <2>1. /\ Welcome \in Seq(Messages) /\ Len(Welcome) = 3 /\ DOMAIN Welcome = 1 .. 3
        /\ Welcome[1] = "authOk" /\ Welcome[2] = "parameter" /\ Welcome[3] = "ready"
    BY DEF Welcome, Messages
  <2> QED
    BY <2>1 DEF LoginAnswer
<1>2. LoginAnswer(<<"authPassword">>)
  BY DEF LoginAnswer, Messages
<1>3. LoginAnswer(<<"authOther">>)
  BY DEF LoginAnswer, Messages
<1>4. LoginAnswer(<<"error">>)
  BY DEF LoginAnswer, Messages
<1> QED
  BY <1>1, <1>2, <1>3, <1>4

\* A login is answered when all has been read.
LEMMA LoginKeeps ==
    ASSUME IInv, NEW c \in {"startup", "password"}, Handle(c),
           NEW messages, LoginAnswer(messages), Answer(messages), server' # "copy"
    PROVE  Known'
<1> USE DEF IInv
<1>1. /\ operation = "authenticate" /\ requests # <<>> /\ Head(requests) = c
      /\ operation' = "authenticate" /\ requests' = <<>> /\ requests = <<c>>
  BY HandledIsPending DEF Commands
<1>2. DOMAIN answers = {}
  BY <1>1 DEF AnswersAreKnown, BelongsTo
<1>3. /\ DOMAIN answers' = DOMAIN messages /\ Len(answers') = Len(messages)
      /\ \A k \in DOMAIN messages : answers'[k] = [message |-> messages[k], command |-> c]
  <2>1. Len(answers) = 0
    BY <1>2 DEF TypeOK
  <2> HIDE DEF IInv
  <2>2. TypeOK
    BY DEF IInv
  <2>3. /\ Len(messages) \in Nat /\ DOMAIN messages = 1 .. Len(messages)
        /\ Len(answers') = Len(answers) + Len(messages)
        /\ DOMAIN answers' = 1 .. Len(answers) + Len(messages)
        /\ \A k \in DOMAIN messages :
              answers'[Len(answers) + k] = [message |-> messages[k], command |-> Head(requests)]
    BY <1>1, <2>2, AnswerShape DEF LoginAnswer
  <2>4. Len(answers') = Len(messages) /\ DOMAIN answers' = DOMAIN messages
    BY <2>1, <2>3
  <2>5. \A k \in DOMAIN messages : Len(answers) + k = k
    BY <2>1, <2>3
  <2> QED
    BY <1>1, <2>3, <2>4, <2>5
<1>4. PendingIsKnown'
  BY <1>1 DEF PendingIsKnown, Pending
<1>5. AnswersAreKnown'
  BY <1>1, <1>3 DEF AnswersAreKnown, BelongsTo, EndsAt, LoginAnswer
<1>6. CopyIsKnown'
  BY <1>1, <1>3 DEF CopyIsKnown, LoginAnswer
<1> QED
  BY <1>4, <1>5, <1>6 DEF Known

LEMMA HandleStartupKeeps == IInv /\ HandleStartup => Known'
<1>1. HandleStartup => \E messages \in {Welcome, <<"authPassword">>, <<"authOther">>, <<"error">>} :
                          Handle("startup") /\ Answer(messages) /\ server' # "copy"
  BY DEF HandleStartup
<1> QED
  BY <1>1, LoginAnswers, LoginKeeps

LEMMA HandlePasswordKeeps == IInv /\ HandlePassword => Known'
<1>1. HandlePassword => \E messages \in {Welcome, <<"error">>} :
                          Handle("password") /\ Answer(messages) /\ server' # "copy"
  BY DEF HandlePassword
<1> QED
  BY <1>1, LoginAnswers, LoginKeeps

\* A proper answer joins at most the ReadyForQuery identify_system left, or,
\* when it comes for a client further on, answers of which none matters.
LEMMA ProperKeeps ==
    ASSUME IInv, NEW c \in {"identify", "create", "start"}, Handle(c),
           NEW messages, Proper(messages), Answer(messages), server' = server,
           c = "start" => slotExists' = slotExists
    PROVE  Known'
<1>c. c \in Commands
  BY DEF Commands
<1>a. /\ requests # <<>> /\ Head(requests) = c /\ server # "copy"
      /\ UNCHANGED <<trailing, copyAnswer, operation>>
      /\ c = "identify" => operation = "identify" /\ requests = <<c>>
      /\ c = "create" => \/ operation = "create" /\ requests = <<c>>
                         \/ /\ operation \in {"start", "failed"} /\ trailing
                            /\ requests = <<"create", "start">>
      /\ c = "start" => operation \in {"start", "failed"} /\ requests = <<c>>
      /\ requests' = IF requests = <<"create", "start">> THEN <<"start">> ELSE <<>>
  BY <1>c, HandledIsPending
<1> USE DEF IInv
<1>1. /\ requests # <<>> /\ Head(requests) = c /\ server # "copy"
      /\ UNCHANGED <<trailing, copyAnswer, operation>>
      /\ c = "identify" => operation = "identify" /\ requests' = <<>>
      /\ c = "create" => \/ operation = "create" /\ requests' = <<>>
                         \/ operation \in {"start", "failed"} /\ trailing /\ requests' = <<"start">>
      /\ c = "start" => /\ operation \in {"start", "failed"} /\ requests' = <<>>
  BY <1>a, Queues, <1>c
<1>2. /\ Len(answers) \in Nat /\ Len(messages) \in Nat
      /\ DOMAIN answers = 1 .. Len(answers) /\ DOMAIN messages = 1 .. Len(messages)
      /\ Len(answers') = Len(answers) + Len(messages)
      /\ DOMAIN answers' = 1 .. Len(answers) + Len(messages)
      /\ \A n \in DOMAIN answers : answers'[n] = answers[n]
      /\ \A k \in DOMAIN messages :
            answers'[Len(answers) + k] = [message |-> messages[k], command |-> c]
  BY <1>1, AnswerShape DEF Proper
<1>3. ASSUME NEW n \in DOMAIN answers
      PROVE  BelongsTo(n)' /\ EndsAt(n)'
  <2>1. BelongsTo(n) /\ answers'[n] = answers[n] /\ n \in Nat
    BY <1>2, <1>3 DEF AnswersAreKnown
  <2>2. CASE operation = "create"
    <3>1. trailing /\ n = 1 /\ answers[n] = [message |-> "ready", command |-> "identify"]
      BY <1>1, <2>1, <2>2 DEF BelongsTo
    <3> QED
      BY <1>1, <2>1, <2>2, <3>1 DEF BelongsTo, EndsAt
  <2>3. CASE operation \in {"start", "failed"}
    BY <1>1, <2>1, <2>3 DEF BelongsTo, EndsAt
  <2> QED
    BY <1>1, <2>1, <2>2, <2>3 DEF BelongsTo
<1>4. ASSUME NEW k \in DOMAIN messages, NEW n, n = Len(answers) + k
      PROVE  BelongsTo(n)' /\ EndsAt(n)'
  <2>1. /\ k \in Nat /\ n \in Nat /\ n # 0
        /\ answers'[n] = [message |-> messages[k], command |-> c]
    BY <1>2, <1>4
  <2>2. BelongsTo(n)'
    BY <1>1, <2>1 DEF BelongsTo
  <2>3. n = Len(answers') <=> k = Len(messages)
    BY <1>2, <1>4, <2>1
  <2>4. k + 1 = Len(messages) =>
           n + 1 = Len(answers') /\ answers'[n + 1] = [message |-> messages[k + 1], command |-> c]
    <3> SUFFICES ASSUME k + 1 = Len(messages)
                 PROVE  n + 1 = Len(answers') /\ answers'[n + 1] = [message |-> messages[k + 1], command |-> c]
      OBVIOUS
    <3>1. k + 1 \in DOMAIN messages
      BY <1>2, <2>1
    <3>2. n + 1 = Len(answers) + (k + 1)
      BY <1>2, <1>4, <2>1
    <3> QED
      BY <1>2, <3>1, <3>2
  <2>5. EndsAt(n)'
    BY <1>1, <2>1, <2>3, <2>4 DEF EndsAt, Proper
  <2> QED
    BY <2>2, <2>5
<1>b. \A n \in DOMAIN answers' : n \notin DOMAIN answers =>
         \E k \in DOMAIN messages : n = Len(answers) + k
  <2> SUFFICES ASSUME NEW n \in DOMAIN answers', n \notin DOMAIN answers
               PROVE  \E k \in DOMAIN messages : n = Len(answers) + k
    OBVIOUS
  <2>1. n - Len(answers) \in DOMAIN messages /\ n = Len(answers) + (n - Len(answers))
    BY <1>2
  <2> QED
    BY <2>1
<1>5. AnswersAreKnown'
  <2> SUFFICES ASSUME NEW n \in DOMAIN answers'
               PROVE  BelongsTo(n)' /\ EndsAt(n)'
    BY DEF AnswersAreKnown
  <2>1. CASE n \in DOMAIN answers
    BY <1>3, <2>1
  <2>2. CASE n \notin DOMAIN answers
    <3>1. PICK k \in DOMAIN messages : n = Len(answers) + k
      BY <1>b, <2>2
    <3> QED
      BY <3>1, <1>4
  <2> QED
    BY <2>1, <2>2
<1>6. PendingIsKnown'
  BY <1>1 DEF PendingIsKnown, Pending
<1>7. CopyIsKnown'
  <2>1. \A n \in DOMAIN answers' : answers'[n].message \notin {"copyOut", "copyBoth"}
    <3> SUFFICES ASSUME NEW n \in DOMAIN answers'
                 PROVE  answers'[n].message \notin {"copyOut", "copyBoth"}
      OBVIOUS
    <3>1. CASE n \in DOMAIN answers
      BY <1>1, <1>2, <3>1 DEF CopyIsKnown
    <3>2. CASE n \notin DOMAIN answers
      <4>1. PICK k \in DOMAIN messages : n = Len(answers) + k
        BY <3>2, <1>b
      <4>2. answers'[n] = [message |-> messages[k], command |-> c]
        BY <1>2, <4>1
      <4>3. messages[k] \notin {"copyOut", "copyBoth"}
        BY DEF Proper
      <4> QED
        BY <4>2, <4>3
    <3> QED
      BY <3>1, <3>2
  <2> QED
    BY <1>1, <2>1 DEF CopyIsKnown
<1> QED
  BY <1>5, <1>6, <1>7 DEF Known

LEMMA HandleIdentifyKeeps == IInv /\ HandleIdentify => Known'
BY ProperAnswers, ProperKeeps DEF HandleIdentify

LEMMA HandleCreateKeeps == IInv /\ HandleCreate => Known'
BY ProperAnswers, ProperKeeps DEF HandleCreate

\* CopyBothResponse, or what the server has for it, is the one message there is
\* if answers do not trail: start_replication finds it.
LEMMA HandleStartKeeps == IInv /\ HandleStart => Known'
<1> SUFFICES ASSUME IInv, HandleStart
             PROVE  Known'
  OBVIOUS
<1>1. CASE Answer(<<"error">> \o Trailer) /\ UNCHANGED server
  BY <1>1, ProperAnswers, ProperKeeps DEF HandleStart
<1>2. CASE slotExists /\ Answer(<<copyAnswer>>) /\ server' = "copy"
  <2>1. /\ requests # <<>> /\ Head(requests) = "start" /\ requests = <<"start">> /\ requests' = <<>>
        /\ operation \in {"start", "failed"} /\ (operation = "failed" => trailing)
        /\ UNCHANGED <<trailing, copyAnswer, operation, slotExists>>
    <3>1. Handle("start") /\ UNCHANGED slotExists /\ "start" \in Commands
      BY DEF HandleStart, Commands
    <3> QED
      BY <3>1, HandledIsPending, Queues
  <2>2. /\ <<copyAnswer>> \in Seq(Messages) /\ Len(<<copyAnswer>>) = 1
        /\ DOMAIN <<copyAnswer>> = {1} /\ <<copyAnswer>>[1] = copyAnswer /\ TypeOK
    BY HandshakeAssumption DEF HandshakeAssumption, IInv, TypeOK, Messages
  <2>3. /\ Len(answers) \in Nat /\ DOMAIN answers = 1 .. Len(answers)
        /\ answers' \in Seq([message : Messages, command : Commands])
        /\ Len(answers') = Len(answers) + 1 /\ DOMAIN answers' = 1 .. Len(answers) + 1
        /\ \A n \in DOMAIN answers : answers'[n] = answers[n]
        /\ answers'[Len(answers) + 1] = [message |-> copyAnswer, command |-> "start"]
    <3> DEFINE messages == <<copyAnswer>>
    <3>1. /\ Len(answers) \in Nat /\ DOMAIN answers = 1 .. Len(answers)
          /\ answers' \in Seq([message : Messages, command : Commands])
          /\ Len(answers') = Len(answers) + Len(messages)
          /\ DOMAIN answers' = 1 .. Len(answers) + Len(messages)
          /\ \A n \in DOMAIN answers : answers'[n] = answers[n]
          /\ \A k \in DOMAIN messages :
                answers'[Len(answers) + k] = [message |-> messages[k], command |-> Head(requests)]
      BY <1>2, <2>1, <2>2, AnswerShape
    <3> HIDE DEF messages
    <3>2. Len(messages) = 1 /\ 1 \in DOMAIN messages /\ messages[1] = copyAnswer
      BY <2>2 DEF messages
    <3> QED
      BY <2>1, <3>1, <3>2
  <2>4. PendingIsKnown'
    BY <2>1 DEF PendingIsKnown, Pending
  <2>5. AnswersAreKnown'
    <3> SUFFICES ASSUME NEW n \in DOMAIN answers'
                 PROVE  BelongsTo(n)' /\ EndsAt(n)'
      BY DEF AnswersAreKnown
    <3>1. CASE n \in DOMAIN answers
      <4>1. BelongsTo(n) /\ answers'[n] = answers[n]
        BY <2>3, <3>1 DEF IInv, AnswersAreKnown
      <4> QED
        BY <2>1, <4>1 DEF BelongsTo, EndsAt
    <3>2. CASE n = Len(answers) + 1
      BY <2>1, <2>3, <3>2 DEF BelongsTo, EndsAt
    <3> QED
      BY <2>3, <3>1, <3>2
  <2>6. ~trailing => answers' = <<[message |-> "copyOut", command |-> "start"]>> \/ copyAnswer # "copyOut"
    <3> SUFFICES ASSUME ~trailing, copyAnswer = "copyOut"
                 PROVE  answers' = <<[message |-> "copyOut", command |-> "start"]>>
      OBVIOUS
    <3>1. \A n \in DOMAIN answers : BelongsTo(n)
      BY DEF IInv, AnswersAreKnown
    <3>2. DOMAIN answers = {}
      BY <2>1, <3>1 DEF BelongsTo
    <3>3. Len(answers) = 0
      BY <2>3, <3>2
    <3> QED
      BY <2>3, <3>3
  <2>7. CopyIsKnown'
    BY <1>2, <2>1, <2>6 DEF CopyIsKnown
  <2> QED
    BY <2>4, <2>5, <2>7 DEF Known
<1> QED
  BY <1>1, <1>2 DEF HandleStart

\* A server that goes down leaves its answers to be read.
LEMMA CloseKeeps == IInv /\ Close => Known'
<1> SUFFICES ASSUME IInv, Close
             PROVE  Known'
  OBVIOUS
<1> USE DEF IInv, settings
<1>1. /\ requests' = <<>> /\ UNCHANGED <<trailing, copyAnswer, operation, answers, slotExists>>
      /\ server # "copy" /\ server' = "closed"
  BY DEF Close
<1>2. PendingIsKnown'
  BY <1>1 DEF PendingIsKnown, Pending
<1>3. AnswersAreKnown'
  BY <1>1 DEF AnswersAreKnown, BelongsTo, EndsAt
<1>4. CopyIsKnown'
  BY <1>1 DEF CopyIsKnown
<1> QED
  BY <1>2, <1>3, <1>4 DEF Known

-----------------------------------------------------------------------------
(* The invariant                                                           *)

LEMMA Initial == Init => IInv
<1> SUFFICES ASSUME Init
             PROVE  IInv
  OBVIOUS
<1>1. TypeOK
  <2>1. /\ <<"startup">> \in Seq(Commands)
        /\ <<>> \in Seq([message : Messages, command : Commands])
    BY DEF Commands
  <2>2. 1 \in 1 .. MaxAttempts
    BY HandshakeAssumption DEF HandshakeAssumption
  <2> QED
    BY <2>1, <2>2 DEF Init, TypeOK, Operations
<1>2. DOMAIN answers = {}
  BY DEF Init
<1>3. PendingIsKnown
  BY DEF Init, PendingIsKnown, Pending
<1>4. AnswersAreKnown
  BY <1>2 DEF AnswersAreKnown
<1>5. CopyIsKnown
  BY <1>2 DEF Init, CopyIsKnown
<1> QED
  BY <1>1, <1>3, <1>4, <1>5 DEF IInv

LEMMA Inductive == IInv /\ [Next]_vars => IInv'
<1> SUFFICES ASSUME IInv, [Next]_vars
             PROVE  Known'
  BY TypesKept DEF IInv, Known
<1>1. CASE Client
  BY <1>1, AuthenticateKeeps, AwaitReadyKeeps, IdentifySystemKeeps,
     CreateReplicationSlotKeeps, StartReplicationKeeps, ConnectionsKeep DEF Client
<1>2. CASE Server
  BY <1>2, HandleStartupKeeps, HandlePasswordKeeps, HandleIdentifyKeeps,
     HandleCreateKeeps, HandleStartKeeps DEF Server
<1>3. CASE Close
  BY <1>3, CloseKeeps
<1>4. CASE UNCHANGED vars
  BY <1>4 DEF vars, settings, IInv, Known, PendingIsKnown, Pending, AnswersAreKnown,
     BelongsTo, EndsAt, CopyIsKnown
<1> QED
  BY <1>1, <1>2, <1>3, <1>4 DEF Next

LEMMA Always == Spec => []IInv
BY Initial, Inductive, PTL DEF Spec

-----------------------------------------------------------------------------
(* What lags                                                               *)

\* Where the ReadyForQuery that ends an answer is read, on top of IInv: behind
\* what ends identify_system, hence first of what create_replication_slot finds,
\* and the answer to CREATE_REPLICATION_SLOT first of what start_replication does.
BehindItsAnswer(n) ==
    /\ answers[n].message = "complete" => n < Len(answers)
    /\ answers[n].message = "ready" => n > 1 /\ answers[n - 1].message \in {"complete", "error"}

Lag ==
    /\ \A n \in DOMAIN answers :
          answers[n].message \in {"copyOut", "copyBoth"} => answers[n].command = "start"
    /\ trailing =>
          /\ operation = "identify" => \A n \in DOMAIN answers : BehindItsAnswer(n)
          /\ operation = "create" =>
                /\ 1 \in DOMAIN answers /\ answers[1] = [message |-> "ready", command |-> "identify"]
                /\ Len(answers) = 1 => requests = <<"create">> \/ server = "closed"
          /\ operation = "start" =>
                /\ 1 \in DOMAIN answers => answers[1].command = "create"
                /\ Len(answers) = 0 => requests = <<"create", "start">> \/ server = "closed"
          /\ operation # "streaming"

\* Reading a message leaves the others as they are.
LEMMA CopiesStayCopies ==
    ASSUME TypeOK, Lag, NEW messages, Read(messages)
    PROVE  \A n \in DOMAIN answers' :
              answers'[n].message \in {"copyOut", "copyBoth"} => answers'[n].command = "start"
BY ReadShape DEF Lag

\* The login is read to its end before IDENTIFY_SYSTEM is sent.
LEMMA LoginLags == IInv /\ Lag /\ (Authenticate \/ AwaitReady) => Lag'
<1> SUFFICES ASSUME IInv, Lag, Authenticate \/ AwaitReady
             PROVE  Lag'
  OBVIOUS
<1> USE DEF IInv, settings
<1>1. PICK messages : Read(messages)
  BY DEF Authenticate, AwaitReady, Ignore
<1>2. \/ operation' \in {"authenticate", "awaitReady", "failed"}
      \/ operation' = "identify" /\ operation = "awaitReady" /\ answers[1].message = "ready"
  BY ReadShape DEF Authenticate, AwaitReady, Ignore, Fail, Proceed
<1>3. operation' = "identify" => DOMAIN answers' = {}
  BY <1>1, <1>2, ReadShape DEF AnswersAreKnown, EndsAt
<1> QED
  BY <1>1, <1>2, <1>3, CopiesStayCopies DEF Lag

\* identify_system leaves the ReadyForQuery behind CommandComplete.
LEMMA IdentifySystemLags == IInv /\ Lag /\ IdentifySystem => Lag'
<1> SUFFICES ASSUME IInv, Lag, IdentifySystem
             PROVE  Lag'
  OBVIOUS
<1> USE DEF IInv, settings
<1>1. PICK messages : Read(messages)
  BY DEF IdentifySystem, Ignore
<1>2. /\ Len(answers) \in Nat /\ Len(answers) > 0 /\ DOMAIN answers = 1 .. Len(answers)
      /\ Len(answers') = Len(answers) - 1 /\ DOMAIN answers' = 1 .. Len(answers) - 1
      /\ \A n \in DOMAIN answers' : n + 1 \in DOMAIN answers /\ answers'[n] = answers[n + 1]
      /\ 1 \in DOMAIN answers /\ operation = "identify" /\ trailing' = trailing
  BY <1>1, ReadShape DEF IdentifySystem
<1>3. BelongsTo(1) /\ EndsAt(1) /\ requests = <<>> /\ answers[1].command = "identify"
  BY <1>2 DEF AnswersAreKnown, BelongsTo
<1>4. \/ operation' = "failed"
      \/ operation' = "identify" /\ answers[1].message \notin {"complete", "error"}
      \/ /\ operation' = "create" /\ requests' = <<"create">>
         /\ answers[1].message \in {"complete", "ready"}
  BY <1>2, <1>3, Queues, ReadShape DEF IdentifySystem, Ignore, Fail, Proceed, Send, Errors, Commands
<1>5. ASSUME trailing, operation' = "identify", NEW n \in DOMAIN answers'
      PROVE  BehindItsAnswer(n)'
  <2>1. /\ n \in Nat /\ n >= 1 /\ n + 1 \in DOMAIN answers /\ answers'[n] = answers[n + 1]
        /\ BehindItsAnswer(n + 1) /\ (n + 1) - 1 = n
    BY <1>2, <1>5 DEF Lag
  <2>2. answers'[n].message = "complete" => n < Len(answers')
    BY <1>2, <2>1 DEF BehindItsAnswer
  <2>3. ASSUME answers'[n].message = "ready"
        PROVE  n > 1 /\ answers'[n - 1].message \in {"complete", "error"}
    <3>1. answers[n].message \in {"complete", "error"}
      BY <2>1, <2>3 DEF BehindItsAnswer
    <3>2. n # 1
      BY <1>4, <1>5, <3>1
    <3>3. n - 1 \in DOMAIN answers' /\ answers'[n - 1] = answers[(n - 1) + 1] /\ (n - 1) + 1 = n
      BY <1>2, <2>1, <3>2
    <3> QED
      BY <2>1, <3>1, <3>2, <3>3
  <2> QED
    BY <2>2, <2>3 DEF BehindItsAnswer
<1>6. ASSUME trailing, operation' = "create"
      PROVE  1 \in DOMAIN answers' /\ answers'[1] = [message |-> "ready", command |-> "identify"]
  <2>1. BehindItsAnswer(1)
    BY <1>2, <1>6 DEF Lag
  <2>2. answers[1].message = "complete" /\ 1 < Len(answers)
    BY <1>4, <1>6, <2>1 DEF BehindItsAnswer
  <2>3. answers[2] = [message |-> "ready", command |-> "identify"]
    BY <1>2, <1>3, <2>2 DEF EndsAt
  <2>4. 1 \in DOMAIN answers' /\ answers'[1] = answers[2]
    BY <1>2, <2>2
  <2> QED
    BY <2>3, <2>4
<1> QED
  BY <1>1, <1>2, <1>4, <1>5, <1>6, CopiesStayCopies DEF Lag

\* create_replication_slot takes that ReadyForQuery for the end of its answer,
\* which it has not begun to read.
LEMMA CreateReplicationSlotLags == IInv /\ Lag /\ CreateReplicationSlot => Lag'
<1> SUFFICES ASSUME IInv, Lag, CreateReplicationSlot
             PROVE  Lag'
  OBVIOUS
<1> USE DEF IInv, settings
<1>1. PICK messages : Read(messages)
  BY DEF CreateReplicationSlot, Ignore
<1>2. /\ Len(answers) \in Nat /\ Len(answers) > 0 /\ DOMAIN answers = 1 .. Len(answers)
      /\ Len(answers') = Len(answers) - 1 /\ DOMAIN answers' = 1 .. Len(answers) - 1
      /\ \A n \in DOMAIN answers' : n + 1 \in DOMAIN answers /\ answers'[n] = answers[n + 1]
      /\ operation = "create" /\ UNCHANGED <<trailing, server>>
  BY <1>1, ReadShape DEF CreateReplicationSlot
<1>3. operation' \in {"create", "start", "failed"}
  BY <1>2 DEF CreateReplicationSlot, Ignore, Fail, Proceed
<1>4. ASSUME trailing
      PROVE  /\ operation' = "start"
             /\ 1 \in DOMAIN answers' => answers'[1].command = "create"
             /\ Len(answers') = 0 => requests' = <<"create", "start">> \/ server' = "closed"
  <2>1. /\ answers[1].message = "ready"
        /\ Len(answers) = 1 => requests = <<"create">> \/ server = "closed"
    BY <1>2, <1>4 DEF Lag
  <2>2. operation' = "start" /\ requests' = Append(requests, "start")
    BY <2>1, ReadShape DEF CreateReplicationSlot, Ignore, Fail, Proceed, Send
  <2>3. 1 \in DOMAIN answers' => answers'[1].command = "create"
    <3> SUFFICES ASSUME 1 \in DOMAIN answers'
                 PROVE  answers'[1].command = "create"
      OBVIOUS
    <3>1. 2 \in DOMAIN answers /\ answers'[1] = answers[2]
      BY <1>2
    <3>2. BelongsTo(2)
      BY <3>1 DEF AnswersAreKnown
    <3> QED
      BY <1>2, <3>1, <3>2 DEF BelongsTo
  <2> QED
    BY <1>2, <2>1, <2>2, <2>3, Queues
<1> QED
  BY <1>1, <1>2, <1>3, <1>4, CopiesStayCopies DEF Lag

\* start_replication does not find CopyBothResponse behind another answer.
LEMMA StartReplicationLags == IInv /\ Lag /\ StartReplication => Lag'
<1> SUFFICES ASSUME IInv, Lag, StartReplication
             PROVE  Lag'
  OBVIOUS
<1> USE DEF IInv, settings
<1>1. PICK messages : Read(messages)
  BY DEF StartReplication
<1>2. operation = "start" /\ trailing' = trailing /\ 1 \in DOMAIN answers
  BY <1>1, ReadShape DEF StartReplication
<1>3. \/ operation' = "streaming" /\ answers[1].message = "copyOut"
      \/ operation' = "failed"
  BY ReadShape DEF StartReplication, Fail
<1>4. trailing => operation' = "failed"
  BY <1>2, <1>3 DEF Lag
<1> QED
  BY <1>1, <1>2, <1>3, <1>4, CopiesStayCopies DEF Lag

\* A new connection, a lost one and a server that goes down say nothing new.
LEMMA ConnectionsLag == IInv /\ Lag /\ (Disconnected \/ Reconnect \/ Close) => Lag'
<1> SUFFICES ASSUME IInv, Lag, Disconnected \/ Reconnect \/ Close
             PROVE  Lag'
  OBVIOUS
<1>1. CASE Disconnected \/ Reconnect
  <2>1. DOMAIN answers' = {} /\ operation' \in {"failed", "authenticate"}
    BY <1>1 DEF Disconnected, Reconnect, Fail
  <2> QED
    BY <2>1 DEF Lag
<1>2. CASE Close
  <2>1. server' = "closed" /\ UNCHANGED <<trailing, operation, answers>>
    BY <1>2 DEF Close, settings
  <2> QED
    BY <2>1 DEF Lag, BehindItsAnswer
<1> QED
  BY <1>1, <1>2

\* How an answer to a command ends, if answers trail.
Trails(messages) ==
    trailing => \A k \in DOMAIN messages :
        /\ messages[k] = "complete" => k < Len(messages)
        /\ messages[k] = "ready" => k > 1 /\ messages[k - 1] \in {"complete", "error"}

LEMMA AnswersTrail == Trails(Rows \o Trailer) /\ Trails(<<"error">> \o Trailer)
<1> SUFFICES ASSUME trailing
             PROVE  Trails(Rows \o Trailer) /\ Trails(<<"error">> \o Trailer)
  BY DEF Trails
<1> DEFINE rows == Rows \o <<"ready">>
           error == <<"error">> \o <<"ready">>
<1>1. Trailer = <<"ready">>
  BY DEF Trailer
<1>2. /\ <<"ready">> \in Seq(Messages) /\ Len(<<"ready">>) = 1 /\ <<"ready">>[1] = "ready"
      /\ Rows \in Seq(Messages) /\ Len(Rows) = 3
      /\ Rows[1] = "rowDescription" /\ Rows[2] = "dataRow" /\ Rows[3] = "complete"
      /\ <<"error">> \in Seq(Messages) /\ Len(<<"error">>) = 1 /\ <<"error">>[1] = "error"
  BY DEF Messages, Rows
<1>a. ASSUME NEW body \in Seq(Messages), NEW tail \in Seq(Messages), Len(tail) = 1
      PROVE  /\ Len(body \o tail) = Len(body) + 1 /\ DOMAIN (body \o tail) = 1 .. Len(body) + 1
             /\ \A k \in 1 .. Len(body) : (body \o tail)[k] = body[k]
             /\ (body \o tail)[Len(body) + 1] = tail[1]
  <2> DEFINE whole == body \o tail
  <2>1. /\ whole \in Seq(Messages) /\ Len(whole) = Len(body) + Len(tail)
        /\ \A k \in 1 .. Len(body) + Len(tail) :
              whole[k] = IF k <= Len(body) THEN body[k] ELSE tail[k - Len(body)]
    BY ConcatProperties
  <2> HIDE DEF whole
  <2>2. Len(body) \in Nat /\ DOMAIN whole = 1 .. Len(body) + 1 /\ Len(whole) = Len(body) + 1
    BY <1>a, <2>1
  <2>3. \A k \in 1 .. Len(body) : whole[k] = body[k]
    BY <1>a, <2>1, <2>2
  <2>4. whole[Len(body) + 1] = tail[(Len(body) + 1) - Len(body)] /\ (Len(body) + 1) - Len(body) = 1
    BY <1>a, <2>1, <2>2
  <2> QED
    BY <2>2, <2>3, <2>4 DEF whole
<1>3. /\ Len(rows) = 4 /\ DOMAIN rows = 1 .. 4 /\ rows[1] = "rowDescription"
      /\ rows[2] = "dataRow" /\ rows[3] = "complete" /\ rows[4] = "ready"
  <2>1. /\ Len(rows) = Len(Rows) + 1 /\ DOMAIN rows = 1 .. Len(Rows) + 1
        /\ \A k \in 1 .. Len(Rows) : rows[k] = Rows[k]
        /\ rows[Len(Rows) + 1] = <<"ready">>[1]
    BY <1>2, <1>a
  <2> HIDE DEF rows
  <2> QED
    BY <1>2, <2>1
<1>4. Len(error) = 2 /\ DOMAIN error = 1 .. 2 /\ error[1] = "error" /\ error[2] = "ready"
  <2>1. /\ Len(error) = Len(<<"error">>) + 1 /\ DOMAIN error = 1 .. Len(<<"error">>) + 1
        /\ \A k \in 1 .. Len(<<"error">>) : error[k] = <<"error">>[k]
        /\ error[Len(<<"error">>) + 1] = <<"ready">>[1]
    BY <1>2, <1>a
  <2> HIDE DEF error
  <2> QED
    BY <1>2, <2>1
<1> HIDE DEF rows, error
<1>5. Trails(rows)
  BY <1>3 DEF Trails
<1>6. Trails(error)
  BY <1>4 DEF Trails
<1> QED
  BY <1>1, <1>5, <1>6 DEF rows, error

LEMMA NoAnswerIsEmpty ==
    /\ Len(Rows \o Trailer) > 0
    /\ Len(<<"error">> \o Trailer) > 0
    /\ Len(<<"alreadyExists">> \o Trailer) > 0
<1>1. Rows \in Seq(Messages) /\ Len(Rows) = 3
  BY DEF Messages, Rows
<1>3. /\ <<"error">> \in Seq(Messages) /\ Len(<<"error">>) = 1
      /\ <<"alreadyExists">> \in Seq(Messages) /\ Len(<<"alreadyExists">>) = 1
      /\ <<"ready">> \in Seq(Messages) /\ <<>> \in Seq(Messages)
  BY DEF Messages
<1>4. Trailer \in Seq(Messages)
  BY <1>3 DEF Trailer
<1>2. \A body, tail \in Seq(Messages) : Len(body \o tail) = Len(body) + Len(tail) /\ Len(tail) \in Nat
  BY ConcatProperties
<1>5. \A body \in Seq(Messages) : Len(body) > 0 => Len(body \o Trailer) > 0
  BY <1>2, <1>4
<1> QED
  BY <1>1, <1>3, <1>5

\* What waits afterwards waited before or is in the answer.
LEMMA AnswersAdd ==
    ASSUME TypeOK, NEW messages \in Seq(Messages), Answer(messages), requests # <<>>
    PROVE  \A n \in DOMAIN answers' :
              \/ n \in DOMAIN answers /\ answers'[n] = answers[n]
              \/ \E k \in DOMAIN messages :
                    /\ n = Len(answers) + k
                    /\ answers'[n] = [message |-> messages[k], command |-> Head(requests)]
<1> SUFFICES ASSUME NEW n \in DOMAIN answers', n \notin DOMAIN answers
             PROVE  \E k \in DOMAIN messages :
                       /\ n = Len(answers) + k
                       /\ answers'[n] = [message |-> messages[k], command |-> Head(requests)]
  BY AnswerShape
<1>1. /\ Len(answers) \in Nat /\ Len(messages) \in Nat
      /\ DOMAIN answers = 1 .. Len(answers) /\ DOMAIN messages = 1 .. Len(messages)
      /\ DOMAIN answers' = 1 .. Len(answers) + Len(messages)
      /\ \A k \in DOMAIN messages :
            answers'[Len(answers) + k] = [message |-> messages[k], command |-> Head(requests)]
  BY AnswerShape
<1>2. n - Len(answers) \in DOMAIN messages /\ n = Len(answers) + (n - Len(answers))
  BY <1>1
<1> QED
  BY <1>1, <1>2

\* An answer to a login is not one to a command.
LEMMA LoginHandledLags == IInv /\ Lag /\ (HandleStartup \/ HandlePassword) => Lag'
<1> SUFFICES ASSUME IInv, Lag, HandleStartup \/ HandlePassword
             PROVE  Lag'
  OBVIOUS
<1>1. PICK c \in {"startup", "password"} : Handle(c)
  BY DEF HandleStartup, HandlePassword
<1>2. PICK messages : LoginAnswer(messages) /\ Answer(messages)
  BY LoginAnswers DEF HandleStartup, HandlePassword
<1>3. operation' = "authenticate" /\ requests # <<>>
  BY <1>1, HandledIsPending DEF Commands
<1>4. \A n \in DOMAIN answers' :
         answers'[n].message \in {"copyOut", "copyBoth"} => answers'[n].command = "start"
  <2>1. messages \in Seq(Messages) /\ TypeOK
    BY <1>2 DEF LoginAnswer, IInv
  <2>2. \A n \in DOMAIN answers' :
           \/ n \in DOMAIN answers /\ answers'[n] = answers[n]
           \/ \E k \in DOMAIN messages :
                 answers'[n] = [message |-> messages[k], command |-> Head(requests)]
    BY <1>2, <1>3, <2>1, AnswersAdd
  <2> QED
    BY <1>2, <2>2 DEF LoginAnswer, Lag
<1> QED
  BY <1>3, <1>4 DEF Lag

\* IDENTIFY_SYSTEM is answered when all before it has been read.
LEMMA HandleIdentifyLags == IInv /\ Lag /\ HandleIdentify => Lag'
<1> SUFFICES ASSUME IInv, Lag, HandleIdentify
             PROVE  Lag'
  OBVIOUS
<1>1. /\ operation' = "identify" /\ operation = "identify" /\ requests # <<>>
      /\ trailing' = trailing /\ TypeOK
  BY HandledIsPending DEF HandleIdentify, Commands, IInv
<1>2. PICK messages : Proper(messages) /\ Trails(messages) /\ Answer(messages)
  BY ProperAnswers, AnswersTrail DEF HandleIdentify
<1>3. DOMAIN answers = {} /\ Len(answers) = 0
  <2>1. DOMAIN answers = {}
    BY <1>1 DEF IInv, AnswersAreKnown, BelongsTo
  <2> QED
    BY <1>1, <2>1 DEF TypeOK
<1>4. /\ Len(messages) \in Nat /\ DOMAIN messages = 1 .. Len(messages)
      /\ Len(answers') = Len(messages) /\ DOMAIN answers' = 1 .. Len(messages)
  <2>1. /\ Len(messages) \in Nat /\ DOMAIN messages = 1 .. Len(messages)
        /\ Len(answers') = Len(answers) + Len(messages)
        /\ DOMAIN answers' = 1 .. Len(answers) + Len(messages)
    BY <1>1, <1>2, AnswerShape DEF Proper
  <2> QED
    BY <1>3, <2>1
<1>5. \A k \in DOMAIN messages : answers'[k].message = messages[k]
  <2>1. \A k \in DOMAIN messages :
           answers'[Len(answers) + k] = [message |-> messages[k], command |-> Head(requests)]
    BY <1>1, <1>2, AnswerShape DEF Proper
  <2> SUFFICES ASSUME NEW k \in DOMAIN messages
               PROVE  answers'[k].message = messages[k]
    OBVIOUS
  <2>2. answers'[Len(answers) + k] = [message |-> messages[k], command |-> Head(requests)]
    BY <2>1
  <2>3. Len(answers) + k = k
    BY <1>3, <1>4
  <2> QED
    BY <2>2, <2>3
<1>6. ASSUME trailing, NEW n \in DOMAIN answers'
      PROVE  BehindItsAnswer(n)'
  <2>1. /\ messages[n] = "complete" => n < Len(messages)
        /\ messages[n] = "ready" => n > 1 /\ messages[n - 1] \in {"complete", "error"}
    BY <1>2, <1>4, <1>6 DEF Trails
  <2>2. n > 1 => n - 1 \in DOMAIN messages
    BY <1>4
  <2> QED
    BY <1>4, <1>5, <2>1, <2>2 DEF BehindItsAnswer
<1>7. \A n \in DOMAIN answers' : answers'[n].message \notin {"copyOut", "copyBoth"}
  BY <1>2, <1>4, <1>5 DEF Proper
<1> QED
  BY <1>1, <1>6, <1>7 DEF Lag

\* An answer to a later command comes behind what there is, or is the first.
LEMMA LaterHandledLags ==
    ASSUME IInv, Lag, NEW c \in {"create", "start"}, Handle(c), server' # "closed" \/ server = "closed",
           NEW messages \in Seq(Messages), Len(messages) > 0, Answer(messages),
           c = "create" => \A k \in DOMAIN messages : messages[k] \notin {"copyOut", "copyBoth"}
    PROVE  Lag'
<1>1. /\ requests # <<>> /\ Head(requests) = c /\ UNCHANGED <<trailing, operation>> /\ TypeOK
      /\ server # "closed"
      /\ c = "create" => \/ operation = "create"
                         \/ operation \in {"start", "failed"} /\ requests = <<"create", "start">>
      /\ c = "start" => operation \in {"start", "failed"} /\ requests = <<"start">>
  BY HandledIsPending DEF Commands, IInv, Handle
<1>2. /\ Len(answers) \in Nat /\ Len(messages) \in Nat
      /\ DOMAIN answers = 1 .. Len(answers) /\ DOMAIN messages = 1 .. Len(messages)
      /\ Len(answers') = Len(answers) + Len(messages)
      /\ DOMAIN answers' = 1 .. Len(answers) + Len(messages)
      /\ \A n \in DOMAIN answers : answers'[n] = answers[n]
      /\ \A k \in DOMAIN messages :
            answers'[Len(answers) + k] = [message |-> messages[k], command |-> c]
  BY <1>1, AnswerShape
<1>3. \A n \in DOMAIN answers' :
         answers'[n].message \in {"copyOut", "copyBoth"} => answers'[n].command = "start"
  <2>1. \A n \in DOMAIN answers' :
           \/ n \in DOMAIN answers /\ answers'[n] = answers[n]
           \/ \E k \in DOMAIN messages : answers'[n] = [message |-> messages[k], command |-> c]
    BY <1>1, AnswersAdd
  <2> QED
    BY <2>1 DEF Lag
<1>4. CASE 1 \in DOMAIN answers
  <2>1. answers'[1] = answers[1] /\ 1 \in DOMAIN answers' /\ Len(answers') > 1
    BY <1>2, <1>4
  <2>2. operation' \in {"create", "start", "failed"} /\ Len(answers') # 1 /\ Len(answers') # 0
    BY <1>1, <1>2, <1>4
  <2> QED
    BY <1>1, <1>3, <1>4, <2>1, <2>2 DEF Lag
<1>5. CASE 1 \notin DOMAIN answers
  <2>1. Len(answers) = 0 /\ 1 \in DOMAIN messages
    BY <1>2, <1>5
  <2>2. 1 \in DOMAIN answers' /\ answers'[1].command = c /\ Len(answers') > 0
    <3>a. answers'[Len(answers) + 1] = [message |-> messages[1], command |-> c]
      BY <1>2, <2>1
    <3>b. Len(answers) + 1 = 1
      BY <2>1
    <3>1. answers'[1] = [message |-> messages[1], command |-> c]
      BY <3>a, <3>b
    <3>2. 1 \in DOMAIN answers' /\ Len(answers') > 0
      BY <1>2, <2>1
    <3> QED
      BY <3>1, <3>2
  <2>3. trailing => operation # "create" /\ (operation = "start" => c = "create")
    <3>1. <<"start">> # <<"create", "start">>
      BY Queues DEF Commands
    <3> QED
      BY <1>1, <1>5, <2>1, <3>1 DEF Lag
  <2> QED
    BY <1>1, <1>3, <2>2, <2>3 DEF Lag
<1> QED
  BY <1>4, <1>5

LEMMA HandleCreateLags == IInv /\ Lag /\ HandleCreate => Lag'
<1> SUFFICES ASSUME IInv, Lag, HandleCreate
             PROVE  Lag'
  OBVIOUS
<1>1. Handle("create") /\ server' = server
  BY DEF HandleCreate
<1>2. PICK messages \in {Rows \o Trailer, <<"error">> \o Trailer, <<"alreadyExists">> \o Trailer} :
         Answer(messages)
  BY DEF HandleCreate
<1>3. messages \in Seq(Messages) /\ (\A k \in DOMAIN messages : messages[k] \notin {"copyOut", "copyBoth"})
  BY ProperAnswers DEF Proper
<1>4. Len(messages) > 0
  BY NoAnswerIsEmpty
<1> QED
  BY <1>1, <1>2, <1>3, <1>4, LaterHandledLags

LEMMA HandleStartLags == IInv /\ Lag /\ HandleStart => Lag'
<1> SUFFICES ASSUME IInv, Lag, HandleStart
             PROVE  Lag'
  OBVIOUS
<1>1. Handle("start") /\ server' \in {server, "copy"}
  BY DEF HandleStart
<1>2. PICK messages \in {<<copyAnswer>>, <<"error">> \o Trailer} : Answer(messages)
  BY DEF HandleStart
<1>3. <<copyAnswer>> \in Seq(Messages) /\ Len(<<copyAnswer>>) > 0
  BY HandshakeAssumption DEF HandshakeAssumption, IInv, TypeOK, Messages
<1>4. messages \in Seq(Messages) /\ Len(messages) > 0
  BY <1>3, ProperAnswers, NoAnswerIsEmpty DEF Proper
<1> QED
  BY <1>1, <1>2, <1>4, LaterHandledLags

\* The lag is kept by every step, on top of the invariant.
LEMMA LagInductive == IInv /\ Lag /\ [Next]_vars => Lag'
<1> SUFFICES ASSUME IInv, Lag, [Next]_vars
             PROVE  Lag'
  OBVIOUS
<1>1. CASE Client
  BY <1>1, LoginLags, IdentifySystemLags, CreateReplicationSlotLags, StartReplicationLags,
     ConnectionsLag DEF Client
<1>2. CASE Server
  BY <1>2, LoginHandledLags, HandleIdentifyLags, HandleCreateLags, HandleStartLags DEF Server
<1>3. CASE Close
  BY <1>3, ConnectionsLag
<1>4. CASE UNCHANGED vars
  BY <1>4 DEF vars, settings, Lag, BehindItsAnswer
<1> QED
  BY <1>1, <1>2, <1>3, <1>4 DEF Next

LEMMA AlwaysLag == Spec => []Lag
<1>1. Init => Lag
  <2>1. Init => DOMAIN answers = {} /\ operation = "authenticate"
    BY DEF Init
  <2> QED
    BY <2>1 DEF Lag
<1> QED
  BY <1>1, LagInductive, Always, PTL DEF Spec

-----------------------------------------------------------------------------
(* The theorems                                                            *)

\* Every variable has its type, and no more connections are made than allowed
\* (Replicator::run's max_retries).
THEOREM HandshakeTypes == Spec => []TypeOK
BY Always, PTL DEF IInv

\* The place of each command in Order.
LEMMA Turns ==
    /\ Turn("startup") = 1 /\ Turn("password") = 2 /\ Turn("identify") = 3
    /\ Turn("create") = 4 /\ Turn("start") = 5
<1>1. DOMAIN Order = 1 .. 5
  BY DEF Order
<1>2. /\ Order[1] = "startup" /\ Order[2] = "password" /\ Order[3] = "identify"
      /\ Order[4] = "create" /\ Order[5] = "start"
  BY DEF Order
<1>3. \A c, n : n \in DOMAIN Order /\ Order[n] = c
                 /\ (\A m \in DOMAIN Order : Order[m] = c => m = n) => Turn(c) = n
  BY DEF Turn
<1> QED
  BY <1>1, <1>2, <1>3

\* The message at the head of the socket belongs to what reads it.
LEMMA HeadBelongs ==
    IInv /\ answers # <<>> =>
        BelongsTo(1) /\ Head(answers) = answers[1] /\ Head(answers).command \in Commands
<1> SUFFICES ASSUME IInv, answers # <<>>
             PROVE  BelongsTo(1) /\ Head(answers) = answers[1] /\ Head(answers).command \in Commands
  OBVIOUS
<1> DEFINE All == [message : Messages, command : Commands]
<1>1. answers \in Seq(All)
  BY DEF IInv, TypeOK
<1>2. All = [message : Messages, command : Commands]
  OBVIOUS
<1> HIDE DEF All
<1>3. 1 \in DOMAIN answers /\ Head(answers) = answers[1] /\ Head(answers) \in All
  BY <1>1
<1>4. Head(answers).command \in Commands
  BY <1>2, <1>3
<1> QED
  BY <1>3, <1>4 DEF IInv, AnswersAreKnown

\* A client is at most one answer behind: what create_replication_slot and
\* start_replication find in front of their own answers is what the operation
\* before them left unread, and never older.
THEOREM AtMostOneBehindHolds == Spec => []AtMostOneBehind
<1>1. IInv => AtMostOneBehind
  <2> SUFFICES ASSUME IInv, answers # <<>>
               PROVE  \E n \in Asked : Turn(Head(answers).command) \in {n, n - 1}
    BY DEF AtMostOneBehind
  <2>1. operation \in Operations /\ Head(answers).command \in Commands /\ DOMAIN Order = 1 .. 5
    <3>1. Head(answers).command \in Commands
      BY HeadBelongs
    <3>2. DOMAIN Order = 1 .. 5
      BY DEF Order
    <3> QED
      BY <3>1, <3>2 DEF IInv, TypeOK
  <2>2. BelongsTo(1) /\ Head(answers) = answers[1]
    BY HeadBelongs
  <2>3. CASE operation \in {"authenticate", "awaitReady"}
    BY <2>2, <2>3, Turns DEF BelongsTo, Asked
  <2>4. CASE operation = "identify"
    BY <2>2, <2>4, Turns DEF BelongsTo, Asked
  <2>5. CASE operation = "create"
    BY <2>2, <2>5, Turns DEF BelongsTo, Asked
  <2>6. CASE operation = "start"
    BY <2>2, <2>6, Turns DEF BelongsTo, Asked
  <2>7. CASE operation \in {"streaming", "failed"}
    <3>1. Asked = 1 .. 5 /\ Turn(Head(answers).command) \in 1 .. 5
      BY <2>1, <2>7, Turns DEF Asked, Commands
    <3> QED
      BY <3>1
  <2> QED
    BY <2>1, <2>3, <2>4, <2>5, <2>6, <2>7 DEF Operations
<1> QED
  BY <1>1, Always, PTL

\* create_replication_slot and start_replication read their own answers with a
\* server whose answers end where each operation stops reading, and those of the
\* command before with one that ends them with ReadyForQuery, whatever the server
\* answers and however often the client comes back.
THEOREM LagIsExactHolds == Spec => []LagIsExact
<1>1. IInv /\ Lag => LagIsExact
  <2> SUFFICES ASSUME IInv, Lag, answers # <<>>
               PROVE  \E n \in Asked : Turn(Head(answers).command) =
                         n - (IF trailing /\ operation \in {"create", "start"} THEN 1 ELSE 0)
    BY DEF LagIsExact
  <2>1. operation \in Operations /\ Head(answers).command \in Commands /\ DOMAIN Order = 1 .. 5
    <3>1. Head(answers).command \in Commands
      BY HeadBelongs
    <3>2. DOMAIN Order = 1 .. 5
      BY DEF Order
    <3> QED
      BY <3>1, <3>2 DEF IInv, TypeOK
  <2>2. BelongsTo(1) /\ Head(answers) = answers[1] /\ 1 \in DOMAIN answers
    <3>1. 1 \in DOMAIN answers
      BY DEF IInv, TypeOK
    <3> QED
      BY <3>1, HeadBelongs
  <2>3. CASE operation \in {"authenticate", "awaitReady"}
    <3>1. Head(answers).command \in {"startup", "password"} /\ Asked = {1, 2}
      BY <2>2, <2>3 DEF BelongsTo, Asked
    <3> QED
      BY <2>3, <3>1, Turns
  <2>4. CASE operation = "identify"
    <3>1. Head(answers).command = "identify" /\ Asked = {3}
      BY <2>2, <2>4 DEF BelongsTo, Asked
    <3> QED
      BY <2>4, <3>1, Turns
  <2>5. CASE operation \in {"create", "start"} /\ ~trailing
    <3>1. Head(answers).command = operation /\ Asked = {Turn(operation)}
      BY <2>2, <2>5, Turns DEF BelongsTo, Asked
    <3> QED
      BY <2>5, <3>1, Turns
  <2>6. CASE operation = "create" /\ trailing
    <3>1. Head(answers).command = "identify" /\ Asked = {4}
      BY <2>2, <2>6 DEF Lag, Asked
    <3> QED
      BY <2>6, <3>1, Turns
  <2>7. CASE operation = "start" /\ trailing
    <3>1. Head(answers).command = "create" /\ Asked = {5}
      BY <2>2, <2>7 DEF Lag, Asked
    <3> QED
      BY <2>7, <3>1, Turns
  <2>8. CASE operation \in {"streaming", "failed"}
    <3>1. Asked = 1 .. 5 /\ Turn(Head(answers).command) \in 1 .. 5
      BY <2>1, <2>8, Turns DEF Asked, Commands
    <3> QED
      BY <2>8, <3>1
  <2> QED
    BY <2>1, <2>3, <2>4, <2>5, <2>6, <2>7, <2>8 DEF Operations
<1> QED
  BY <1>1, Always, AlwaysLag, PTL

\* start_replication returns only when the server streams, from a slot that
\* exists and with no answer trailing; and a server that streams is not left alone
\* by its client.
THEOREM StreamIsRealHolds == Spec => []StreamIsReal
<1>1. IInv /\ Lag => StreamIsReal
  BY DEF IInv, CopyIsKnown, Lag, StreamIsReal
<1> QED
  BY <1>1, Always, AlwaysLag, PTL

=============================================================================
