----------------------------- MODULE Handshake -----------------------------
(***************************************************************************)
(* How a ReplicationConnection (src/src/postgres/connection.rs) gets to a  *)
(* replication stream: it logs in, identifies the system, creates the slot *)
(* and starts replication, each command written to the socket and its      *)
(* answer read off it message by message; when a step fails,               *)
(* Replicator::run drops the connection and tries again.                   *)
(*                                                                         *)
(* The server is external.  It answers commands in order, and its answers  *)
(* wait in the socket until they are read.  Standard PostgreSQL ends each  *)
(* answer with ReadyForQuery and accepts START_REPLICATION with            *)
(* CopyBothResponse; a behaviour begins by choosing either from what the   *)
(* constants allow.                                                        *)
(***************************************************************************)
EXTENDS Integers, Sequences

CONSTANTS
    Trailing,       \* may a query's answer end with ReadyForQuery, or not?
    CopyAnswers,    \* the possible answers to an accepted START_REPLICATION
    MaxAttempts     \* bound: connections made

ASSUME HandshakeAssumption ==
    /\ Trailing \subseteq BOOLEAN
    /\ CopyAnswers \subseteq {"copyOut", "copyBoth"}
    /\ MaxAttempts \in Nat \ {0}

VARIABLES
    trailing,       \* do this server's answers end with ReadyForQuery?
    copyAnswer,     \* how it accepts START_REPLICATION
    method,         \* how the server wants the client to log in
    hasPassword,    \* does the connection string hold a password?
    operation,      \* what the client is doing
    gotRow,         \* has identify_system seen a data row?
    requests,       \* what the server has not handled yet
    answers,        \* what the client has not read yet
    server,         \* the state of the server's end
    slotExists,     \* is there a replication slot of that name?
    attempts        \* connections made so far

settings == <<trailing, copyAnswer, method, hasPassword>>
vars == <<settings, operation, gotRow, requests, answers, server, slotExists,
          attempts>>

Operations == {"authenticate", "awaitReady", "identify", "create", "start",
               "streaming", "failed"}
Commands == {"startup", "password", "identify", "create", "start"}
Messages == {"authOk", "authPassword", "authOther", "parameter", "ready",
             "rowDescription", "dataRow", "complete", "copyOut", "copyBoth",
             "error", "alreadyExists"}

Init ==
    /\ trailing \in Trailing
    /\ copyAnswer \in CopyAnswers
    /\ method \in {"trust", "password", "other"}
    /\ hasPassword \in BOOLEAN
    /\ operation = "authenticate"
    /\ gotRow = FALSE
    /\ requests = <<"startup">>
    /\ answers = <<>>
    /\ server = "login"
    /\ slotExists \in BOOLEAN
    /\ attempts = 1

-----------------------------------------------------------------------------
(* The client                                                              *)

\* Mutant: what write_message buffers is never flushed.
SendUnflushed(command) == requests' = requests

Send(command) == requests' = Append(requests, command)

\* read_message returns the next message.
Read(messages) ==
    /\ answers # <<>>
    /\ Head(answers).message \in messages
    /\ answers' = Tail(answers)

\* It is read, and of no interest.
Ignore(messages) == Read(messages) /\ UNCHANGED <<operation, requests>>

Fail == operation' = "failed" /\ UNCHANGED requests

\* ErrorResponse; create_replication_slot looks at the text.
Errors == {"error", "alreadyExists"}

Proceed(next, command) == operation' = next /\ Send(command)

\* The first loop of authenticate; it reads past the requests for any other
\* method of authentication.
Authenticate ==
    /\ operation = "authenticate"
    /\ \/ Read({"authOk"}) /\ operation' = "awaitReady" /\ UNCHANGED requests
       \/ /\ Read({"authPassword"})
          /\ hasPassword
          /\ Proceed("authenticate", "password")
       \/ Read({"authPassword"}) /\ ~hasPassword /\ Fail
       \/ Read(Errors) /\ Fail
       \/ Ignore(Messages \ ({"authOk", "authPassword"} \union Errors))
    /\ UNCHANGED <<settings, gotRow, server, slotExists, attempts>>

\* Its second loop; identify_system comes next.
AwaitReady ==
    /\ operation = "awaitReady"
    /\ \/ Read({"ready"}) /\ Proceed("identify", "identify")
       \/ Ignore(Messages \ {"ready"})
    /\ UNCHANGED <<settings, gotRow, server, slotExists, attempts>>

\* Mutant: identify_system returns at the first row.
IdentifySystemEarly ==
    /\ operation = "identify"
    /\ \/ Read({"dataRow"}) /\ gotRow' = TRUE /\ Proceed("create", "create")
       \/ Read({"complete", "ready"} \union Errors) /\ Fail /\ UNCHANGED gotRow
       \/ Ignore({"rowDescription"}) /\ UNCHANGED gotRow
    /\ UNCHANGED <<settings, server, slotExists, attempts>>

\* identify_system needs a row; it is done at CommandComplete, and the rest of
\* the answer is left in the socket.
IdentifySystem ==
    /\ operation = "identify"
    /\ \/ Read({"dataRow"}) /\ gotRow' = TRUE /\ UNCHANGED <<operation, requests>>
       \/ /\ Read({"complete", "ready"})
          /\ IF gotRow THEN Proceed("create", "create") ELSE Fail
          /\ UNCHANGED gotRow
       \/ Read(Errors) /\ Fail /\ UNCHANGED gotRow
       \/ /\ Ignore(Messages \ ({"dataRow", "complete", "ready"} \union Errors))
          /\ UNCHANGED gotRow
    /\ UNCHANGED <<settings, server, slotExists, attempts>>

\* Mutant: the slot is taken for created when its row arrives.
CreateReplicationSlotEarly ==
    /\ operation = "create"
    /\ \/ Read({"dataRow", "ready", "alreadyExists"}) /\ Proceed("start", "start")
       \/ Read({"error"}) /\ Fail
       \/ Ignore({"rowDescription"})
    /\ UNCHANGED <<settings, gotRow, server, slotExists, attempts>>

\* create_replication_slot is done at CommandComplete, at ReadyForQuery, or
\* when there is such a slot; start_replication comes next.
CreateReplicationSlot ==
    /\ operation = "create"
    /\ \/ /\ Read({"complete", "ready", "alreadyExists"})
          /\ Proceed("start", "start")
       \/ Read({"error"}) /\ Fail
       \/ Ignore(Messages \ {"complete", "ready", "alreadyExists", "error"})
    /\ UNCHANGED <<settings, gotRow, server, slotExists, attempts>>

\* Mutant: start_replication does not look at what it reads.
StartReplicationBlindly ==
    /\ operation = "start"
    /\ Read(Messages)
    /\ operation' = "streaming"
    /\ UNCHANGED <<settings, gotRow, requests, server, slotExists, attempts>>

\* start_replication reads one message.
StartReplication ==
    /\ operation = "start"
    /\ \/ Read({"copyOut"}) /\ operation' = "streaming" /\ UNCHANGED requests
       \/ Read(Messages \ {"copyOut"}) /\ Fail
    /\ UNCHANGED <<settings, gotRow, server, slotExists, attempts>>

\* A read finds the connection closed.
Disconnected ==
    /\ operation \notin {"streaming", "failed"}
    /\ server = "closed"
    /\ answers = <<>>
    /\ Fail
    /\ UNCHANGED <<settings, gotRow, answers, server, slotExists, attempts>>

\* Mutant: one retry too many.
ReconnectOnceMore ==
    /\ operation = "failed"
    /\ attempts <= MaxAttempts
    /\ attempts' = attempts + 1
    /\ operation' = "authenticate"
    /\ gotRow' = FALSE
    /\ requests' = <<"startup">>
    /\ answers' = <<>>
    /\ server' = "login"
    /\ UNCHANGED <<settings, slotExists>>

\* The next retry of run: a new connection, in place of the old one.
Reconnect ==
    /\ operation = "failed"
    /\ attempts < MaxAttempts
    /\ attempts' = attempts + 1
    /\ operation' = "authenticate"
    /\ gotRow' = FALSE
    /\ requests' = <<"startup">>
    /\ answers' = <<>>
    /\ server' = "login"
    /\ UNCHANGED <<settings, slotExists>>

-----------------------------------------------------------------------------
(* The server                                                              *)

Answer(messages) ==
    answers' = answers \o [k \in DOMAIN messages |->
                              [message |-> messages[k], command |-> Head(requests)]]

\* The server handles the next request.
Handle(command) ==
    /\ server # "closed"
    /\ requests # <<>>
    /\ Head(requests) = command
    /\ requests' = Tail(requests)
    /\ UNCHANGED <<settings, operation, gotRow, attempts>>

Welcome == <<"authOk", "parameter", "ready">>

HandleStartup ==
    /\ Handle("startup")
    /\ \/ method = "trust" /\ Answer(Welcome) /\ server' = "ready"
       \/ method = "password" /\ Answer(<<"authPassword">>) /\ server' = "login"
       \/ method = "other" /\ Answer(<<"authOther">>) /\ server' = "login"
       \/ Answer(<<"error">>) /\ server' = "closed"
    /\ UNCHANGED slotExists

HandlePassword ==
    /\ Handle("password")
    /\ \/ Answer(Welcome) /\ server' = "ready"
       \/ Answer(<<"error">>) /\ server' = "closed"
    /\ UNCHANGED slotExists

Trailer == IF trailing THEN <<"ready">> ELSE <<>>
Rows == <<"rowDescription", "dataRow", "complete">>

HandleIdentify ==
    /\ Handle("identify")
    /\ Answer(Rows \o Trailer) \/ Answer(<<"error">> \o Trailer)
    /\ UNCHANGED <<server, slotExists>>

HandleCreate ==
    /\ Handle("create")
    /\ \/ ~slotExists /\ slotExists' = TRUE /\ Answer(Rows \o Trailer)
       \/ slotExists /\ Answer(<<"alreadyExists">> \o Trailer) /\ UNCHANGED slotExists
       \/ Answer(<<"error">> \o Trailer) /\ UNCHANGED slotExists
    /\ UNCHANGED server

HandleStart ==
    /\ Handle("start")
    /\ \/ slotExists /\ Answer(<<copyAnswer>>) /\ server' = "copy"
       \/ Answer(<<"error">> \o Trailer) /\ UNCHANGED server
    /\ UNCHANGED slotExists

\* The server gives up on a client that does not log in, or goes down.
Close ==
    /\ server \in {"login", "ready"}
    /\ server' = "closed"
    /\ requests' = <<>>
    /\ UNCHANGED <<settings, operation, gotRow, answers, slotExists, attempts>>

-----------------------------------------------------------------------------
Client == \/ Authenticate \/ AwaitReady \/ IdentifySystem \/ CreateReplicationSlot
          \/ StartReplication \/ Disconnected \/ Reconnect

Server == HandleStartup \/ HandlePassword \/ HandleIdentify \/ HandleCreate \/ HandleStart

Next == Client \/ Server \/ Close

Spec == Init /\ [][Next]_vars

\* The client is polled, the server answers what it is asked, and a login that
\* does not come to an end is cut short (authentication_timeout).
Fairness == WF_vars(Client) /\ WF_vars(Server) /\ WF_vars(Close /\ server = "login")

FairSpec == Spec /\ Fairness

-----------------------------------------------------------------------------
(* Correctness                                                             *)

\* Every variable has its type, and no more connections are made than allowed.
TypeOK ==
    /\ trailing \in Trailing
    /\ copyAnswer \in CopyAnswers
    /\ hasPassword \in BOOLEAN
    /\ operation \in Operations
    /\ gotRow \in BOOLEAN
    /\ requests \in Seq(Commands)
    /\ answers \in Seq([message : Messages, command : Commands])
    /\ server \in {"login", "ready", "copy", "closed"}
    /\ slotExists \in BOOLEAN
    /\ attempts \in 1 .. MaxAttempts

\* The commands whose answers an operation reads, in the order they are sent.
Order == <<"startup", "password", "identify", "create", "start">>
Turn(command) == CHOOSE n \in DOMAIN Order : Order[n] = command
Asked ==
    CASE operation \in {"authenticate", "awaitReady"} -> {1, 2}
      [] operation = "identify"                       -> {3}
      [] operation = "create"                         -> {4}
      [] operation = "start"                          -> {5}
      [] OTHER                                        -> DOMAIN Order

\* Every operation reads the answer to its own command: what the comments on
\* create_replication_slot ("Read response") and start_replication ("Wait for
\* CopyBothResponse") take for granted.
ReadsOwnAnswer ==
    answers # <<>> => Turn(Head(answers).command) \in Asked

\* How far the slot and stream commands are behind: not at all with a server
\* whose answers end where each operation stops reading, and exactly one answer
\* with a server that ends them with ReadyForQuery, as PostgreSQL does.  There
\* create_replication_slot always reads the end of IDENTIFY_SYSTEM's answer, and
\* start_replication always what CREATE_REPLICATION_SLOT was told.
LagIsExact ==
    LET lag == IF trailing /\ operation \in {"create", "start"} THEN 1 ELSE 0
    IN  answers # <<>> => \E n \in Asked : Turn(Head(answers).command) = n - lag

\* What an operation leaves unread is read by the next one at the latest: the
\* client is never two answers behind the server.
AtMostOneBehind ==
    answers # <<>> => \E n \in Asked : Turn(Head(answers).command) \in {n, n - 1}

\* The client streams only from a server that streams, out of a slot that
\* exists and in answer to its own command, never from one whose answers trail;
\* and a server that streams finds the client streaming, if its answers are the
\* ones expected.
StreamIsReal ==
    /\ operation = "streaming" => server = "copy" /\ slotExists /\ ~trailing
    /\ server = "copy" /\ answers = <<>> /\ ~trailing /\ copyAnswer = "copyOut" =>
          operation = "streaming"

\* No attempt hangs: each comes to a stream or to an error, which run sees.
HandshakeEnds == []<>(operation \in {"streaming", "failed"})
=============================================================================
