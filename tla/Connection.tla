----------------------------- MODULE Connection -----------------------------
(***************************************************************************)
(* One Connection of connection.py through its whole life, with the        *)
(* Pipeline of pipeline.py on it, used by one thread at a time: connect()  *)
(* and its negotiation, execute() with and without the cache, batches,     *)
(* drains and close(), against a server that answers in order, pushes      *)
(* frames when it likes and may go away.                                   *)
(*                                                                         *)
(* A frame carries the number of commands the server had answered when it  *)
(* wrote it, so that a reply names the command it answers.  Freshness      *)
(* across connections is the subject of CachedExecute; here the cache is   *)
(* one entry and a ticket.                                                 *)
(***************************************************************************)
EXTENDS Naturals, Sequences, FiniteSets

CONSTANTS
    Configs,      \* the constructor's arguments to consider
    Executed,     \* what callers send with execute()
    Pipelined,    \* what callers push on a pipeline
    Quirks,       \* what else the server does, of AllQuirks
    MaxConnects,  \* bound: connect() calls that reach the server
    MaxCommands,  \* bound: commands written on one socket
    MaxBatch,     \* bound: commands queued on the pipeline
    MaxPushes     \* bound: pushes of each kind on one socket

AllCommands == {"GET", "SET", "MULTI", "EXEC", "RESET"}
AllQuirks == {"refuses HELLO", "refuses HELLO to a caching client",
              "refuses TRACKING", "sends garbage", "wraps pushes",
              "keeps MULTI after a failed EXEC"}
AllConfigs == [protocol : {2, 3}, db : BOOLEAN, named : BOOLEAN, caching : BOOLEAN]

ASSUME ConfigsAssumption ==
    /\ Configs \subseteq AllConfigs
    /\ \A f \in Configs : f.caching => f.protocol = 3
ASSUME CommandsAssumption ==
    Executed \cup Pipelined \subseteq AllCommands /\ Quirks \subseteq AllQuirks
ASSUME BoundsAssumption == {MaxConnects, MaxCommands, MaxBatch, MaxPushes} \subseteq Nat

VARIABLES
    config,
    \* Connection
    open,       \* _sock is not None
    poisoned, version, info, inMulti,
    pushes,     \* _pushes_discarded
    fed,        \* how many of the frames in incoming the parser was fed
    queue,      \* Pipeline._commands
    \* the call in progress
    pc,
    sending,    \* encoded and not yet written
    command,    \* execute()'s
    answer,     \* execute()'s reply
    ticket,     \* would the cache take an offer with the generation recorded?
    entry,      \* the cache's entry for the key
    \* the server's side of the socket, and the way back
    alive, session, requests, incoming,
    \* history of this socket
    written,    \* commands written
    served,     \* commands the server answered
    taken,      \* replies read
    latest,     \* the command that the reply last read answers
    pushed,     \* ordinary pushes sent
    told,       \* invalidations sent
    connects

clientVars == <<open, poisoned, version, info, inMulti, pushes, queue>>
callVars == <<pc, sending, command, answer, ticket, entry>>
serverVars == <<alive, session, requests, served>>
streamVars == <<incoming, fed>>
countVars == <<written, taken, latest>>
sentVars == <<pushed, told>>
vars == <<config, clientVars, callVars, serverVars, streamVars, countVars,
          sentVars, connects>>

-----------------------------------------------------------------------------
Usable == open /\ ~poisoned

\* _negotiate()'s commands in their order; each is also a value of pc.
Steps == <<"HELLO", "TRACKING", "SELECT", "SETNAME">>
Negotiating == {"HELLO", "TRACKING", "SELECT", "SETNAME"}
Draining == {"before", "after", "sweep"}
Labels == Negotiating \cup Draining \cup {"out", "roundtrip", "batch"}

Wanted(step, v) ==
    CASE step = "HELLO" -> config.protocol = 3
      [] step = "TRACKING" -> config.caching
      [] step = "SELECT" -> config.db
      [] step = "SETNAME" -> config.named /\ v = 2

\* Go on with the first wanted step after the i-th, or return.
NegotiateAfter(i, v) ==
    LET left == {j \in 1..4 : j > i /\ Wanted(Steps[j], v)}
    IN  IF left = {}
        THEN pc' = "out" /\ sending' = <<>>
        ELSE \E j \in left :
                 /\ \A k \in left : j <= k
                 /\ pc' = Steps[j]
                 /\ sending' = <<Steps[j]>>

FreshSession ==
    [proto |-> 2, multi |-> FALSE, tracking |-> FALSE, db |-> FALSE, named |-> FALSE]

\* The socket is gone, and with it what the parser and the server hold.
Hangup ==
    /\ open' = FALSE
    /\ alive' = FALSE
    /\ requests' = <<>>
    /\ incoming' = <<>>
    /\ fed' = 0

-----------------------------------------------------------------------------
\* Connection.__init__: inert, nothing known.
Init ==
    /\ config \in Configs
    /\ open = FALSE
    /\ poisoned = FALSE
    /\ version = 0
    /\ info = "empty"
    /\ inMulti = FALSE
    /\ pushes = 0
    /\ queue = <<>>
    /\ pc = "out"
    /\ sending = <<>>
    /\ command = "none"
    /\ answer = "none"
    /\ ticket = FALSE
    /\ entry = "none"
    /\ alive = FALSE
    /\ session = FreshSession
    /\ requests = <<>>
    /\ incoming = <<>>
    /\ fed = 0
    /\ written = 0
    /\ served = 0
    /\ taken = 0
    /\ latest = 0
    /\ pushed = 0
    /\ told = 0
    /\ connects = 0

\* connect() on a closed connection, up to the first command to be sent.  A
\* refused or unconfigurable socket raises and changes nothing.
Connect ==
    /\ pc = "out" /\ ~open
    /\ connects < MaxConnects
    /\ connects' = connects + 1
    /\ open' = TRUE
    /\ fed' = 0
    /\ poisoned' = FALSE
    /\ pushes' = 0
    /\ IF config.protocol = 3
       THEN UNCHANGED <<version, info>> /\ NegotiateAfter(0, version)
       ELSE version' = 2 /\ info' = "empty" /\ NegotiateAfter(0, 2)
    /\ alive' = TRUE
    /\ session' = FreshSession
    /\ requests' = <<>>
    /\ incoming' = <<>>
    /\ written' = 0 /\ served' = 0 /\ taken' = 0 /\ latest' = 0
    /\ pushed' = 0 /\ told' = 0
    /\ UNCHANGED <<config, inMulti, queue, command, answer, ticket, entry>>

\* close(), and the with block's exit.
Close ==
    /\ pc = "out" /\ open
    /\ Hangup
    /\ UNCHANGED <<config, poisoned, version, info, inMulti, pushes, queue, callVars,
                   session, served, countVars, sentVars, connects>>

\* What every raise out of a round trip, a batch or a drain comes to.
Raise ==
    /\ pc' = "out"
    /\ sending' = <<>>
    /\ command' = "none"
    /\ IF pc \in Negotiating
       THEN Hangup
       ELSE UNCHANGED <<open, alive, requests, incoming, fed>>

\* Mutant: a failure raises without poisoning.
FailUnpoisoned ==
    /\ pc # "out"
    /\ \/ sending # <<>>
       \/ fed = 0 /\ pc \notin Draining /\ (incoming = <<>> \/ ~alive)
       \/ fed = 0 /\ pc \in Draining /\ Usable /\ ~alive
    /\ Raise
    /\ UNCHANGED <<config, poisoned, version, info, inMulti, pushes, queue, answer,
                   ticket, entry, session, served, countVars, sentVars, connects>>

\* Mutant: a socket without a timeout.
FailAtEndOnly ==
    /\ pc # "out"
    /\ Usable /\ ~alive /\ fed = 0
    /\ poisoned' = TRUE
    /\ Raise
    /\ UNCHANGED <<config, version, info, inMulti, pushes, queue, answer, ticket,
                   entry, session, served, countVars, sentVars, connects>>

\* The stream position is lost: a timeout, an OSError or the end of the stream
\* while sending, reading or draining.
Fail ==
    /\ pc # "out"
    /\ \/ sending # <<>>
       \/ fed = 0 /\ pc \notin Draining /\ (incoming = <<>> \/ ~alive)
       \/ fed = 0 /\ pc \in Draining /\ Usable /\ ~alive
    /\ poisoned' = TRUE
    /\ Raise
    /\ UNCHANGED <<config, version, info, inMulti, pushes, queue, answer,
                   ticket, entry, session, served, countVars, sentVars, connects>>

\* KeyboardInterrupt during connect(): its handler closes like for any other.
InterruptConnect ==
    /\ pc \in Negotiating
    /\ Raise
    /\ UNCHANGED <<config, poisoned, version, info, inMulti, pushes, queue, answer, ticket, entry, session, served, countVars, sentVars, connects>>

-----------------------------------------------------------------------------
\* execute(), Pipeline.push(), .reset() and .execute() up to the write.

\* Mutant: the transaction is forgotten.
CacheableInMulti(op) == config.caching /\ op = "GET"

Cacheable(op) == config.caching /\ op = "GET" /\ ~inMulti

\* Into _roundtrip, which raises on a closed or poisoned connection.
Roundtrip(op) ==
    IF Usable
    THEN pc' = "roundtrip" /\ sending' = <<op>> /\ command' = op
    ELSE pc' = "out" /\ sending' = <<>> /\ command' = "none"

Execute(op) ==
    /\ pc = "out"
    /\ written < MaxCommands
    /\ IF Cacheable(op)
       THEN pc' = "before" /\ command' = op /\ UNCHANGED sending
       ELSE Roundtrip(op)
    /\ UNCHANGED <<config, clientVars, answer, ticket, entry, serverVars, streamVars,
                   countVars, sentVars, connects>>

\* The lookup, once the sweep of the peers and the own drain are done; a peer
\* that could not be swept makes it a miss.  A miss records the generation.
LookUp ==
    /\ pc = "before"
    /\ ~Usable \/ incoming = <<>>
    /\ \/ /\ entry # "none"
          /\ pc' = "out" /\ command' = "none"
          /\ UNCHANGED <<sending, ticket>>
       \/ ticket' = TRUE /\ Roundtrip(command)
    /\ UNCHANGED <<config, clientVars, answer, entry, serverVars, streamVars,
                   countVars, sentVars, connects>>

Push(op) ==
    /\ pc = "out"
    /\ Len(queue) < MaxBatch
    /\ queue' = Append(queue, op)
    /\ UNCHANGED <<config, open, poisoned, version, info, inMulti, pushes, callVars,
                   serverVars, streamVars, countVars, sentVars, connects>>

ResetQueue ==
    /\ pc = "out" /\ queue # <<>>
    /\ queue' = <<>>
    /\ UNCHANGED <<config, open, poisoned, version, info, inMulti, pushes, callVars,
                   serverVars, streamVars, countVars, sentVars, connects>>

\* The queue is consumed before any I/O; an unusable connection raises first.
ExecuteBatch ==
    /\ pc = "out" /\ queue # <<>>
    /\ Usable
    /\ written + Len(queue) <= MaxCommands
    /\ pc' = "batch"
    /\ sending' = queue
    /\ queue' = <<>>
    /\ UNCHANGED <<config, open, poisoned, version, info, inMulti, pushes, command,
                   answer, ticket, entry, serverVars, streamVars, countVars, sentVars,
                   connects>>

\* _send: everything is written before any reply is read.
Send ==
    /\ sending # <<>>
    /\ requests' = IF alive THEN requests \o sending ELSE requests
    /\ written' = written + Len(sending)
    /\ sending' = <<>>
    /\ UNCHANGED <<config, clientVars, pc, command, answer, ticket, entry, alive,
                   session, served, streamVars, taken, latest, sentVars, connects>>

-----------------------------------------------------------------------------
\* Reading.

Reply(as, n) == [kind |-> "reply", as |-> as, at |-> n]
Wrapped(f) == f.kind = "wrapped push"
IsPush(f) == f.kind \in {"push", "invalidate"}
IsValue(f) == (f.kind = "reply" /\ f.as # "garbage") \/ Wrapped(f)

Awaiting == pc \in Negotiating \cup {"roundtrip", "batch"} /\ sending = <<>>
Looking == Awaiting \/ pc \in Draining
Parsed == Usable /\ fed > 0

TakeFrame == incoming' = Tail(incoming) /\ fed' = fed - 1

\* _recv, _recv_ready and _recv_rest_of_frame: some of what has arrived.
Recv ==
    /\ Usable /\ Looking /\ fed = 0
    /\ fed' \in 1..Len(incoming)
    /\ UNCHANGED <<config, clientVars, callVars, serverVars, incoming, countVars,
                   sentVars, connects>>

\* Mutant: a caching connection counts the invalidations it consumes.
HandlePushCountingAll ==
    /\ Looking /\ Parsed /\ IsPush(Head(incoming))
    /\ TakeFrame
    /\ pushes' = pushes + 1
    /\ IF config.caching /\ Head(incoming).kind = "invalidate"
       THEN entry' = "none" /\ ticket' = FALSE
       ELSE UNCHANGED <<entry, ticket>>
    /\ UNCHANGED <<config, open, poisoned, version, info, inMulti, queue, pc, sending,
                   command, answer, serverVars, countVars, sentVars, connects>>

\* _handle_push, for a reader and for a drain.
HandlePush ==
    /\ Looking /\ Parsed /\ IsPush(Head(incoming))
    /\ TakeFrame
    /\ IF config.caching /\ Head(incoming).kind = "invalidate"
       THEN entry' = "none" /\ ticket' = FALSE /\ UNCHANGED pushes
       ELSE pushes' = pushes + 1 /\ UNCHANGED <<entry, ticket>>
    /\ UNCHANGED <<config, open, poisoned, version, info, inMulti, queue, pc, sending,
                   command, answer, serverVars, countVars, sentVars, connects>>

\* gets() raises ProtocolError, or a drain finds a reply nobody waits for.
Desynchronised ==
    /\ Looking /\ Parsed
    /\ \/ Head(incoming).as = "garbage"
       \/ pc \in Draining /\ IsValue(Head(incoming))
    /\ poisoned' = TRUE
    /\ Raise
    /\ UNCHANGED <<config, version, info, inMulti, pushes, queue, answer,
                   ticket, entry, session, served, countVars, sentVars, connects>>

\* _read_reply returns; as is what the reply turned out to be.
ReadReply(as) ==
    /\ Awaiting /\ Parsed
    /\ IsValue(Head(incoming))
    /\ as = Head(incoming).as
    /\ taken' = taken + 1
    /\ latest' = Head(incoming).at
    /\ UNCHANGED <<config, queue, pushes, poisoned, written, sentVars, connects, session,
                   served>>

Stays == TakeFrame /\ UNCHANGED <<open, alive, requests>>

\* A reply to HELLO selects RESP3 and an error RESP2.  The version is set
\* before _as_info_dict may find the reply to be no map, which closes.
HelloAnswered ==
    /\ pc = "HELLO"
    /\ ReadReply("ok")
    /\ version' = 3 /\ info' = "hello"
    /\ NegotiateAfter(1, 3)
    /\ Stays
    /\ UNCHANGED <<inMulti, command, answer, ticket, entry>>

HelloRefused ==
    /\ pc = "HELLO"
    /\ ReadReply("error")
    /\ version' = 2 /\ info' = "empty"
    /\ NegotiateAfter(1, 2)
    /\ Stays
    /\ UNCHANGED <<inMulti, command, answer, ticket, entry>>

HelloUnusable ==
    /\ pc = "HELLO"
    /\ \E as \in {"odd", "push"} : ReadReply(as)
    /\ version' = 3 /\ UNCHANGED info
    /\ Raise
    /\ UNCHANGED <<inMulti, answer, ticket, entry>>

\* The reply to CLIENT TRACKING ON is not looked at.
TrackingAnswered ==
    /\ pc = "TRACKING"
    /\ \E as \in {"ok", "error", "push"} : ReadReply(as)
    /\ NegotiateAfter(2, version)
    /\ Stays
    /\ UNCHANGED <<version, info, inMulti, command, answer, ticket, entry>>

\* Mutant: an error reply to SELECT or SETNAME is taken like any other.
SetupAnsweredAnyhow ==
    /\ \E i \in {3, 4}, as \in {"ok", "error", "push"} :
          /\ pc = Steps[i]
          /\ ReadReply(as)
          /\ NegotiateAfter(i, version)
          /\ Stays
    /\ UNCHANGED <<version, info, inMulti, command, answer, ticket, entry>>

\* SELECT and CLIENT SETNAME go through execute(), where an error raises.
SetupAnswered ==
    /\ \E i \in {3, 4}, as \in {"ok", "error", "push"} :
          /\ pc = Steps[i]
          /\ ReadReply(as)
          /\ IF as = "error"
             THEN Raise
             ELSE NegotiateAfter(i, version) /\ Stays /\ UNCHANGED command
    /\ UNCHANGED <<version, info, inMulti, answer, ticket, entry>>

\* Mutant: any command other than MULTI ends the transaction.
CommandAnsweredForgetting ==
    /\ pc = "roundtrip"
    /\ \E as \in {"ok", "value", "untracked", "queued", "error", "push"} :
          /\ ReadReply(as)
          /\ IF as # "error" /\ Cacheable(command)
             THEN pc' = "after" /\ answer' = as /\ UNCHANGED command
             ELSE pc' = "out" /\ command' = "none" /\ UNCHANGED answer
    /\ inMulti' = (command = "MULTI")
    /\ Stays
    /\ UNCHANGED <<version, info, sending, ticket, entry>>

\* execute() gets its reply: the transaction flag moves before the reply is
\* looked at, an error raises, and a cacheable reply is kept for the offer.
CommandAnswered ==
    /\ pc = "roundtrip"
    /\ \E as \in {"ok", "value", "untracked", "queued", "error", "push"} :
          /\ ReadReply(as)
          /\ IF as # "error" /\ Cacheable(command)
             THEN pc' = "after" /\ answer' = as /\ UNCHANGED command
             ELSE pc' = "out" /\ command' = "none" /\ UNCHANGED answer
    /\ inMulti' = IF inMulti THEN command \notin {"EXEC", "RESET"} ELSE command = "MULTI"
    /\ Stays
    /\ UNCHANGED <<version, info, sending, ticket, entry>>

\* Mutant: the first error ends the batch.
SlotFilledUntilError ==
    /\ pc = "batch"
    /\ \E as \in {"ok", "value", "untracked", "queued", "error", "push"} :
          /\ ReadReply(as)
          /\ pc' = IF taken' = written \/ as = "error" THEN "out" ELSE "batch"
    /\ Stays
    /\ UNCHANGED <<version, info, inMulti, sending, command, answer, ticket, entry>>

\* A slot of the batch's result; an error is a value there.
SlotFilled ==
    /\ pc = "batch"
    /\ \E as \in {"ok", "value", "untracked", "queued", "error", "push"} : ReadReply(as)
    /\ pc' = IF taken' = written THEN "out" ELSE "batch"
    /\ Stays
    /\ UNCHANGED <<version, info, inMulti, sending, command, answer, ticket, entry>>

\* The drain after the reply ran dry: the offer.
Offer ==
    /\ pc = "after"
    /\ incoming = <<>>
    /\ pc' = "out"
    /\ entry' = IF ticket THEN answer ELSE entry
    /\ answer' = "none"
    /\ command' = "none"
    /\ ticket' = FALSE
    /\ UNCHANGED <<config, clientVars, sending, serverVars, streamVars,
                   countVars, sentVars, connects>>

\* A peer's sweep of this connection between two commands of its owner.
Sweep ==
    /\ pc = "out" /\ Usable /\ config.caching
    /\ incoming # <<>> \/ ~alive
    /\ pc' = "sweep"
    /\ UNCHANGED <<config, clientVars, sending, command, answer, ticket, entry,
                   serverVars, streamVars, countVars, sentVars, connects>>

SweepEnds ==
    /\ pc = "sweep" /\ incoming = <<>>
    /\ pc' = "out"
    /\ UNCHANGED <<config, clientVars, sending, command, answer, ticket, entry,
                   serverVars, streamVars, countVars, sentVars, connects>>

-----------------------------------------------------------------------------
\* The server and the network.

Granted(op) ==
    CASE op = "HELLO" -> {[as |-> "ok",
             session |-> [session EXCEPT !.proto = 3, !.named = config.named]]}
      [] op = "TRACKING" -> {[as |-> "ok", session |-> [session EXCEPT !.tracking = TRUE]]}
      [] op = "SELECT" -> {[as |-> "ok", session |-> [session EXCEPT !.db = TRUE]]}
      [] op = "SETNAME" -> {[as |-> "ok", session |-> [session EXCEPT !.named = TRUE]]}
      [] op = "MULTI" -> {[as |-> "ok", session |-> [session EXCEPT !.multi = TRUE]] :
                             x \in IF session.multi THEN {} ELSE {0}}
      [] op = "EXEC" -> {[as |-> a, session |-> [session EXCEPT !.multi = FALSE]] :
                             a \in IF session.multi THEN {"ok", "error"} ELSE {}}
      [] op = "RESET" -> {[as |-> "ok", session |-> FreshSession]}
      [] op = "SET" -> {[as |-> IF session.multi THEN "queued" ELSE "ok",
                         session |-> session]}
      [] op = "GET" -> {[as |-> IF session.multi THEN "queued"
                                ELSE IF session.tracking /\ session.proto = 3 THEN "value"
                                ELSE "untracked",
                         session |-> session]}

Refused(op) ==
    {[as |-> a, session |-> session] :
        a \in (IF \/ op \in {"SELECT", "SETNAME", "GET", "SET"}
                  \/ op = "MULTI" /\ session.multi
                  \/ op = "EXEC" /\ ~session.multi
                  \/ op = "EXEC" /\ "keeps MULTI after a failed EXEC" \in Quirks
                  \/ op = "HELLO" /\ ~config.caching /\ "refuses HELLO" \in Quirks
                  \/ op = "HELLO" /\ "refuses HELLO to a caching client" \in Quirks
                  \/ op = "TRACKING" /\ "refuses TRACKING" \in Quirks
               THEN {"error"} ELSE {})
              \cup (IF "sends garbage" \in Quirks
                    THEN {"garbage"} \cup (IF op = "HELLO" THEN {"odd"} ELSE {})
                    ELSE {})}

Serve ==
    /\ alive /\ requests # <<>>
    /\ \E a \in Granted(Head(requests)) \cup Refused(Head(requests)) :
          /\ incoming' = Append(incoming, Reply(a.as, served + 1))
          /\ session' = a.session
    /\ served' = served + 1
    /\ requests' = Tail(requests)
    /\ UNCHANGED <<config, clientVars, callVars, alive, fed, countVars, sentVars,
                   connects>>

\* A push of any other kind, to a client that speaks RESP3.
ServerPush ==
    /\ alive /\ session.proto = 3
    /\ pushed < MaxPushes
    /\ \E kind \in {"push"} \cup (IF "wraps pushes" \in Quirks THEN {"wrapped push"} ELSE {}) :
          incoming' = Append(incoming, [kind |-> kind, as |-> "push", at |-> served])
    /\ pushed' = pushed + 1
    /\ UNCHANGED <<config, clientVars, callVars, serverVars, fed, countVars, told,
                   connects>>

Invalidate ==
    /\ alive /\ session.tracking /\ session.proto = 3
    /\ told < MaxPushes
    /\ incoming' = Append(incoming, [kind |-> "invalidate", as |-> "push", at |-> served])
    /\ told' = told + 1
    /\ UNCHANGED <<config, clientVars, callVars, serverVars, fed, countVars, pushed,
                   connects>>

\* The peer is gone; what it sent may still be read.
LinkDown ==
    /\ alive
    /\ alive' = FALSE
    /\ requests' = <<>>
    /\ UNCHANGED <<config, clientVars, callVars, session, served, streamVars, countVars,
                   sentVars, connects>>

-----------------------------------------------------------------------------
UserStep ==
    \/ Connect \/ Close \/ ResetQueue \/ ExecuteBatch \/ Sweep
    \/ \E op \in Executed : Execute(op)
    \/ \E op \in Pipelined : Push(op)
CallStep ==
    \/ Fail \/ LookUp \/ Send \/ Recv \/ HandlePush \/ Desynchronised
    \/ HelloAnswered \/ HelloRefused \/ HelloUnusable \/ TrackingAnswered
    \/ SetupAnswered \/ CommandAnswered \/ SlotFilled \/ Offer \/ SweepEnds
ServerStep == Serve \/ ServerPush \/ Invalidate \/ LinkDown

Next == UserStep \/ CallStep \/ InterruptConnect \/ ServerStep

Spec == Init /\ [][Next]_vars

\* The calling thread runs, and its socket has a timeout.
FairSpec == Spec /\ WF_vars(CallStep)

-----------------------------------------------------------------------------
Frames == [kind : {"reply"}, at : Nat,
           as : {"ok", "value", "untracked", "queued", "error", "garbage", "odd"}]
          \cup [kind : {"push", "invalidate", "wrapped push"}, as : {"push"}, at : Nat]

Commands == AllCommands \cup Negotiating
Sessions == [proto : {2, 3}, multi : BOOLEAN, tracking : BOOLEAN,
             db : BOOLEAN, named : BOOLEAN]
Answers == {"none", "ok", "value", "untracked", "queued", "push"}

ClientTyped ==
    /\ open \in BOOLEAN /\ poisoned \in BOOLEAN /\ inMulti \in BOOLEAN
    /\ version \in {0, 2, 3}
    /\ info \in {"empty", "hello"}
    /\ pushes \in Nat
    /\ queue \in Seq(Commands)
CallTyped ==
    /\ pc \in Labels
    /\ sending \in Seq(Commands)
    /\ command \in Commands \cup {"none"}
    /\ pc = "before" => command \in Commands
    /\ answer \in Answers /\ entry \in Answers
    /\ ticket \in BOOLEAN
ServerTyped ==
    /\ alive \in BOOLEAN
    /\ session \in Sessions
    /\ requests \in Seq(Commands)
    /\ served \in Nat
StreamTyped == incoming \in Seq(Frames) /\ fed \in 0..Len(incoming)
CountTyped ==
    /\ written \in Nat /\ taken \in Nat /\ latest \in Nat
    /\ pushed \in Nat /\ told \in Nat /\ connects \in Nat

\* The types of the variables.
TypeOK ==
    /\ config \in AllConfigs
    /\ ClientTyped /\ CallTyped /\ ServerTyped /\ StreamTyped /\ CountTyped

\* Every command is answered by its own reply, in order and once, whatever
\* pushes, batches, drains, failures and reconnections come between: the frame
\* a reader returns is the reply to the next command due (connection.py:529,
\* pipeline.py:101, the resets of connect() and close()).
Promise == INSTANCE RequestReply WITH
    asked <- written, answered <- taken, last <- latest, broken <- ~Usable
RepliesInOrder == Promise!Spec

\* Between two commands nothing but pushes can be in the socket, so a drain
\* that finds a reply has found a broken server (connection.py:377-382).
OnlyPushesBetween ==
    Usable /\ pc \in Draining \cup {"out"} =>
        \A i \in 1..Len(incoming) : incoming[i].kind # "reply"

\* No ordinary push is lost, counted twice or taken for an invalidation:
\* pushes_discarded and the pushes still unread are all the server sent since
\* connect() (connection.py:551-563).
PushesCounted ==
    Usable => pushed = pushes + Cardinality({i \in 1..Len(incoming) :
                                                incoming[i].kind = "push"})

\* A connection that can be used outside connect() is set up as it was
\* constructed, and what it says of itself is what the server thinks: a
\* negotiation that failed half way left nothing to use (connection.py:212-217,
\* 462-488).
SetUp ==
    Usable /\ pc \notin Negotiating =>
        /\ session.proto = version
        /\ session.db = config.db
        /\ session.named = config.named
        /\ config.caching => session.tracking

\* _in_multi is never behind the server: between two commands, a server that
\* is queueing commands has a client that knows (connection.py:344-347).
TransactionKnown ==
    (Usable /\ pc \in {"out", "before"} /\ session.multi) => inMulti

\* Nothing enters the cache but a value whose change the server will announce:
\* no QUEUED placeholder, no push, no reply read without tracking
\* (connection.py:46-50, 478-482).
OnlyTrackedCached == entry \in {"none", "value"}

\* Every call of connect(), execute(), Pipeline.execute() and every sweep
\* returns or raises.
CallsReturn == (pc # "out") ~> (pc = "out")
=============================================================================
