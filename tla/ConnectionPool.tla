--------------------------- MODULE ConnectionPool ---------------------------
(***************************************************************************)
(* The thread-safe pool of connections (resp3_wire/pool.py).               *)
(*                                                                         *)
(* Each "with self._cond" block is one action, and each socket operation   *)
(* between two blocks is an action of its own: the lock is free while a    *)
(* connection is opened, checked or closed, so any other thread's block    *)
(* may run there.  Condition.wait() puts the thread at the end of the      *)
(* condition's deque; notify() removes the head, whoever it is.  A waiter  *)
(* whose time is up stays in the deque until it has the lock again, so it  *)
(* can still be the one that notify() removes.                             *)
(***************************************************************************)
EXTENDS Integers, Sequences, FiniteSets

CONSTANTS
    Threads,         \* application threads
    Conns,           \* the Connection objects that may be created: a bound
    NoConn,          \* stands for "no connection"
    MaxConnections,  \* _max_connections
    HealthChecks,    \* TRUE when health_check_interval is not zero
    Interrupts,      \* TRUE when KeyboardInterrupt may hit a blocking call
    StrayReleases    \* TRUE when a thread may release what it does not hold

ASSUME MaxConnectionsAssumption == MaxConnections \in Nat \ {0}
ASSUME NoConnAssumption == NoConn \notin Conns
ASSUME SwitchAssumption ==
    HealthChecks \in BOOLEAN /\ Interrupts \in BOOLEAN /\ StrayReleases \in BOOLEAN
ASSUME ThreadsAssumption == IsFiniteSet(Threads)
ASSUME ConnsAssumption == IsFiniteSet(Conns)

VARIABLES
    idle,      \* _idle, oldest first
    inUse,     \* _in_use
    owned,     \* _owned
    reserved,  \* _reserved
    closed,    \* _closed
    waiters,   \* the deque of the condition variable
    pc,        \* where each thread is
    conn,      \* the connection each thread has in its hands
    expired,   \* the threads whose acquire() deadline has passed
    doomed,    \* the connections each thread inside close() has yet to close
    sock,      \* per connection: never connected, open or closed
    poisoned,  \* the connections whose _poisoned flag is set
    residue    \* the connections with a reply asked for and not read

poolVars == <<idle, inUse, owned, reserved, closed>>
threadVars == <<pc, conn, expired, doomed>>
streamVars == <<sock, poisoned, residue>>
vars == <<poolVars, waiters, threadVars, streamVars>>

Init ==
    /\ idle = <<>>
    /\ inUse = {}
    /\ owned = {}
    /\ reserved = 0
    /\ closed = FALSE
    /\ waiters = <<>>
    /\ pc = [t \in Threads |-> "out"]
    /\ conn = [t \in Threads |-> NoConn]
    /\ expired = {}
    /\ doomed = [t \in Threads |-> {}]
    /\ sock = [c \in Conns |-> "new"]
    /\ poisoned = {}
    /\ residue = {}

IdleSet == {idle[i] : i \in 1..Len(idle)}
Total == Len(idle) + Cardinality(inUse)          \* _total_locked()
Connected(c) == sock[c] = "open"                 \* is_connected
Usable(c) == Connected(c) /\ c \notin poisoned

Goto(t, label) == pc' = [pc EXCEPT ![t] = label]

\* acquire() or release() returns or raises: the thread forgets its locals.
Leave(t) ==
    /\ Goto(t, "out")
    /\ conn' = [conn EXCEPT ![t] = NoConn]
    /\ expired' = expired \ {t}
    /\ UNCHANGED doomed

\* acquire() hands the connection out.
Borrow(t) ==
    /\ Goto(t, "hold")
    /\ expired' = expired \ {t}

\* Condition.notify()
Notify == waiters' = IF waiters = <<>> THEN <<>> ELSE Tail(waiters)

CloseSocket(c) == sock' = [sock EXCEPT ![c] = "closed"]

-----------------------------------------------------------------------------
\* acquire(): the critical section at the top of the loop, one action a branch.

Call(t) ==
    /\ pc[t] = "out"
    /\ Goto(t, "acquire")
    /\ UNCHANGED <<poolVars, waiters, conn, expired, doomed, streamVars>>

RefuseClosed(t) ==
    /\ pc[t] = "acquire"
    /\ closed
    /\ Leave(t)
    /\ UNCHANGED <<poolVars, waiters, streamVars>>

\* Mutant: the idle connection is looked at and not taken off the list.
TakeIdlePeeking(t) ==
    /\ pc[t] = "acquire"
    /\ ~closed
    /\ idle # <<>>
    /\ inUse' = inUse \cup {Head(idle)}
    /\ conn' = [conn EXCEPT ![t] = Head(idle)]
    /\ Goto(t, "check")
    /\ UNCHANGED <<idle, owned, reserved, closed, waiters, expired, doomed,
                   streamVars>>

TakeIdle(t) ==
    /\ pc[t] = "acquire"
    /\ ~closed
    /\ idle # <<>>
    /\ idle' = Tail(idle)
    /\ inUse' = inUse \cup {Head(idle)}
    /\ conn' = [conn EXCEPT ![t] = Head(idle)]
    /\ Goto(t, "check")
    /\ UNCHANGED <<owned, reserved, closed, waiters, expired, doomed, streamVars>>

\* Mutant: the connections being opened are not counted.
ReserveUncounted(t) ==
    /\ pc[t] = "acquire"
    /\ ~closed
    /\ idle = <<>>
    /\ Total < MaxConnections
    /\ reserved' = reserved + 1
    /\ Goto(t, "opening")
    /\ UNCHANGED <<idle, inUse, owned, closed, waiters, conn, expired, doomed,
                   streamVars>>

Reserve(t) ==
    /\ pc[t] = "acquire"
    /\ ~closed
    /\ idle = <<>>
    /\ Total + reserved < MaxConnections
    /\ reserved' = reserved + 1
    /\ Goto(t, "opening")
    /\ UNCHANGED <<idle, inUse, owned, closed, waiters, conn, expired, doomed,
                   streamVars>>

AtLimit == ~closed /\ idle = <<>> /\ Total + reserved >= MaxConnections

\* Mutant: the time left is not looked at again after a wait.
WaitAnew(t) ==
    /\ pc[t] = "acquire"
    /\ AtLimit
    /\ waiters' = Append(waiters, t)
    /\ Goto(t, "waiting")
    /\ UNCHANGED <<poolVars, conn, expired, doomed, streamVars>>

\* Neither a connection nor a slot, and time left: wait() releases the lock.
Wait(t) ==
    /\ pc[t] = "acquire"
    /\ AtLimit
    /\ t \notin expired
    /\ waiters' = Append(waiters, t)
    /\ Goto(t, "waiting")
    /\ UNCHANGED <<poolVars, conn, expired, doomed, streamVars>>

RaiseTimeout(t) ==
    /\ pc[t] = "acquire"
    /\ AtLimit
    /\ t \in expired
    /\ Leave(t)
    /\ UNCHANGED <<poolVars, waiters, streamVars>>

\* wait() returns because notify() removed the thread from the deque, or
\* because its time is up, in which case it removes itself.
Queued(t) == \E i \in 1..Len(waiters) : waiters[i] = t

Woken(t) ==
    /\ pc[t] = "waiting"
    /\ ~Queued(t)
    /\ Goto(t, "acquire")
    /\ UNCHANGED <<poolVars, waiters, conn, expired, doomed, streamVars>>

LeaveQueue(t) ==
    \E i \in 1..Len(waiters) :
        /\ waiters[i] = t
        /\ waiters' = SubSeq(waiters, 1, i - 1)
                        \o SubSeq(waiters, i + 1, Len(waiters))

TimedOut(t) ==
    /\ pc[t] = "waiting"
    /\ t \in expired
    /\ LeaveQueue(t)
    /\ Goto(t, "acquire")
    /\ UNCHANGED <<poolVars, conn, expired, doomed, streamVars>>

\* The deadline of an acquire() in progress passes.
Expire(t) ==
    /\ pc[t] \in {"acquire", "waiting", "check", "ping", "discard", "discarded"}
    /\ t \notin expired
    /\ expired' = expired \cup {t}
    /\ UNCHANGED <<poolVars, waiters, pc, conn, doomed, streamVars>>

-----------------------------------------------------------------------------
\* acquire(), continued: _is_stale() and _discard(), with the lock released.

FindUnusable(t) ==
    /\ pc[t] = "check"
    /\ ~Usable(conn[t])
    /\ Goto(t, "discard")
    /\ UNCHANGED <<poolVars, waiters, conn, expired, doomed, streamVars>>

FindUsable(t) ==
    /\ pc[t] = "check"
    /\ Usable(conn[t])
    /\ Borrow(t)
    /\ UNCHANGED <<poolVars, waiters, conn, doomed, streamVars>>

\* The connection has been idle for longer than the interval.
SendPing(t) ==
    /\ pc[t] = "check"
    /\ HealthChecks
    /\ Usable(conn[t])
    /\ residue' = residue \cup {conn[t]}
    /\ Goto(t, "ping")
    /\ UNCHANGED <<poolVars, waiters, conn, expired, doomed, sock, poisoned>>

PingAnswered(t) ==
    /\ pc[t] = "ping"
    /\ Connected(conn[t])
    /\ residue' = residue \ {conn[t]}
    /\ Borrow(t)
    /\ UNCHANGED <<poolVars, waiters, conn, doomed, sock, poisoned>>

\* An answer other than PONG, which leaves the stream intact.
PingAnsweredWrongly(t) ==
    /\ pc[t] = "ping"
    /\ Connected(conn[t])
    /\ residue' = residue \ {conn[t]}
    /\ Goto(t, "discard")
    /\ UNCHANGED <<poolVars, waiters, conn, expired, doomed, sock, poisoned>>

\* A timeout, a lost connection or a protocol error, which poisons.
PingFailed(t) ==
    /\ pc[t] = "ping"
    /\ poisoned' = poisoned \cup {conn[t]}
    /\ Goto(t, "discard")
    /\ UNCHANGED <<poolVars, waiters, conn, expired, doomed, sock, residue>>

\* Mutant: the slot is given up and nobody is told.
DiscardSilently(t) ==
    /\ pc[t] = "discard"
    /\ inUse' = inUse \ {conn[t]}
    /\ owned' = owned \ {conn[t]}
    /\ Goto(t, "discarded")
    /\ UNCHANGED <<idle, reserved, closed, waiters, conn, expired, doomed, streamVars>>

Discard(t) ==
    /\ pc[t] = "discard"
    /\ inUse' = inUse \ {conn[t]}
    /\ owned' = owned \ {conn[t]}
    /\ Notify
    /\ Goto(t, "discarded")
    /\ UNCHANGED <<idle, reserved, closed, conn, expired, doomed, streamVars>>

\* The socket is closed after the slot was given up, and the loop goes on.
CloseDiscarded(t) ==
    /\ pc[t] = "discarded"
    /\ CloseSocket(conn[t])
    /\ conn' = [conn EXCEPT ![t] = NoConn]
    /\ Goto(t, "acquire")
    /\ UNCHANGED <<poolVars, waiters, expired, doomed, poisoned, residue>>

-----------------------------------------------------------------------------
\* _open_reserved(): connect() with the lock released, then the bookkeeping.

ConnectOk(t, c) ==
    /\ pc[t] = "opening"
    /\ sock[c] = "new"
    /\ sock' = [sock EXCEPT ![c] = "open"]
    /\ conn' = [conn EXCEPT ![t] = c]
    /\ Goto(t, "opened")
    /\ UNCHANGED <<poolVars, waiters, expired, doomed, poisoned, residue>>

\* Mutant: the slot is not given back.
ConnectFailedKeepingSlot(t) ==
    /\ pc[t] = "opening"
    /\ Notify
    /\ Leave(t)
    /\ UNCHANGED <<poolVars, streamVars>>

ConnectFailed(t) ==
    /\ pc[t] = "opening"
    /\ reserved' = reserved - 1
    /\ Notify
    /\ Leave(t)
    /\ UNCHANGED <<idle, inUse, owned, closed, streamVars>>

\* Mutant: whether the pool was closed meanwhile is not looked at.
InstallAnyway(t) ==
    /\ pc[t] = "opened"
    /\ reserved' = reserved - 1
    /\ owned' = owned \cup {conn[t]}
    /\ inUse' = inUse \cup {conn[t]}
    /\ Borrow(t)
    /\ UNCHANGED <<idle, closed, waiters, conn, doomed, streamVars>>

Install(t) ==
    /\ pc[t] = "opened"
    /\ ~closed
    /\ reserved' = reserved - 1
    /\ owned' = owned \cup {conn[t]}
    /\ inUse' = inUse \cup {conn[t]}
    /\ Borrow(t)
    /\ UNCHANGED <<idle, closed, waiters, conn, doomed, streamVars>>

\* Mutant: the new connection is forgotten instead of closed.
InstallForgotten(t) ==
    /\ pc[t] = "opened"
    /\ closed
    /\ reserved' = reserved - 1
    /\ Notify
    /\ Leave(t)
    /\ UNCHANGED <<idle, inUse, owned, closed, streamVars>>

\* The pool was closed meanwhile: this socket is closed under the pool's lock.
InstallRefused(t) ==
    /\ pc[t] = "opened"
    /\ closed
    /\ reserved' = reserved - 1
    /\ Notify
    /\ CloseSocket(conn[t])
    /\ Leave(t)
    /\ UNCHANGED <<idle, inUse, owned, closed, poisoned, residue>>

-----------------------------------------------------------------------------
\* The borrower: commands on the connection it holds.

SendCommand(t) ==
    /\ pc[t] = "hold"
    /\ Usable(conn[t])
    /\ residue' = residue \cup {conn[t]}
    /\ Goto(t, "inflight")
    /\ UNCHANGED <<poolVars, waiters, conn, expired, doomed, sock, poisoned>>

ReplyRead(t) ==
    /\ pc[t] = "inflight"
    /\ Connected(conn[t])
    /\ residue' = residue \ {conn[t]}
    /\ Goto(t, "hold")
    /\ UNCHANGED <<poolVars, waiters, conn, expired, doomed, sock, poisoned>>

\* Mutant: an error that leaves a reply in flight does not poison.
CommandFailedUnmarked(t) ==
    /\ pc[t] = "inflight"
    /\ Goto(t, "hold")
    /\ UNCHANGED <<poolVars, waiters, conn, expired, doomed, streamVars>>

\* TimeoutError, ConnectionError or ProtocolError out of a command.
CommandFailed(t) ==
    /\ pc[t] = "inflight"
    /\ poisoned' = poisoned \cup {conn[t]}
    /\ Goto(t, "hold")
    /\ UNCHANGED <<poolVars, waiters, conn, expired, doomed, sock, residue>>

\* A caching borrower sweeps its peers, and one turns out to be broken.  A peer
\* in the middle of a reply holds its own I/O lock and is skipped.
SweepPoisons(t, c) ==
    /\ pc[t] = "hold"
    /\ ~closed
    /\ c \in owned \ {conn[t]}
    /\ Usable(c)
    /\ \A u \in Threads : pc[u] \in {"ping", "inflight"} => conn[u] # c
    /\ poisoned' = poisoned \cup {c}
    /\ UNCHANGED <<poolVars, waiters, threadVars, sock, residue>>

-----------------------------------------------------------------------------
\* release(): the critical section, then the close of a discarded connection.

ReleaseRejected(t, c) ==
    /\ c \notin owned \/ (~closed /\ c \notin inUse)
    /\ Leave(t)
    /\ UNCHANGED <<poolVars, waiters>>

ReleaseDiscards(t, c) ==
    /\ c \in owned
    /\ closed \/ (c \in inUse /\ ~Usable(c))
    /\ owned' = owned \ {c}
    /\ inUse' = inUse \ {c}
    /\ Notify
    /\ conn' = [conn EXCEPT ![t] = c]
    /\ Goto(t, "released")
    /\ UNCHANGED <<idle, reserved, closed, expired, doomed>>

\* Mutant: a connection that is owned may be released again.
ReleaseKeepsAgain(t, c) ==
    /\ c \in owned /\ ~closed
    /\ Usable(c)
    /\ inUse' = inUse \ {c}
    /\ idle' = Append(idle, c)
    /\ Notify
    /\ Leave(t)
    /\ UNCHANGED <<owned, reserved, closed>>

ReleaseKeeps(t, c) ==
    /\ c \in owned /\ ~closed /\ c \in inUse
    /\ Usable(c)
    /\ inUse' = inUse \ {c}
    /\ idle' = Append(idle, c)
    /\ Notify
    /\ Leave(t)
    /\ UNCHANGED <<owned, reserved, closed>>

ReleaseSection(t, c) ==
    /\ \/ ReleaseRejected(t, c)
       \/ ReleaseDiscards(t, c)
       \/ ReleaseKeeps(t, c)
    /\ UNCHANGED streamVars

\* The borrower is done, or its with block unwinds after an exception.
Release(t) == pc[t] \in {"hold", "unwind"} /\ ReleaseSection(t, conn[t])

\* A thread kept a reference to a connection it has already given back, or has
\* one that this pool did not issue.
StrayRelease(t, c) ==
    /\ StrayReleases
    /\ pc[t] = "out"
    /\ ReleaseSection(t, c)

CloseReleased(t) ==
    /\ pc[t] = "released"
    /\ CloseSocket(conn[t])
    /\ Leave(t)
    /\ UNCHANGED <<poolVars, waiters, poisoned, residue>>

-----------------------------------------------------------------------------
\* KeyboardInterrupt is no RedisError: _is_stale() does not catch it, it does
\* not poison, and only connection()'s finally clause sees it.

InterruptCommand(t) ==
    /\ Interrupts
    /\ pc[t] = "inflight"
    /\ Goto(t, "unwind")
    /\ UNCHANGED <<poolVars, waiters, conn, expired, doomed, streamVars>>

\* acquire() is called before the try, so nothing releases the connection.
InterruptCheck(t) ==
    /\ Interrupts
    /\ pc[t] = "ping"
    /\ Leave(t)
    /\ UNCHANGED <<poolVars, waiters, streamVars>>

InterruptWait(t) ==
    /\ Interrupts
    /\ pc[t] = "waiting"
    /\ LeaveQueue(t) \/ (~Queued(t) /\ UNCHANGED waiters)
    /\ Leave(t)
    /\ UNCHANGED <<poolVars, streamVars>>

-----------------------------------------------------------------------------
\* close(): the critical section, then one socket at a time.

Close(t) ==
    /\ pc[t] = "out"
    /\ ~closed
    /\ closed' = TRUE
    /\ doomed' = [doomed EXCEPT ![t] = IdleSet \cup inUse]
    /\ idle' = <<>>
    /\ inUse' = {}
    /\ waiters' = <<>>
    /\ Goto(t, "closing")
    /\ UNCHANGED <<owned, reserved, conn, expired, streamVars>>

CloseOne(t, c) ==
    /\ pc[t] = "closing"
    /\ c \in doomed[t]
    /\ CloseSocket(c)
    /\ doomed' = [doomed EXCEPT ![t] = @ \ {c}]
    /\ UNCHANGED <<poolVars, waiters, pc, conn, expired, poisoned, residue>>

CloseDone(t) ==
    /\ pc[t] = "closing"
    /\ doomed[t] = {}
    /\ Leave(t)
    /\ UNCHANGED <<poolVars, waiters, streamVars>>

-----------------------------------------------------------------------------
AcquireStep(t) ==
    \/ RefuseClosed(t) \/ TakeIdle(t) \/ Reserve(t) \/ Wait(t) \/ RaiseTimeout(t)
    \/ Woken(t) \/ TimedOut(t)
    \/ FindUnusable(t) \/ FindUsable(t) \/ SendPing(t)
    \/ PingAnswered(t) \/ PingAnsweredWrongly(t) \/ PingFailed(t)
    \/ Discard(t) \/ CloseDiscarded(t)
    \/ ConnectFailed(t) \/ (\E c \in Conns : ConnectOk(t, c))
    \/ Install(t) \/ InstallRefused(t)

BorrowerStep(t) ==
    \/ SendCommand(t) \/ ReplyRead(t) \/ CommandFailed(t)
    \/ \E c \in Conns : SweepPoisons(t, c)
    \/ Release(t) \/ CloseReleased(t)

CloseStep(t) == Close(t) \/ (\E c \in Conns : CloseOne(t, c)) \/ CloseDone(t)

Disturbance(t) ==
    \/ InterruptCommand(t) \/ InterruptCheck(t) \/ InterruptWait(t)
    \/ \E c \in Conns : StrayRelease(t, c)

Orderly(t) == Call(t) \/ Expire(t) \/ AcquireStep(t) \/ BorrowerStep(t) \/ CloseStep(t)

Next == \E t \in Threads : Orderly(t) \/ Disturbance(t)

Spec == Init /\ [][Next]_vars

\* A thread inside acquire() keeps running, and time passes.  Every blocking
\* call it makes there has a deadline: the socket timeout or the condition's.
Fairness == \A t \in Threads : WF_vars(AcquireStep(t)) /\ WF_vars(Expire(t))

\* Threads that return only what they hold, and that no interrupt hits: with
\* Interrupts and StrayReleases FALSE these are all the steps of Spec.
Undisturbed == \E t \in Threads : Orderly(t)
FairSpec == Init /\ [][Undisturbed]_vars /\ Fairness

-----------------------------------------------------------------------------
\* Properties.

Labels == {"out", "acquire", "waiting", "check", "ping", "discard", "discarded",
           "opening", "opened", "hold", "inflight", "unwind", "released", "closing"}

\* Every variable holds a value of its type.
TypeOK ==
    /\ idle \in Seq(Conns)
    /\ inUse \subseteq Conns
    /\ owned \subseteq Conns
    /\ reserved \in Nat
    /\ closed \in BOOLEAN
    /\ waiters \in Seq(Threads)
    /\ pc \in [Threads -> Labels]
    /\ conn \in [Threads -> Conns \cup {NoConn}]
    /\ expired \subseteq Threads
    /\ doomed \in [Threads -> SUBSET Conns]
    /\ sock \in [Conns -> {"new", "open", "closed"}]
    /\ poisoned \subseteq Conns
    /\ residue \subseteq Conns

\* Threads outside the lock cannot together overshoot max_connections, however
\* many of them are opening a connection at once (pool.py 93-96).
CapacityRespected == Total + reserved <= MaxConnections

\* A connection in _in_use is in the hands of some thread at these labels.
Lent == {"check", "ping", "discard", "hold", "inflight", "unwind"}

\* All the labels at which a thread may touch the connection it holds.
Holding == Lent \cup {"opened", "discarded", "released"}

\* No connection is in the hands of two threads, not even while one of them
\* closes it, and none is idle while a thread still has it in its hands: "the
\* pool guarantees one is issued to at most one borrower at a time" (pool.py 40).
ExclusiveLending ==
    \A t \in Threads : pc[t] \in Holding =>
        /\ conn[t] \notin IdleSet
        /\ \A u \in Threads \ {t} : pc[u] \in Holding => conn[u] # conn[t]

\* No connection is idle twice, and none is both idle and in use, whatever
\* threads release: the double release of pool.py 178-181 never gets that far.
NeverIdleTwice ==
    /\ \A i, j \in 1..Len(idle) : idle[i] = idle[j] => i = j
    /\ IdleSet \cap inUse = {}

\* An open pool owns exactly what is idle or in use, so a sweep over _owned
\* misses no live connection, and a closed pool holds nothing, not even the
\* connections that were being opened or returned while it closed.
OwnershipExact ==
    /\ ~closed => owned = IdleSet \cup inUse
    /\ closed => IdleSet \cup inUse = {}

\* Every slot that counts against the limit is some thread's business: none
\* leaks when opening fails, when a check fails, or when the pool closes.
Opening == {t \in Threads : pc[t] \in {"opening", "opened"}}
ReservedExact == reserved = Cardinality(Opening)
LentExact == ~closed => inUse = {conn[t] : t \in {u \in Threads : pc[u] \in Lent}}
SlotsAccounted == ReservedExact /\ LentExact

\* A borrower that returns its connection is never refused, not even when the
\* pool was closed under it: "an in-flight with block unwinds cleanly".
UnwindsCleanly ==
    \A t \in Threads : pc[t] \in {"hold", "inflight", "unwind"} =>
        conn[t] \in owned /\ (closed \/ conn[t] \in inUse)

\* A connection whose next bytes are the reply to somebody's earlier command is
\* never idle or in a borrower's hands without being poisoned or closed (pool.py
\* 165-170: "silent cross-talk rather than a visible error").
NoCrossTalk ==
    \A c \in residue : Usable(c) =>
        /\ c \notin IdleSet
        /\ \A t \in Threads : pc[t] \in {"check", "hold"} => conn[t] # c

\* No open socket is forgotten: the pool still tracks it, or a thread holds it
\* and is about to install or close it, or a close() in progress has it listed.
OpenSocketsTracked ==
    \A c \in Conns : Connected(c) =>
        \/ c \in IdleSet \cup inUse
        \/ \E t \in Threads : conn[t] = c /\ pc[t] \in Holding
        \/ \E t \in Threads : c \in doomed[t]

\* No wakeup is lost: while threads wait, every slot or idle connection that
\* could be had is matched by a thread already on its way to take it.
Awake == {t \in Threads : pc[t] = "acquire" \/ (pc[t] = "waiting" /\ ~Queued(t))}
NoLostWakeup ==
    waiters # <<>> =>
        MaxConnections - Cardinality(inUse) - reserved <= Cardinality(Awake)

\* acquire() is never stuck: it returns a connection or raises.
Acquiring == {"acquire", "waiting", "check", "ping", "discard", "discarded",
              "opening", "opened"}
AcquireReturns ==
    \A t \in Threads : pc[t] \in Acquiring ~> pc[t] \in {"hold", "out"}
=============================================================================
