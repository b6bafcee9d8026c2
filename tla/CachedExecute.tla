--------------------------- MODULE CachedExecute ---------------------------
(***************************************************************************)
(* The cacheable branch of Connection.execute() on the threads of a pool:  *)
(* the sweep of every peer (pool.py's _drain_peers), the drain of the      *)
(* thread's own socket, the lookup, the ticket, the round trip under the   *)
(* connection's I/O lock, the second drain and the offer.                  *)
(*                                                                         *)
(* The cache is ReplyCache, with one command per key.  Around the threads  *)
(* are the server, which tracks the keys each connection reads and says    *)
(* once when they change, and the network, which may split a frame, lose a *)
(* connection or be too slow.  A value is the version of its key, so the   *)
(* age of an answer can be read off it.                                    *)
(***************************************************************************)
EXTENDS Naturals, Sequences, FiniteSets, SequencesExt

CONSTANTS
    Threads,       \* threads with access to the pool
    Conns,         \* names of connections; one is reused after a discard
    Keys,          \* the Redis keys
    Miss,          \* cache.py's MISS
    None,          \* "no connection", "no key", "nobody", "no frame"
    MaxEntries,    \* the cache's bound
    MaxWrites,     \* bound: versions of a key
    MaxTroubles,   \* bound: lost connections and timeouts
    SplitsInToken, \* a frame is split within a token, where has_buffered_input
                   \* tells that part of it is in, and not between two tokens
    Flushing,      \* clients also send FLUSHALL
    Callers,       \* the threads that call execute()
    Pipeliners     \* the threads that run a Pipeline

\* A reply or a push, and the versions of the keys it is about.
Frames == [kind : {"reply", "invalidate", "flush"},
           at : UNION {[ks -> 0..MaxWrites] : ks \in SUBSET Keys}]

ASSUME NoneAssumption ==
    None \notin Threads \cup Conns \cup Keys \cup Frames /\ Miss \notin Nat
ASSUME BoundsAssumption ==
    MaxEntries \in Nat \ {0} /\ MaxWrites \in Nat /\ MaxTroubles \in Nat
ASSUME RolesAssumption ==
    /\ {SplitsInToken, Flushing} \subseteq BOOLEAN
    /\ Callers \cup Pipeliners \subseteq Threads

VARIABLES
    \* the server and the network
    version,      \* key -> how often it was written
    tracking,     \* key -> the connections to be told when it changes
    request,      \* connection -> the key it asked for, not yet served
    wire,         \* connection -> frames sent by the server, not yet arrived
    inbox,        \* connection -> frames arrived whole: socket and parser
    cut,          \* connection -> is part of wire's first frame in?
    \* the pool and its connections
    status,       \* connection -> "none" (not owned), "up", "dead" (EOF comes)
    poisoned,     \* the connections whose stream position is lost
    ioLock,       \* connection -> the thread holding _io_lock
    holds,        \* thread -> the connection it borrowed
    \* the locals of execute()
    pc, key,
    todo,         \* peers still to sweep
    swept,        \* was every peer swept so far?
    peer,         \* the peer being swept
    inHand,       \* the push frame parsed and not yet applied
    answer,       \* the reply read
    \* ReplyCache
    entries, before, byKey, generation, epoch, reading, ticket, overtaken,
    \* history
    announced,    \* key -> newest version whose invalidation began to arrive
    floor,        \* thread -> announced[key] when execute() was called
    lost,         \* keys whose tracking died with a connection
    troubles      \* how many lost connections and timeouts so far

serverVars == <<version, tracking, request>>
netVars == <<wire, inbox, cut>>
connVars == <<status, poisoned, ioLock>>
callVars == <<key, todo, swept, peer, answer, floor>>
cacheVars == <<entries, before, byKey, generation, epoch, reading, ticket, overtaken>>
ghostVars == <<announced, lost, troubles>>
vars == <<serverVars, netVars, connVars, holds, pc, callVars, inHand, cacheVars,
          ghostVars>>

Cache == INSTANCE ReplyCache WITH
    Commands <- Keys, KeyOf <- [k \in Keys |-> k], Values <- 0..MaxWrites,
    Readers <- Threads, NoCommand <- None, MaxLookups <- 0,
    MaxInvalidations <- 0, hits <- 0, misses <- 0, invalidations <- 0

Init ==
    /\ version = [k \in Keys |-> 0]
    /\ tracking = [k \in Keys |-> {}]
    /\ request = [c \in Conns |-> None]
    /\ wire = [c \in Conns |-> <<>>]
    /\ inbox = [c \in Conns |-> <<>>]
    /\ cut = [c \in Conns |-> FALSE]
    /\ status = [c \in Conns |-> "none"]
    /\ poisoned = {}
    /\ ioLock = [c \in Conns |-> None]
    /\ holds = [t \in Threads |-> None]
    /\ pc = [t \in Threads |-> "out"]
    /\ key = [t \in Threads |-> None]
    /\ todo = [t \in Threads |-> {}]
    /\ swept = [t \in Threads |-> TRUE]
    /\ peer = [t \in Threads |-> None]
    /\ inHand = [t \in Threads |-> None]
    /\ answer = [t \in Threads |-> Miss]
    /\ floor = [t \in Threads |-> 0]
    /\ announced = [k \in Keys |-> 0]
    /\ lost = {}
    /\ troubles = 0
    /\ Cache!Init

-----------------------------------------------------------------------------
\* Frames and connections.

Frame(kind, ks, v) == [kind |-> kind, at |-> [k \in ks |-> v[k]]]
IsReply(f) == f.kind = "reply"
KeysOf(f) == DOMAIN f.at
Unread(c) == inbox[c] \o wire[c]
Owned == {c \in Conns : status[c] # "none"}
Usable(c) == status[c] # "none" /\ c \notin poisoned

\* The server has a command or a frame for the connection on its way.
Coming(c) == status[c] = "up" /\ (request[c] # None \/ wire[c] # <<>>)

\* The keys for which connection c still has, or would get, an invalidation.
Watched(c) ==
    {k \in Keys : c \in tracking[k]} \cup
    UNION {KeysOf(f) : f \in {g \in ToSet(Unread(c)) : ~IsReply(g)}}

\* Nobody reads the connection's stream for the cache any more.
Poison(c) ==
    /\ poisoned' = poisoned \cup {c}
    /\ lost' = lost \cup Watched(c)

\* The connection the thread is dealing with: a peer's, or its own.
Socket(t) == IF peer[t] = None THEN holds[t] ELSE peer[t]

\* The thread leaves execute() or Pipeline.execute().
Leave(t) ==
    /\ pc' = [pc EXCEPT ![t] = "out"]
    /\ key' = [key EXCEPT ![t] = None]
    /\ todo' = [todo EXCEPT ![t] = {}]
    /\ swept' = [swept EXCEPT ![t] = TRUE]
    /\ peer' = [peer EXCEPT ![t] = None]
    /\ answer' = [answer EXCEPT ![t] = Miss]
    /\ floor' = [floor EXCEPT ![t] = 0]

\* An exception leaves execute(): a ticket it took is offered by nobody.
AbandonTicket(t) ==
    IF reading[t] = None THEN UNCHANGED cacheVars ELSE Cache!Abandon(t)

-----------------------------------------------------------------------------
\* The pool, as far as a reader sees it (ConnectionPool has the whole of it).

\* acquire() lends an idle connection that is not visibly broken.
Borrow(t, c) ==
    /\ pc[t] = "out" /\ holds[t] = None
    /\ Usable(c) /\ \A u \in Threads : holds[u] # c
    /\ holds' = [holds EXCEPT ![t] = c]
    /\ UNCHANGED <<serverVars, netVars, connVars, pc, callVars, inHand, cacheVars,
                   ghostVars>>

\* acquire() opens a connection, tracking on.  A name some sweep still has in
\* its list stands for the closed object, so it is not given to the new one.
Open(t, c) ==
    /\ pc[t] = "out" /\ holds[t] = None
    /\ status[c] = "none"
    /\ \A u \in Threads : c \notin todo[u] /\ peer[u] # c
    /\ status' = [status EXCEPT ![c] = "up"]
    /\ holds' = [holds EXCEPT ![t] = c]
    /\ UNCHANGED <<serverVars, netVars, poisoned, ioLock, pc, callVars, inHand, cacheVars,
                   ghostVars>>

\* Mutant: the next object of that name is born poisoned.
CloseStillPoisoned(c) ==
    /\ status' = [status EXCEPT ![c] = "none"]
    /\ lost' = lost \cup Watched(c)
    /\ tracking' = [k \in Keys |-> tracking[k] \ {c}]
    /\ request' = [request EXCEPT ![c] = None]
    /\ wire' = [wire EXCEPT ![c] = <<>>]
    /\ inbox' = [inbox EXCEPT ![c] = <<>>]
    /\ cut' = [cut EXCEPT ![c] = FALSE]
    /\ UNCHANGED <<version, poisoned, ioLock, pc, callVars, inHand, cacheVars,
                   announced, troubles>>

\* The socket is closed and the server forgets the connection.
Close(c) ==
    /\ status' = [status EXCEPT ![c] = "none"]
    /\ poisoned' = poisoned \ {c}
    /\ lost' = lost \cup Watched(c)
    /\ tracking' = [k \in Keys |-> tracking[k] \ {c}]
    /\ request' = [request EXCEPT ![c] = None]
    /\ wire' = [wire EXCEPT ![c] = <<>>]
    /\ inbox' = [inbox EXCEPT ![c] = <<>>]
    /\ cut' = [cut EXCEPT ![c] = FALSE]
    /\ UNCHANGED <<version, ioLock, pc, callVars, inHand, cacheVars, announced,
                   troubles>>

\* release() of a usable connection; a broken one is discarded and closed.
Release(t) ==
    /\ pc[t] = "out" /\ holds[t] # None
    /\ holds' = [holds EXCEPT ![t] = None]
    /\ \/ /\ Usable(holds[t])
          /\ UNCHANGED <<serverVars, netVars, connVars, pc, callVars, inHand,
                         cacheVars, ghostVars>>
       \/ ~Usable(holds[t]) /\ Close(holds[t])

\* The health check of acquire() discards an idle connection that is broken.
\* On a dead one its PING waits for the I/O lock and first reads what had arrived.
DiscardIdle(c) ==
    /\ c \in poisoned \/ (status[c] = "dead" /\ inbox[c] = <<>> /\ ioLock[c] = None)
    /\ \A u \in Threads : holds[u] # c
    /\ Close(c)
    /\ UNCHANGED holds

-----------------------------------------------------------------------------
\* execute(), cacheable branch: sweep the peers, drain the own socket, look up.

\* Mutant: only the connections that are idle in the pool are swept.
CallSweepingIdle(t, k) ==
    /\ t \in Callers
    /\ pc[t] = "out" /\ holds[t] # None
    /\ pc' = [pc EXCEPT ![t] = "sweep"]
    /\ key' = [key EXCEPT ![t] = k]
    /\ todo' = [todo EXCEPT ![t] = Owned \ {holds[u] : u \in Threads}]
    /\ floor' = [floor EXCEPT ![t] = announced[k]]
    /\ UNCHANGED <<serverVars, netVars, connVars, holds, swept, peer, answer,
                   inHand, cacheVars, ghostVars>>

\* The call begins; _drain_peers copies the connections the pool owns now.
Call(t, k) ==
    /\ t \in Callers
    /\ pc[t] = "out" /\ holds[t] # None
    /\ pc' = [pc EXCEPT ![t] = "sweep"]
    /\ key' = [key EXCEPT ![t] = k]
    /\ todo' = [todo EXCEPT ![t] = Owned \ {holds[t]}]
    /\ floor' = [floor EXCEPT ![t] = announced[k]]
    /\ UNCHANGED <<serverVars, netVars, connVars, holds, swept, peer, answer,
                   inHand, cacheVars, ghostVars>>

\* Mutant: a peer that was skipped counts as swept.
SweepPeerSkipping(t, c) ==
    /\ pc[t] = "sweep" /\ c \in todo[t]
    /\ todo' = [todo EXCEPT ![t] = @ \ {c}]
    /\ \/ /\ ~Usable(c) \/ ioLock[c] # None
          /\ UNCHANGED <<pc, peer, ioLock>>
       \/ /\ Usable(c) /\ ioLock[c] = None
          /\ ioLock' = [ioLock EXCEPT ![c] = t]
          /\ pc' = [pc EXCEPT ![t] = "peer"]
          /\ peer' = [peer EXCEPT ![t] = c]
    /\ UNCHANGED <<serverVars, netVars, status, poisoned, holds, key, swept, answer,
                   floor, inHand, cacheVars, ghostVars>>

\* The next peer: a closed or poisoned one has nothing to read, one whose I/O
\* lock is taken is not waited for, and the lock of any other is taken.
SweepPeer(t, c) ==
    /\ pc[t] = "sweep" /\ c \in todo[t]
    /\ todo' = [todo EXCEPT ![t] = @ \ {c}]
    /\ \/ /\ ~Usable(c)
          /\ UNCHANGED <<pc, swept, peer, ioLock>>
       \/ /\ Usable(c) /\ ioLock[c] # None
          /\ swept' = [swept EXCEPT ![t] = FALSE]
          /\ UNCHANGED <<pc, peer, ioLock>>
       \/ /\ Usable(c) /\ ioLock[c] = None
          /\ ioLock' = [ioLock EXCEPT ![c] = t]
          /\ pc' = [pc EXCEPT ![t] = "peer"]
          /\ peer' = [peer EXCEPT ![t] = c]
          /\ UNCHANGED swept
    /\ UNCHANGED <<serverVars, netVars, status, poisoned, holds, key, answer, floor,
                   inHand, cacheVars, ghostVars>>

\* Every peer is done with: the thread turns to its own connection.
SweepDone(t) ==
    /\ pc[t] = "sweep" /\ todo[t] = {}
    /\ pc' = [pc EXCEPT ![t] = "own1"]
    /\ UNCHANGED <<serverVars, netVars, connVars, holds, callVars, inHand,
                   cacheVars, ghostVars>>

\* drain_invalidations() on the own connection waits for the I/O lock; on a
\* poisoned one it returns at once.
EnterDrain(t, from, during, after) ==
    /\ pc[t] = from
    /\ \/ /\ ~Usable(Socket(t))
          /\ pc' = [pc EXCEPT ![t] = after]
          /\ UNCHANGED ioLock
       \/ /\ Usable(Socket(t)) /\ ioLock[Socket(t)] = None
          /\ ioLock' = [ioLock EXCEPT ![Socket(t)] = t]
          /\ pc' = [pc EXCEPT ![t] = during]
    /\ UNCHANGED <<serverVars, netVars, status, poisoned, holds, callVars, inHand,
                   cacheVars, ghostVars>>

Draining(t) == pc[t] \in {"peer", "drain1", "drain2"}
Reading(t) == Draining(t) \/ pc[t] \in {"await", "piped"}

\* Where a drain leads once it has ended.
AfterDrain(t) == CASE pc[t] = "peer" -> "sweep"
                   [] pc[t] = "drain1" -> "lookup"
                   [] pc[t] = "drain2" -> "offer"

Unlock(c) == ioLock' = [ioLock EXCEPT ![c] = None]

\* Mutant: the I/O lock is not released.
DrainOverLocked(t) ==
    /\ pc' = [pc EXCEPT ![t] = AfterDrain(t)]
    /\ peer' = [peer EXCEPT ![t] = None]
    /\ UNCHANGED <<ioLock, key, todo, swept, answer, floor, cacheVars>>

DrainOver(t) ==
    /\ Unlock(Socket(t))
    /\ pc' = [pc EXCEPT ![t] = AfterDrain(t)]
    /\ peer' = [peer EXCEPT ![t] = None]
    /\ UNCHANGED <<key, todo, swept, answer, floor, cacheVars>>

\* The parser yields a push frame ...
ParsePush(t) ==
    /\ Reading(t) /\ inHand[t] = None
    /\ inbox[Socket(t)] # <<>> /\ ~IsReply(Head(inbox[Socket(t)]))
    /\ inHand' = [inHand EXCEPT ![t] = Head(inbox[Socket(t)])]
    /\ inbox' = [inbox EXCEPT ![Socket(t)] = Tail(@)]
    /\ UNCHANGED <<serverVars, wire, cut, connVars, holds, pc, callVars, cacheVars,
                   ghostVars>>

\* ... and _handle_push() applies it to the cache.
HandlePush(t) ==
    /\ inHand[t] # None
    /\ inHand' = [inHand EXCEPT ![t] = None]
    /\ IF inHand[t].kind = "flush" THEN Cache!DropAll
                                   ELSE Cache!DropKeys(KeysOf(inHand[t]))
    /\ lost' = lost \ KeysOf(inHand[t])
    /\ UNCHANGED <<serverVars, netVars, connVars, holds, pc, callVars, announced,
                   troubles>>

\* Nothing is readable, or the connection was poisoned: the drain is over.
\* Part of a frame, if the parser can tell, is waited for.
DrainEnds(t) ==
    /\ Draining(t) /\ inHand[t] = None
    /\ status[Socket(t)] # "none"
    /\ \/ Socket(t) \in poisoned
       \/ /\ status[Socket(t)] = "up" /\ inbox[Socket(t)] = <<>>
          /\ ~(cut[Socket(t)] /\ SplitsInToken)
    /\ DrainOver(t)
    /\ UNCHANGED <<serverVars, netVars, status, poisoned, holds, inHand, ghostVars>>

\* A drain fails: a peer's error is swallowed, the own connection's is raised.
DrainFails(t) ==
    IF pc[t] = "peer"
      THEN DrainOver(t)
      ELSE Unlock(Socket(t)) /\ Leave(t) /\ AbandonTicket(t)

\* A command reply with nothing waiting for it poisons the connection.
DrainMeetsReply(t) ==
    /\ Draining(t) /\ inHand[t] = None /\ status[Socket(t)] # "none"
    /\ inbox[Socket(t)] # <<>> /\ IsReply(Head(inbox[Socket(t)]))
    /\ inbox' = [inbox EXCEPT ![Socket(t)] = Tail(@)]
    /\ Poison(Socket(t))
    /\ DrainFails(t)
    /\ UNCHANGED <<serverVars, wire, cut, status, holds, inHand, announced, troubles>>

\* recv() returns nothing: the server closed the connection.
DrainMeetsEOF(t) ==
    /\ Draining(t) /\ inHand[t] = None
    /\ status[Socket(t)] = "dead" /\ inbox[Socket(t)] = <<>>
    /\ Poison(Socket(t))
    /\ DrainFails(t)
    /\ UNCHANGED <<serverVars, netVars, status, holds, inHand, announced, troubles>>

\* The rest of a frame is late beyond the socket timeout.
DrainTimesOut(t) ==
    /\ troubles < MaxTroubles
    /\ Draining(t) /\ inHand[t] = None /\ status[Socket(t)] = "up"
    /\ inbox[Socket(t)] = <<>> /\ cut[Socket(t)] /\ SplitsInToken
    /\ Poison(Socket(t))
    /\ DrainFails(t)
    /\ troubles' = troubles + 1
    /\ UNCHANGED <<serverVars, netVars, status, holds, inHand, announced>>

\* The pool closed a peer under the sweep: the drain ends, or the closed socket
\* makes it raise an error that _drain_peers does not catch.
DrainTorn(t) ==
    /\ Draining(t) /\ inHand[t] = None /\ status[Socket(t)] = "none"
    /\ DrainOver(t) \/ (Unlock(Socket(t)) /\ Leave(t) /\ UNCHANGED cacheVars)
    /\ UNCHANGED <<serverVars, netVars, status, poisoned, holds, inHand, ghostVars>>

\* A hit is served only after a complete sweep.
Hit(t) ==
    /\ pc[t] = "lookup" /\ swept[t] /\ entries[key[t]] # Miss
    /\ Leave(t)
    /\ UNCHANGED <<serverVars, netVars, connVars, holds, inHand, cacheVars,
                   ghostVars>>

Missed(t) ==
    /\ pc[t] = "lookup" /\ (swept[t] => entries[key[t]] = Miss)
    /\ pc' = [pc EXCEPT ![t] = "ticket"]
    /\ swept' = [swept EXCEPT ![t] = TRUE]      \* it is not read again
    /\ UNCHANGED <<serverVars, netVars, connVars, holds, key, todo, peer, answer,
                   floor, inHand, cacheVars, ghostVars>>

\* The key's generation is recorded before the command is sent.
TakeTicket(t) ==
    /\ pc[t] = "ticket"
    /\ Cache!TakeGeneration(t, key[t])
    /\ pc' = [pc EXCEPT ![t] = "check"]
    /\ UNCHANGED <<serverVars, netVars, connVars, holds, callVars, inHand, ghostVars>>

-----------------------------------------------------------------------------
\* The round trip.

\* _roundtrip() looks at the connection before it waits for the I/O lock.
CheckUsable(t) ==
    /\ pc[t] = "check" /\ Usable(Socket(t))
    /\ pc' = [pc EXCEPT ![t] = "send"]
    /\ UNCHANGED <<serverVars, netVars, connVars, holds, callVars, inHand,
                   cacheVars, ghostVars>>

RefuseBroken(t) ==
    /\ pc[t] = "check" /\ ~Usable(Socket(t))
    /\ Leave(t) /\ AbandonTicket(t)
    /\ UNCHANGED <<serverVars, netVars, connVars, holds, inHand, ghostVars>>

\* Mutant: the command is written and its reply read without the I/O lock.
SendUnlocked(t) ==
    /\ pc[t] = "send" /\ ioLock[Socket(t)] = None
    /\ request' = [request EXCEPT ![Socket(t)] = key[t]]
    /\ pc' = [pc EXCEPT ![t] = "await"]
    /\ UNCHANGED <<version, tracking, netVars, connVars, holds, callVars, inHand,
                   cacheVars, ghostVars>>

\* The lock is taken and the command written; it stays taken for the reply.
Send(t) ==
    /\ pc[t] = "send" /\ ioLock[Socket(t)] = None
    /\ ioLock' = [ioLock EXCEPT ![Socket(t)] = t]
    /\ request' = [request EXCEPT ![Socket(t)] = key[t]]
    /\ pc' = [pc EXCEPT ![t] = "await"]
    /\ UNCHANGED <<version, tracking, netVars, status, poisoned, holds, callVars,
                   inHand, cacheVars, ghostVars>>

\* The reply is parsed and the lock released.
ReadReply(t) ==
    /\ pc[t] = "await" /\ inHand[t] = None
    /\ inbox[Socket(t)] # <<>> /\ IsReply(Head(inbox[Socket(t)]))
    /\ answer' = [answer EXCEPT ![t] = Head(inbox[Socket(t)]).at[key[t]]]
    /\ inbox' = [inbox EXCEPT ![Socket(t)] = Tail(@)]
    /\ Unlock(Socket(t))
    /\ pc' = [pc EXCEPT ![t] = "own2"]
    /\ UNCHANGED <<serverVars, wire, cut, status, poisoned, holds, key, todo, swept,
                   peer, floor, inHand, cacheVars, ghostVars>>

\* The reply was an error: execute() raises it and offers nothing.
ReplyWasError(t) ==
    /\ pc[t] = "own2"
    /\ Leave(t) /\ AbandonTicket(t)
    /\ UNCHANGED <<serverVars, netVars, connVars, holds, inHand, ghostVars>>

\* Mutant: a timeout or an error leaves the connection in use.
AwaitFailsUnmarked(t) ==
    /\ pc[t] \in {"await", "piped"} /\ inHand[t] = None
    /\ inbox[Socket(t)] = <<>>
    /\ IF pc[t] = "await" THEN Unlock(Socket(t)) ELSE UNCHANGED ioLock
    /\ Leave(t) /\ AbandonTicket(t)
    /\ UNCHANGED <<serverVars, netVars, status, poisoned, holds, inHand, lost,
                   announced>>

\* Waiting for a reply fails: the connection is poisoned and the error raised.
AwaitFails(t) ==
    /\ pc[t] \in {"await", "piped"} /\ inHand[t] = None
    /\ inbox[Socket(t)] = <<>>
    /\ Poison(Socket(t))
    /\ IF pc[t] = "await" THEN Unlock(Socket(t)) ELSE UNCHANGED ioLock
    /\ Leave(t) /\ AbandonTicket(t)
    /\ UNCHANGED <<serverVars, netVars, status, holds, inHand, announced>>

\* Nothing more will come: the server closed the connection, or another thread
\* took the reply and the socket timeout runs out.
AwaitInVain(t) ==
    /\ AwaitFails(t) /\ ~Coming(Socket(t))
    /\ UNCHANGED troubles

\* The socket timeout runs out although the reply is on its way.
AwaitTimesOut(t) ==
    /\ troubles < MaxTroubles
    /\ AwaitFails(t) /\ Coming(Socket(t))
    /\ troubles' = troubles + 1

\* Writing the command fails, in _roundtrip() or in Pipeline.execute(): the
\* connection is poisoned, and what had arrived on it is parsed by nobody.
SendFails(t) ==
    /\ \/ pc[t] = "send" /\ ioLock[Socket(t)] = None
       \/ t \in Pipeliners /\ pc[t] = "out" /\ holds[t] # None /\ Usable(holds[t])
    /\ \/ status[Socket(t)] = "dead" /\ UNCHANGED troubles
       \/ /\ status[Socket(t)] = "up" /\ troubles < MaxTroubles
          /\ troubles' = troubles + 1
    /\ Poison(Socket(t))
    /\ Leave(t) /\ AbandonTicket(t)
    /\ UNCHANGED <<serverVars, netVars, status, ioLock, holds, inHand, announced>>

\* Mutant: the reply is stored whatever the ticket says.
OfferUnchecked(t) ==
    /\ pc[t] = "offer"
    /\ Cache!Put(key[t], answer[t], {})
    /\ reading' = [reading EXCEPT ![t] = None]
    /\ ticket' = [ticket EXCEPT ![t] = Cache!NoTicket]
    /\ overtaken' = overtaken \ {t}
    /\ Leave(t)
    /\ UNCHANGED <<generation, epoch, serverVars, netVars, connVars, holds, inHand,
                   ghostVars>>

\* The reply is offered to the cache with the ticket taken before the command.
Offer(t) ==
    /\ pc[t] = "offer"
    /\ Cache!Offer(t, answer[t])
    /\ Leave(t)
    /\ UNCHANGED <<serverVars, netVars, connVars, holds, inHand, ghostVars>>

-----------------------------------------------------------------------------
\* Pipeline.execute(), one command: it writes and reads without the I/O lock.

PipeSend(t, k) ==
    /\ t \in Pipeliners
    /\ pc[t] = "out" /\ holds[t] # None /\ Usable(holds[t])
    /\ request' = [request EXCEPT ![holds[t]] = k]
    /\ pc' = [pc EXCEPT ![t] = "piped"]
    /\ key' = [key EXCEPT ![t] = k]
    /\ UNCHANGED <<version, tracking, netVars, connVars, holds, todo, swept, peer,
                   answer, floor, inHand, cacheVars, ghostVars>>

PipeReply(t) ==
    /\ pc[t] = "piped" /\ inHand[t] = None
    /\ inbox[Socket(t)] # <<>> /\ IsReply(Head(inbox[Socket(t)]))
    /\ inbox' = [inbox EXCEPT ![Socket(t)] = Tail(@)]
    /\ Leave(t)
    /\ UNCHANGED <<serverVars, wire, cut, connVars, holds, inHand, cacheVars,
                   ghostVars>>

-----------------------------------------------------------------------------
\* The server and the network.

\* The server answers a command and will tell the connection of a change.
Serve(c) ==
    /\ request[c] # None /\ status[c] = "up"
    /\ request' = [request EXCEPT ![c] = None]
    /\ tracking' = [tracking EXCEPT ![request[c]] = @ \cup {c}]
    /\ wire' = [wire EXCEPT ![c] = Append(@, Frame("reply", {request[c]}, version))]
    /\ lost' = IF c \in poisoned THEN lost \cup {request[c]} ELSE lost
    /\ UNCHANGED <<version, inbox, cut, connVars, holds, pc, callVars, inHand,
                   cacheVars, announced, troubles>>

\* Some client writes keys; each connection in told is sent one frame.
Change(ks, kind, told) ==
    /\ \A k \in ks : version[k] < MaxWrites
    /\ version' = [k \in Keys |-> IF k \in ks THEN version[k] + 1 ELSE version[k]]
    /\ tracking' = [k \in Keys |-> IF k \in ks THEN {} ELSE tracking[k]]
    /\ wire' = [c \in Conns |->
                  IF c \in told THEN Append(wire[c], Frame(kind, ks, version'))
                                ELSE wire[c]]
    /\ UNCHANGED <<request, inbox, cut, connVars, holds, pc, callVars, inHand,
                   cacheVars, ghostVars>>

\* A write of one key is announced to those that track it, and once.
Write(k) == Change({k}, "invalidate", tracking[k])

\* FLUSHALL is announced to every connection, by a frame that names no key.
FlushAll == Flushing /\ Change(Keys, "flush", {c \in Conns : status[c] = "up"})

\* cache_clear() of the pool, by any thread: the entries go, and the tickets of the
\* calls in progress stay good.
ClearCache ==
    /\ Cache!Clear
    /\ UNCHANGED <<serverVars, netVars, connVars, holds, pc, callVars, inHand, ghostVars>>

\* Bytes of the first frame on the wire reach the client.
Announce(c) ==
    LET f == Head(wire[c])
        news == {k \in KeysOf(f) : f.at[k] > announced[k]}
    IN IF IsReply(f) \/ c \in poisoned
         THEN UNCHANGED announced
         ELSE announced' = [k \in Keys |->
                              IF k \in news THEN f.at[k] ELSE announced[k]]

\* The first frame on the wire has arrived to its last byte ...
Deliver(c) ==
    /\ wire[c] # <<>>
    /\ inbox' = [inbox EXCEPT ![c] = Append(@, Head(wire[c]))]
    /\ wire' = [wire EXCEPT ![c] = Tail(@)]
    /\ cut' = [cut EXCEPT ![c] = FALSE]
    /\ Announce(c)
    /\ UNCHANGED <<serverVars, connVars, holds, pc, callVars, inHand, cacheVars,
                   lost, troubles>>

\* ... or only a first part of it.  Part of a reply makes no difference to the
\* thread that waits for all of it.
Split(c) ==
    /\ wire[c] # <<>> /\ ~IsReply(Head(wire[c])) /\ ~cut[c]
    /\ cut' = [cut EXCEPT ![c] = TRUE]
    /\ Announce(c)
    /\ UNCHANGED <<serverVars, wire, inbox, connVars, holds, pc, callVars, inHand,
                   cacheVars, lost, troubles>>

\* The server or the network drops the connection: what has not arrived whole
\* is gone, and the server forgets what it tracked.
Lose(c) ==
    /\ troubles < MaxTroubles
    /\ status[c] = "up"
    /\ status' = [status EXCEPT ![c] = "dead"]
    /\ lost' = lost \cup {k \in Keys : c \in tracking[k]} \cup
               UNION {KeysOf(f) : f \in {g \in ToSet(wire[c]) : ~IsReply(g)}}
    /\ tracking' = [k \in Keys |-> tracking[k] \ {c}]
    /\ request' = [request EXCEPT ![c] = None]
    /\ wire' = [wire EXCEPT ![c] = <<>>]
    /\ cut' = [cut EXCEPT ![c] = FALSE]
    /\ troubles' = troubles + 1
    /\ UNCHANGED <<version, inbox, poisoned, ioLock, holds, pc, callVars, inHand,
                   cacheVars, announced>>

-----------------------------------------------------------------------------
\* What a thread does when nobody else has to act first.
ReadStep(t) ==
    \/ ParsePush(t) \/ HandlePush(t) \/ DrainEnds(t)
    \/ DrainMeetsReply(t) \/ DrainMeetsEOF(t) \/ DrainTorn(t)
    \/ ReadReply(t) \/ AwaitInVain(t) \/ PipeReply(t)

CallStep(t) ==
    \/ \E c \in Conns : SweepPeer(t, c)
    \/ SweepDone(t)
    \/ Hit(t) \/ Missed(t) \/ TakeTicket(t)
    \/ CheckUsable(t) \/ RefuseBroken(t)
    \/ Offer(t)

\* What waits for an I/O lock.
LockStep(t) ==
    \/ EnterDrain(t, "own1", "drain1", "lookup")
    \/ EnterDrain(t, "own2", "drain2", "offer")
    \/ Send(t)

\* What a thread may do and need not.
ChoiceStep(t) ==
    \/ \E c \in Conns : Borrow(t, c) \/ Open(t, c)
    \/ Release(t)
    \/ \E k \in Keys : Call(t, k) \/ PipeSend(t, k)
    \/ ReplyWasError(t)
    \/ SendFails(t) \/ DrainTimesOut(t) \/ AwaitTimesOut(t)

Environment ==
    \/ \E c \in Conns : Serve(c) \/ Deliver(c) \/ Split(c) \/ Lose(c) \/ DiscardIdle(c)
    \/ \E k \in Keys : Write(k)
    \/ FlushAll
    \/ ClearCache

Next ==
    \/ \E t \in Threads : ReadStep(t) \/ CallStep(t) \/ LockStep(t) \/ ChoiceStep(t)
    \/ Environment

Spec == Init /\ [][Next]_vars

\* A running thread goes on, the server answers, the network delivers, and a
\* thread waiting for a lock that is free again and again gets it.
Fairness ==
    /\ \A t \in Threads : WF_vars(ReadStep(t) \/ CallStep(t)) /\ SF_vars(LockStep(t))
    /\ \A c \in Conns : WF_vars(Serve(c) \/ Deliver(c))

FairSpec == Spec /\ Fairness

-----------------------------------------------------------------------------
\* Properties.

Places == {"out", "sweep", "peer", "own1", "drain1", "lookup", "ticket", "check",
           "send", "await", "own2", "drain2", "offer", "piped"}

\* Every variable holds a value of its type.
TypeOK ==
    /\ version \in [Keys -> 0..MaxWrites] /\ announced \in [Keys -> 0..MaxWrites]
    /\ tracking \in [Keys -> SUBSET Conns]
    /\ request \in [Conns -> Keys \cup {None}]
    /\ wire \in [Conns -> Seq(Frames)] /\ inbox \in [Conns -> Seq(Frames)]
    /\ cut \in [Conns -> BOOLEAN]
    /\ status \in [Conns -> {"none", "up", "dead"}]
    /\ poisoned \subseteq Owned
    /\ ioLock \in [Conns -> Threads \cup {None}]
    /\ holds \in [Threads -> Conns \cup {None}]
    /\ pc \in [Threads -> Places]
    /\ key \in [Threads -> Keys \cup {None}]
    /\ todo \in [Threads -> SUBSET Conns]
    /\ swept \in [Threads -> BOOLEAN]
    /\ peer \in [Threads -> Conns \cup {None}]
    /\ inHand \in [Threads -> Frames \cup {None}]
    /\ answer \in [Threads -> 0..MaxWrites \cup {Miss}]
    /\ floor \in [Threads -> 0..MaxWrites]
    /\ lost \subseteq Keys /\ troubles \in 0..MaxTroubles
    /\ Cache!TypeOK

\* Thread t is about to return a value: a cached one or the one it read.
Returning(t) == pc[t] \in {"lookup", "offer"} /\ pc'[t] = "out"
ReturnedValue(t) == IF pc[t] = "lookup" THEN entries[key[t]] ELSE answer[t]

\* No execute() returns a value older than an invalidation that had begun to
\* arrive, on any connection of the pool, before the call.
FreshAnswers ==
    [][\A t \in Threads : Returning(t) => ReturnedValue(t) >= floor[t]]_vars

\* The same, except for keys whose tracking died with a connection.
FreshUnlessLost ==
    [][\A t \in Threads : Returning(t) =>
          ReturnedValue(t) >= floor[t] \/ key[t] \in lost]_vars

\* The frame that drops what is cached for k is in some thread's hand, or unread
\* on a connection that the next sweep will read.
Announced(k) ==
    \/ \E t \in Threads : inHand[t] # None /\ k \in KeysOf(inHand[t])
    \/ \E c \in Conns : /\ Usable(c)
                        /\ \E f \in ToSet(Unread(c)) : k \in KeysOf(f) /\ ~IsReply(f)

StaleKeys == {k \in Keys : entries[k] # Miss /\ entries[k] < version[k]}

\* A stale entry never goes unnoticed for good, except where the connection that
\* would have been told is gone.
StaleEntriesAreAnnounced == \A k \in StaleKeys : k \in lost \/ Announced(k)

\* A drain never meets a command reply: "anything readable while the lock is
\* held is out of band by construction" (connection.py, drain_invalidations).
DrainsMeetNoReply ==
    \A t \in Threads : Draining(t) /\ Socket(t) \notin poisoned =>
        \A f \in ToSet(inbox[Socket(t)]) : ~IsReply(f)

\* A usable connection has at most one command unanswered, and it is that of
\* the thread that borrowed it and is waiting for it.
RepliesAwaited ==
    \A c \in Conns : Usable(c) =>
        LET replies == {i \in DOMAIN Unread(c) : IsReply(Unread(c)[i])}
            waiting == {t \in Threads : holds[t] = c /\ pc[t] \in {"await", "piped"}}
        IN /\ Cardinality(replies) + (IF request[c] = None THEN 0 ELSE 1)
                 <= Cardinality(waiting)
           /\ \A t \in waiting, i \in replies : KeysOf(Unread(c)[i]) = {key[t]}

\* Every execute() returns or raises, whoever holds which I/O lock meanwhile.
EveryCallReturns == \A t \in Threads : pc[t] # "out" ~> pc[t] = "out"
=============================================================================
