# resp3-wire: a TLA+ model of the client and its harness

This directory specifies the reference client in `src/reference/resp3_wire` (its
connections, its pool, its pool-wide cache and the way the threads that borrow
connections keep that cache truthful, and its incremental parser) and the harness
that judges such clients: the cases of three of its channels, the comparer, the
orchestrator and the mutation runner. TLC checks the modules on small instances;
TLAPS proves, for every value of their constants, the safety of the cache, of the
pool, of a connection's order and session, of caching reads up to the freshness of
what they return, of the parser's buffer and stack, and of the harness and its runner.
File names without a path are those of `src/reference/resp3_wire`.

## The system

| part | state it keeps | operations |
|---|---|---|
| `ConnectionPool` (pool.py) | `_idle`, `_in_use`, `_owned`, `_reserved`, `_closed`, one condition variable | `acquire`, `release`, `connection`, `close`, `_open_reserved`, `_is_stale`, `_discard`, `_drain_peers` |
| `ReplyCache` (cache.py) | `_entries` (insertion ordered), `_by_key`, `_generation`, `_epoch`, counters | `get`, `generation`, `offer`, `invalidate`, `invalidate_all`, `clear`, `stats` |
| `Connection` (connection.py) | socket, parser, `_poisoned`, `_in_multi`, `_io_lock`, negotiated version | `connect`, `close`, `execute`, `drain_invalidations`, `pipeline` |
| `Pipeline` (pipeline.py) | queued encoded commands | `push`, `execute`, `reset` |
| `RespParser` (parser.py) | buffer, position, stack of open aggregates, pending attributes | `feed`, `gets`, `reset`, `has_buffered_input` |
| reply types (protocol.py), errors (errors.py) | none | `unwrap`, `exception_for` |
| `starter/` | none: stubs | |
| the channels (`harness/channels`) | none: 130 cases against the client | run on a real Redis or a scripted server |
| the comparer and corpus (`harness/support`) | none | `compare`, `strict_equal`, the frames of the chunking channel |
| `run.py` and `conftest.py` (`harness`) | a JUnit file, a JSON report | gates, one pytest session, a score |
| `mutate.py` with `mutations.py` (`tools`) | a work directory, saved rows | `--all`, `--only`, `--baseline`, `--rerender` |
| `visible_tests/`, `attacks/`, other tools | more tests, whole replacement packages, source scanners | |

How they interact. A thread borrows a connection from the pool, executes
commands on it and releases it. The pool's lock guards bookkeeping only: a
connection is opened, checked and closed with the lock free, so any thread's
critical section may run in between. Every connection of a caching pool shares
the pool's `ReplyCache` and calls the pool back (`predrain`, that is
`_drain_peers`) before it looks anything up, and the pool then reads the sockets
of connections that other threads hold, under each connection's `_io_lock`. The
cache is touched from `execute` and from `_handle_push`, in whichever thread
happens to read the push frame. The server remembers the keys each connection
read and announces a change of one of them once, on that connection.

The harness starts a pytest session in a process of its own and waits for it; the
session leaves a JUnit file, the harness a report. The mutation runner starts the
harness, once per mutated copy of the package, with a timeout, and reads the
report. Nothing but exit codes and these files goes between the three.

What is hard here: an invalidation arrives on another connection than the one
asking; it arrives behind, before, or in the middle of the reply it makes stale;
TCP splits it; the connection that would carry it dies. Slots are reserved by
threads that may fail to open; waiters time out while they are being notified;
the pool closes while connections are being opened, lent, checked or returned; a
timeout or an interrupt leaves a reply in flight. Pushes arrive between a batch's
replies; a negotiation fails half way; a transaction ends without its `EXEC`
succeeding. A session dies before its file is written, or outlives the harness that
a timeout killed, and files keep their names from run to run. `PROJECT.json` lists these
hazards with the lines where they bite and the properties that watch them.

## The properties that make each part correct

* Cache: the index finds every entry, the bound holds, and a reply read before
  an invalidation of its key is never stored.
* Pool: at most `max_connections`, one borrower at a time, no slot, socket or
  wakeup lost on any path, a late release is never refused, `acquire` returns or
  raises, and no connection with somebody's reply in flight is lent.
* Caching reads: no call returns a value older than an invalidation that had
  begun to arrive anywhere in the pool when the call was made; a stale entry
  always has an unread announcement that a later sweep will meet; a drain never
  takes a reply; no combination of sweeps, drains and locks gets a call stuck.
* Parser: the values and their metadata do not depend on how the input is split, and
  they are the ones the grammar gives.
* Connection and pipeline: each reply answers its own command, once and in order; a
  connection is poisoned on every path that loses that alignment; it is usable only
  when set up as constructed; nothing is cached whose change the server would not
  announce, a transaction's placeholders least of all.
* Channels: every case passes on the reference in every schedule, and ends.
* Comparer: a reply is accepted exactly when it is the one the oracle got.
* Harness and runner: what a gate ended is not scored; a row counts its own run's
  cases; a verdict is true of the package that was run; the runner ends.

## The modules

| module | models | how |
|---|---|---|
| `FreshStore` | what the cache promises | abstract: a store, the reads in progress, and which of them an invalidation has overtaken |
| `ReplyCache` | cache.py | one action per method, each atomic since each runs under the cache's lock |
| `ReplyCacheProofs` | | theorems about `ReplyCache` |
| `ConnectionPool` | pool.py, with the borrower's side of connection.py | one action per critical section and per socket operation between two of them |
| `ConnectionPoolProofs` | | theorems about `ConnectionPool` |
| `RequestReply` | what a connection promises its thread | abstract: how many commands were written and replies read, and which command the last reply answered |
| `Connection` | connection.py and pipeline.py for one connection and one thread; the server's side of its socket | one action per step of a call, per answer of the server, per push |
| `ConnectionProofs` | | theorems about `Connection`: the order of replies, and what it knows of the server's session |
| `CachedExecute` | `Connection.execute`'s cacheable branch, `drain_invalidations`, `_drain_locked`, `_roundtrip`, `_handle_push`, `_recv*`; `_drain_peers`; `Pipeline.execute` with one command | the threads' steps composed with an instance of `ReplyCache`, a tracking server, and a network |
| `CachedExecuteProofs` | | theorems about `CachedExecute`: types, locks, and whose reply is on its way |
| `CachedFreshnessProofs` | | theorems about `CachedExecute`: how old an entry or an answer may be |
| `RespWire` | what parser.py and protocol.py make of a line, a payload, a finished frame | operators only |
| `RespParser` | parser.py, and a caller that feeds and drains it | one action per token (`_step`) and per turn of the loop in `_emit` |
| `RespGrammar` | what a stream means | a recursive-descent reading, the reference for `RespParser` |
| `RespParserProofs` | | theorems about `RespParser` |
| `PoolChannel` | harness/channels/pool.py | scripts over the actions of `ConnectionPool` |
| `PoolChannelProofs` | | theorems about `PoolChannel`: it implements `ConnectionPool` |
| `CachingChannel` | harness/channels/caching.py | scripts over the actions of `CachedExecute` |
| `ChunkingChannel` | harness/channels/chunking.py, harness/support/corpus.py | streams for `RespParser`, and what their replies must be |
| `Comparator` | harness/support/compare.py, wire_codec.py | operators only |
| `Harness` | harness/run.py, conftest.py | two processes per run, and the files they leave |
| `MutationCatalogue` | tools/mutations.py | data only |
| `Evaluation` | tools/mutate.py | the runner over `Harness` |
| `EvaluationProofs` | | theorems about `Evaluation` and `Harness` |
| `MCReplyCache`, `MCConnectionPool`, `MCCachedExecute`, `MCRespParser`, `MCConnection`, `MCPoolChannel`, `MCCachingChannel`, `MCEvaluation` | | the small instances |

### ReplyCache

`entries`, `byKey`, `generation`, `epoch`, `hits`, `misses` and `invalidations`
are the attributes of those names. A Python dict keeps insertion order, which is
the eviction order; `before` holds it as a relation, because the code asks for
nothing but the oldest, and a set of pairs is easier to prove about than a
sequence. `byKey` maps a key without commands to the empty set where the code
has no entry. `reading` and `ticket` are the locals of `execute` between
`cache.generation(key)` and `cache.offer(...)`. `overtaken` is history: the
readers whose key was invalidated since they took their ticket. No guard reads
it; it is what the comparison in `offer` is held against. `invalidate` takes a set of keys:
a frame that named a key twice would only move its generation by two.
`DropKeys` and `DropAll` are `invalidate` and `invalidate_all` without the
statistics, for the module that instantiates the cache. `stats()` changes
nothing. The counters have bounds, `MaxLookups` and `MaxInvalidations`.

### ConnectionPool

A thread's `pc` says between which two critical sections it is; `conn` is the
connection in its hands. `waiters` is the deque inside `threading.Condition`:
`wait` appends, `notify` pops the head, and a waiter whose time is up is still in
the deque until it has the lock again, so that it may swallow a notification.
Deadlines are not counted: `Expire` lets any `acquire` in progress run out of time
at any moment. The timestamps that decide whether a health check is due are a
choice (`HealthChecks`). `residue` holds the connections with a reply asked for
and unread; `poisoned` and `sock` are the flag and the socket of a connection.
A command ends with its reply, with an error that poisons, or, under
`Interrupts`, with a `KeyboardInterrupt`, which nothing below `connection()`
handles. `StrayReleases` lets a thread release a connection it no longer
holds, or one that is none of the pool's. The critical section of `release` is one action with
its three outcomes.
A second `close()` does nothing and is left out. `connect()` is one step
that succeeds or fails; its own parts are in `Connection`.
`Spec` has interrupts and stray releases, which the constants switch on; `FairSpec`, which
the run `pool` checks, has neither, and the run `pool_channel` has both in one script.

### PoolChannel

A case is a sequence of stages, a stage gives each thread its operations, and a
stage ends when all are done: that is `run_workers`, its barriers and joins, or the
next line of a case without threads. Each operation says what it must give (a
connection, a reply, `TimeoutError`, `ValueError`), each stage what the pool's size
and idle count must then be, each case whether the connections borrowed must be one
or distinct. `passing` turns false at the first assertion that fails. The server and
the clock are those of the cases: it answers unless the side channel killed the
connection, and a timeout only elapses when nobody can go on. One more script,
`Abuse`, lets two threads do what they like, stray releases and interrupts included.
`Pool(s)` is the pool with the arguments of the case `s`.

### Connection

`open`, `poisoned`, `version`, `info`, `inMulti`, `pushes` and `queue` are the attributes of
the connection and of its pipeline. `pc` is the call in progress: one of the commands
of `_negotiate`, a round trip, a batch, a drain before the lookup or after the reply,
or a peer's sweep. `incoming` is the way back; the parser was fed the first `fed`
frames of it. A frame carries how many commands the server had answered when it wrote
it, so that a reply names its command: `written`, `taken` and `latest` are what
`RequestReply` is about. The cache is one entry and one ticket: whether an answer is
fresh is the subject of `CachedExecute`, here it is what kind of answer may be in it.
The server answers in order, may refuse, pushes when it likes and may go. `Quirks` adds
servers that refuse `HELLO` or `CLIENT TRACKING`, send garbage, put an attribute in
front of a push, or stay in `MULTI` after a failed `EXEC`; the scripted servers of the
oracle channel's negotiation cases are among them. A raise out of `connect` closes.
`MULTI` stands for the commands that enter a transaction, `EXEC` and `RESET` for those that
leave it; `GET` is the cacheable command, `SET` any other.

### CachedExecute

A thread inside `execute` goes through `sweep` and `peer` (`_drain_peers`),
`own1`/`drain1` (its own drain), `lookup`, `ticket`, `check` and `send`, `await`
(`_roundtrip`), `own2`/`drain2` and `offer`. `inHand` is a push frame that the
parser has yielded and `_handle_push` has not yet applied. A value is the
version of its key. `wire` holds what the server sent and `inbox` what arrived
whole (socket buffer and parser buffer: nothing in the code depends on which of
the two a whole frame is in); `cut` says that part of the next frame is in, and
`SplitsInToken` whether the split is one that `has_buffered_input` can see. The I/O lock
is re-entrant in the code, and no thread takes it twice on these paths. A name
in `Conns` is reused by a new connection after a discard, once no sweep refers to
the old object. `lost` is history: the keys whose tracking died with a
connection, until an invalidation drops what was read under it; `announced` and
`floor` are history too. The pool is reduced to what a reader sees of it:
borrow, open, release, discard of an idle broken connection; the closing of the
pool is left to `ConnectionPool`. The pool finds an idle connection dead by a `PING`,
which needs the connection's I/O lock, so the discard waits for a peer that is in it. `ClearCache` is the pool's `cache_clear()`: any
thread may drop the entries at any moment, and since no generation moves, a read in progress
may store its value all the same. A command that cannot be
written, by `_roundtrip` or by a pipeline, is `SendFails`: the connection is poisoned with
what had arrived on it unparsed, and the keys that was about are among the `lost`. An error
reply is a choice made when the reply has been read. Encoding is the identity on keys here: a command is its key,
`ReplyCache` checks several commands per key.

### CachingChannel

The channel's cases as scripts for two readers of the pool and a writer outside it, over
the whole of `CachedExecute`: readers borrow, read and return, the writer sets and
flushes, and the assertions about a read (its value; a hit or a miss), the cache's
size, the count of invalidations and that some read of the case was a hit are looked at in
every interleaving. The last is left out of the burst alone: of its few reads here each may
miss, and the channel's own assertion counts on a great many. The cases take
for granted that an invalidation sent is one received, so a stage ends when the wires
are empty. Cases that differ only in the write (`SET`, `DEL`, an expiry) are one script.

### RespParser

`buf`, `pos`, `scanFrom`, `stack`, `pending` and `rootAttrs` are the attributes of
those names (the innermost frame first), `value` is the local of `_emit`; `fed` and
`replies` are the caller's side. A symbol is a byte, except that a type byte and
the number after it are one symbol: the code reads them together, when their line
is complete. Numbers, big numbers and doubles are one type, both error forms
another. Any negative count after `$` or `*` is a null (`Nullable`). CR and LF are symbols of their own, so that a chunk may end between
them and a payload may contain them. A value is a record of its kind and its
parts; `Key` says which values Python holds equal, since a map and a set depend on
it, and `Hashable` which a map cannot have as keys. `Feed` is the whole of
`feed`, with its three cases; `Return` is the end of `gets`, with
`_release_if_drained`. After a `ProtocolError` the caller closes the connection
(`Reset`). `_COMPACT_THRESHOLD` is a constant of the model. `has_buffered_input` and
`NEED_MORE` against `None` are questions the caller asks; the first is modelled
where it matters, in `CachedExecute`.

`RespGrammar` reads a stream from left to right by recursive descent, an
attribute as a prefix of the value it decorates; it has no buffer, no stack and
no notion of a chunk. The two share `RespWire`: how a line is classified and how
a frame becomes a dict or a set is translated once, and the comparison is about
resumption, nesting and where metadata goes.

### ChunkingChannel and Comparator

The corpus's frames are built by the constructors it names (`blob`, `verbatim`, `attr`,
`nest`) and become streams of the parser; the channel's ways of cutting them are all
behaviours of `RespParser`, whose caller feeds any number of bytes. What a case says a
frame is (`AbsoluteValues`, `AttributeCases`) is compared with the reply. `Comparator`
has what a value becomes on its way through redis-py and the tagged encoding
(`RedisPy`), and `compare` with its normalisation (`Accepts`); `SameReply` says the same
without classes and sorting, and the two are held against each other on every pair
of replies that a run of the parser produces.

### Harness and Evaluation

`runs` has one record per `run.py` process, with its session: at its gates, starting, in
its cases, over, left. `junit` and `report` are the files, by the name they have on
disk; `by` is the run that wrote one and `of` the run whose cases it counts, zero when
there was nothing to count. A case is not modelled: what a package passes per channel
belongs to the package, and `Packages` are the ones considered. `Evaluation` has the
runner: `check_anchors` over the whole catalogue, the selection, the control run, a copy and
a run per mutation (`todo` is a set of places in the catalogue, and the least is next),
the timeout that kills `run.py` and leaves its session, the rows, the
saved file and `--rerender`. `MutationCatalogue` keeps the entries' names, aims and
files; the text of an edit is left out, and whether a file's anchors still match is an
input (`drifted`).

## What TLC checks

| run | instance | what it shows |
|---|---|---|
| `reply_cache` | 2 keys, 3 commands (two on one key), 2 readers, 2 values, room for 2, 2 invalidations | the index is exact; tickets tell the overtaken readers; refinement of `FreshStore` |
| `pool` | 3 threads, 2 connections, limit 2, health checks | limit, lending, ownership, slots, sockets and wakeups, no foreign reply, and that `acquire` returns |
| `pool_channel` | 22 cases with up to 3 workers and 3 connections; `Abuse` with 2 threads | every case passes and ends in every schedule; misuse is contained |
| `cached_execute` | 2 threads, 2 connections, 1 key, 1 write or flush, split frames, 1 lost connection or timeout | a stale answer only where tracking was lost, every other stale entry announced, no reply met by a drain |
| `cached_pipeline` | one caching and one pipelining thread, 1 write, 1 loss or timeout | no unclaimed reply on a usable connection; every call ends |
| `caching_channel` | 15 scripts, 2 readers, 3 keys, room for 2 | every case passes and ends in every schedule |
| `parser` | streams of up to five tokens and the chunking corpus (a group of frames in two halves), fed in chunks of any size, drained or not between them, compaction from three symbols on | a drained parser has returned exactly what the grammar says, the corpus means what its cases say, and the comparer tells replies apart |
| `connection` | 3 configurations, `GET`, `MULTI`, `EXEC` executed, batches of up to 2 of `SET` and `GET`, 5 commands per socket, 2 connects, 1 push and 1 invalidation; a server that may refuse `HELLO` or send garbage | refinement of `RequestReply`; set up or unusable; the transaction flag, the push counter, the cache's contents; every call ends |
| `evaluation` | 3 runs, 7 packages, 4 invocations (2 in a row), 1 session that dies, 2 runs by hand | gates abort, rows are their own run's, verdicts are true, the runner ends |

Three runs expect a violation; each checks one property that a doc or comment of
the repository states and the code does not keep.

| run | what the counterexample shows |
|---|---|
| `drain_meets_reply` | `Pipeline.execute` reads without `_io_lock`, so a peer's sweep can take the pipeline's reply |
| `split_frame` | an invalidation split between two tokens leaves `has_buffered_input` false, the drain gives up, and a hit is served that the frame makes stale |
| `queued_reply` | `MULTI` sent by a pipeline leaves `_in_multi` false; a `GET` then caches the server's `QUEUED` placeholder |

What else the models refute when a constant is changed, or a property is checked that
no run lists:

* `NoCrossTalk` under `Spec` of `ConnectionPool` with `Interrupts`: `KeyboardInterrupt` during a command does not poison,
  `connection()` returns the connection with a reply in flight, and the next borrower
  reads it. During a health check it leaves the connection lent to nobody.
* An entry survives the connection that read it: the server's announcement has nowhere
  to go, so the stale answer of API.md 490 is given for good. `FreshUnlessLost` and
  `StaleEntriesAreAnnounced` except just these keys.
* `OnlyTrackedCached` with a server that refuses `HELLO` to a caching client, `SetUp` with one
  that refuses `CLIENT TRACKING`: the reply to the latter is not looked at (connection.py
  482) and a fallback to RESP2 leaves the cache on.
* `RepliesInOrder`, `OnlyPushesBetween` and `PushesCounted` with `"wraps pushes"`: the parser
  wraps a decorated push in `Attributed`, which `_read_reply` and `_drain_locked` take for
  a reply, where protocol.py 138 says a push "is never wrapped by an attribute".
* `TransactionKnown` with a server that stays in `MULTI` after a failed `EXEC`, which Redis
  does not do.
* `ZeroOnlyWhenAllPassed` (run.py 11): a session that dies before writing leaves the JUnit
  file of the run before, and run.py scores that. `RowsAreOwn` names this exception, and
  `ZeroCorrect` is what is left of the promise.
* `AbortsAreNotScores` (run.py 152): the runner reads an aborted report's missing channels as
  zeros and calls the row a total loss.

Why these bounds. Three threads at a limit of two are the least that has one
waiter beside two borrowers, and a waiter that is overtaken; with two
connections in all, a discarded connection leaves one to reopen, and failed opens are unlimited.
For the cache, two commands on one key and room for two make every third offer evict, and
one that shares its key with the evicted. In `CachedExecute` every thread has
one peer, which is all that distinguishes "own" from "other". `MaxTroubles` bounds losses
and timeouts. In `Connection` five commands on a socket are a negotiation and a batch, or a
transaction with a read inside and one after it; two connects let a second life meet what a
first left behind. In the channels workers and rounds are scaled as their modules say: two or
three workers stand for eight, since what a case asserts is about two of them at a time. In
`Evaluation` three runs are the least in which a run that was killed, the run after it and
its own late session meet under one name; the packages are one of each kind that
a gate or a verdict tells apart. The parser's streams are an opening frame, or a line
that leaves something behind, followed by any two
tokens, good or malformed (so that frames end, fail, or are still open), every
two nested frames followed by three tokens, attributes among them, and the corpus; a
compaction threshold of three makes the buffer move in the
middle of most of them. Deadlock is checked in `reply_cache`, `pool`, `cached_execute`,
`cached_pipeline` and `parser`: a closed pool still refuses calls, and some thread can always
begin one. It is off where the system stops: a script that is over, a runner that
has used its invocations, a connection that has used its sockets and commands.

Fairness. In `ConnectionPool` a thread inside `acquire` goes on and its deadline
passes (`WF`): each blocking call there has a socket timeout or the condition's.
Borrowers need not release. With finitely many connection objects a thread whose
check always fails runs out of connections; in the code its deadline bounds only the wait, so a
pool whose every check fails is bounded by the connections it holds. In `CachedExecute`
threads go on, the server answers and the network delivers (`WF`), and a thread
waiting for an I/O lock that is free again and again gets it (`SF`):
`threading.RLock` promises no order, but its holders are in short drains, and
a starving thread would need a sweeper that wins every race. Timeouts are
choices and are under no fairness, except where nothing can come any more. In `Connection`
only the call in progress is fair (`WF` of `CallStep`): its thread runs and its socket has a
timeout; the server owes nothing. In the channels some enabled step is taken (`WF` of the
next-state relation): that is enough, since a script consists of finitely many steps, and
what could go wrong is that none is enabled. In `Evaluation` run.py and the runner are fair
and the sessions are not: without the pytest-timeout plugin a case may hang for ever, and the
runner must end all the same.

## What is proved

For every value of the constants, from the named assumptions in the modules
(finite sets, `MaxEntries` and `MaxConnections` positive, markers outside the sets
they stand apart from) and what a theorem itself assumes. Each such condition is one that
TLC shows to be needed, or that the section above names as the code's own limit.

**The cache** (`ReplyCacheProofs`): `TypeCorrect`, `IndexCorrect`, `BoundRespected`,
`OrderCorrect`, `TicketsStayBehind`, `TicketsCorrect`, `ImplementsFreshStore`. The index,
the order and the types are inductive together; the bound rests on them, because an
eviction makes room only if the command it drops is cached. The refinement maps the
abstract store to the entries and keeps the history of overtaken readers, so it needs
`TicketsTell`, that `offer`'s comparison finds exactly those readers; and that needs
`TicketsBehind`, because a ticket that could be ahead of the counters would one day be
met by them.

**The pool** (`ConnectionPoolProofs`). With interrupts and stray releases: `TypeCorrect`,
`ReservationsCorrect`, `CapacityCorrect`, `IdleOnce`, `SocketsTracked`. With interrupts:
`LendingExclusive`, `OwnershipCorrect`, `ReleaseNeverRefused` (a stray release takes a
connection from its borrower). With stray releases: `WakeupsKept`. With neither:
`RepliesStayOwn`, `SlotsCorrect`.

* `CapacityCorrect` needs that `reserved` counts the threads that are opening, since only
  then can it not run below zero, and that idle and lent connections are distinct.
* `LendingExclusive` is not inductive by itself: a thread that closes a discarded
  connection must know that the pool has disowned it, and a thread that opens one that it
  is new. `SlotsCorrect` adds that every lent connection is in some thread's hands.
* `SocketsTracked` is inductive once it is known that only a thread inside `close()` has
  connections left to close.
* `RepliesStayOwn` adds that an open, unpoisoned connection with a reply unread is in the
  hands of a thread inside a command, a check included.
* `WakeupsKept`: while anyone waits, the slots neither lent nor being filled are at most the
  threads that will yet look for one. Each step that frees a slot notifies a waiter, and a
  thread stops looking only by taking a slot, or when it finds none. It needs besides that
  the queue of waiters holds each waiting thread once.

**A connection** (`ConnectionProofs`). `ConnectionTyped` holds for
every server; the rest for servers that decorate no push (`PushesBare`) and for what is
named below, in every configuration, with any batches and any number of commands.

* `RepliesAreOwn` (the refinement of `RequestReply`) and `OnlyPushesAreDrained`. The
  invariant is that the frames on their way follow the replies read and end with the last
  command answered, each reply one number on from the frame before (`Stream`), together
  with how many replies are due at each place of a call (`Due`). The refinement follows
  because a reader that gets a reply gets the head of such a stream, and it holds through
  failures because each of them makes the connection unusable.
* `PushesAreCounted`, `ConnectionsAreSetUp`, `TransactionsAreKnown`,
  `TrackedValuesAreCached`. They rest on one more invariant (`OwnInv`): the commands on
  their way are those of the step of `connect()`, of the `execute()` or of the batch in
  progress. So the session can only change as the call in progress asks, and each place of
  `_negotiate` fixes what the server already has.
* What they assume, and what TLC refutes without it: a server that grants `CLIENT TRACKING`
  (`SetUp`, `OnlyTrackedCached`), that grants `HELLO` to a caching client
  (`OnlyTrackedCached`), and that ends a transaction with every `EXEC`
  (`TransactionKnown`, `OnlyTrackedCached`); callers that execute no `RESET` (`SetUp`,
  `OnlyTrackedCached`: the server forgets the session and the client does not notice) and
  pipeline no `MULTI` (`TransactionKnown`, `OnlyTrackedCached`, the run `queued_reply`).
  `PushesBare` itself is needed for `PushesCounted`, `SetUp` and `OnlyTrackedCached`.

**Caching reads** (`CachedExecuteProofs`, `CachedFreshnessProofs`), for any threads,
connections, keys, writes, splits, losses, timeouts and clearings of the cache.

* `TypeCorrect`, `LocksAreServed` and `RepliesAreAwaited` hold with pipelines; `DrainsMeetOnlyPushes` without
  (`Pipeliners = {}`; `drain_meets_reply` is the run with them). The invariant says who may
  be in a connection's I/O lock, at which place of a call its holder is, and that the
  unread replies of a usable connection are at most one and its borrower's. `LocksAreServed`
  is the converse for the locks: one that is taken is its reader's, who waits for no other.
  That is the part of `EveryCallReturns` that is a safety property, the absence of a circle of
  waiting threads; that the reader goes on, and gets a lock that is free, is the fairness.
* `StaleAreAnnounced` has no assumption. A value that is served, or could be once its reader
  offers it, always has a witness: its key lost its tracking, or the announcement that makes
  it stale is unread on a usable connection or in a thread's hands, or it is the server's value
  and a usable connection is tracking it. The hard steps are `offer`, where the generations
  must have told the reader of an announcement handled meanwhile, and a loss, after which
  another connection may still track the key.
* `AnswersAreFresh`, without pipelines and with splits that `has_buffered_input` can see
  (`SplitsInToken`; the run `split_frame` is the other case). What the newest announcement
  that had begun to arrive forbids is still to be met on some usable connection, or handled
  (`NewsInv`); a sweep has that connection ahead of it until it has drained it (`SweepInv`);
  and a reply that was asked for since is as new as the call (`AnswerInv`). Together they
  give the action property `FreshUnlessLost`: what a call returns is not older than the
  invalidations that had begun to arrive when it was made, unless the key lost its tracking.

**The parser** (`RespParserProofs`): `TypeCorrect`, `ScanCorrect`, `BytesKept`. The last two
and the types of the buffer are inductive together. `ScanSound` says more than that no
line's end was skipped: the last byte is always looked at again, without which a LF that
arrives later would complete a CRLF behind the scan position. For the types, a frame on the
stack must always lack a value, since one that is complete and not closed would be read
beyond its declared length.

**The harness and the runner** (`EvaluationProofs`): `TypeCorrect`, `GatesCorrect`,
`RowsCorrect`, `VerdictsCorrect`, `ZeroCorrect`, for any packages, argument sets, numbers of
runs and of sessions that die.
The invariant is that only the newest run can still be waited for (`RunsInv`) and that the
runner starts none before it is over or killed (`ToolInv`). A session that ended by itself
then left its own file and a run that was not killed its own report (`FilesInv`), unless a
session that outlived its `run.py` wrote under the same name in between, and those are the
exceptions of `RowsAreOwn`. `GatesAbort` needs that the exit codes that abort are those
of a gate, a usage error or an internal error, and no other end of a session.

`VerdictsTrue` speaks of rows that are long in a file, of runs whose session may still be
going, so it needs invariants about everything between a session and a row. A JUnit file that
is whole, and a report with its own run's counts, tell what the package does (`JunitTrue`,
`ReportTrue`: all cases only of a package that passes all, none only of one that passes none,
or when a gate, a collection error or an interruption came first). What they say rests on a
session's code and gate, which no step changes once it has ended (`Grows`), and a file is
read only when its session has. A row keeps what it was judged from and was judged by it
(`Formed`), and a row of a run that was given up counts none of its cases (`Judged`), so it
does not matter that the run's session goes on. That judging a saved file again changes
nothing needs besides that no two of its rows have one name (`Distinct`): the runner must
know that it has no row yet of any mutation it has still to run (`Unjudged`). The catalogue
enters by two assumptions, that its names differ (`NamesAssumption`) and that none is the
control's (`ControlAssumption`); TLC evaluates both on the whole catalogue.

`ZeroCorrect` is the promise of run.py as far as it holds: a run that exits with zero ran a
package that passes every case, unless its session died or a session of the same name had
outlived its own run.py. It follows from `ReportTrue`, since zero is the exit of a report
without failures, and TLC finds a counterexample without either exception.

**The pool's channel** (`PoolChannelProofs`): `CasesDriveThePool`, `MisuseCorrect`,
`CasesLoseNoWakeup`. The channel implements `ConnectionPool`: what a script may do next only
restricts what a thread of the pool may do, and between two stages the pool stands still. So
the pool's theorems hold in the channel, for any number of rounds and connections:
`MisuseContained` in every case, since its parts hold with stray releases and interrupts, and
that no wakeup is lost in every case that interrupts nobody. The limit of the pool is the
case's, and a theorem about an instance can be cited of one limit only, so these are stated of
the behaviours of one case, whichever it is.

What is proved without being listed as a run's property (`TypeOK` of the cache, the pool and
`Connection`, the cache's bound and order, `IdleOnce`, `ReleaseNeverRefused`, `ZeroIsEarned`,
`LocksServed`, the channel's steps) is not checked again by TLC.

Only model-checked: what the parser's replies are (`RepliesExact`, `FramesMeanWhatTheySay`)
and what the comparer tells (`ComparatorTells`), whose definitions are recursive; the
channels' cases (`TestsPass`: each script is a constant, and that it passes in every schedule
is a question about that one constant); and all liveness, which is out of the prover's reach.

## What is not modelled

* What a pipeline has in hand. A pipeline parses an invalidation without `_io_lock`,
  and until it has handled it a peer's sweep finds the socket clean and the entry
  still cached: with a pipelining thread among the callers `FreshUnlessLost` fails. The
  cause is the one `drain_meets_reply` shows, so the runs about staleness have no
  pipelines.
* Real time inside a critical section: `_open_reserved` closes a socket under the
  pool's lock when the pool was closed meanwhile (pool.py 373).
* The kind of an exception. A sweep that meets a connection being closed may raise
  an error that is no `RedisError` (`DrainTorn`); a hit may be served on a
  connection that is closed or poisoned, since only `_roundtrip` looks, where API.md 341
  has every further `execute` raise.
* Concurrent calls into one parser: with a pipeline and a sweep on one socket,
  `gets()` itself is not thread-safe; the model lets each frame go to one of them.
* The number of sockets open at the server: between `_discard`'s critical section
  and its `close()`, another thread may already open a replacement.
* Encoding of commands, the mapping of error codes to exceptions (errors.py), the
  starter package of stubs.
* The oracle channel's differential cases: they compare with redis-py on a real server,
  and a model of that server's commands would be the subject of the comparison. Its
  comparer and its negotiation servers are modelled. The resource channel measures
  memory and time.
* Of the caching channel the case that constructs a pool with protocol 2 and the one
  with `cache_size=0`: both are one assertion about a constructor.
* In the comparer, floats and the comparison of pushes and of decorated values, which the
  oracle never produces. Members of a set that are equal in Python (`true` and `1`)
  collapse on the client's side only; the oracle's side is computed from the client's
  value here, so that such a reply is not compared.
* Starting and stopping Redis, the oracle's subprocess, the scan for imports
  (sansio.py), the attacks (whole replacement packages run through the harness) and the
  remaining tools: input and output, and text.

## Plan

1. done: `ReplyCache` with `FreshStore`, `ConnectionPool`, `CachedExecute`, and the
   proofs of the first two.
2. done: `RespParser` with `RespGrammar`, and the proofs about its buffer.
3. done: `Connection` with `RequestReply`, and the proof of the refinement.
4. done: the channels over the client's modules, the comparer, the harness and the
   mutation runner.
5. done: the proofs about a connection's session, caching reads, the rest of the pool, the
   parser's stack, the harness and the runner with its verdicts, and the pool's channel.
6. Left: what the prover cannot reach, as said above.
