--------------------------- MODULE CachingChannel ---------------------------
(***************************************************************************)
(* The harness's caching channel (harness/channels/caching.py) run against *)
(* cacheable execution: every case is a script for two readers of one      *)
(* caching pool and a writer outside it, and its assertions are looked at  *)
(* in every interleaving of the readers, the server and the network.       *)
(*                                                                         *)
(* As in PoolChannel a script is a sequence of stages.  What the channel   *)
(* takes for granted is that an invalidation sent is an invalidation       *)
(* received ("the write returns before the assertion, so the server has    *)
(* already sent the invalidation"): a stage ends when the wires are empty. *)
(* Sizes are scaled: two readers stand for eight, one attempt for fifteen, *)
(* three keys against a bound of two for seventeen against four.           *)
(***************************************************************************)
EXTENDS CachedExecute, TLC

CONSTANTS
    One, Two,           \* the readers
    Writer,             \* the connection outside the pool
    tracked, k2, k3,    \* the keys
    Cases               \* the names of the cases to run

ASSUME ReadersAssumption == {One, Two} = Threads /\ Writer \notin Threads
ASSUME KeysAssumption == {tracked, k2, k3} = Keys
ASSUME SizeAssumption == MaxEntries = 2 /\ MaxWrites >= 2

VARIABLES
    case,      \* the name of the case being run
    stage,     \* where it is
    script,    \* what each thread still has to do in the stage
    dropped,   \* cache_stats["invalidations"]
    hit,       \* is cache_stats["hits"] above 0?
    passing    \* no assertion failed yet

caseVars == <<case, stage, script, dropped, hit, passing>>

-----------------------------------------------------------------------------
\* The vocabulary of the cases.
Borrows == [op |-> "borrow"]
GivesBack == [op |-> "give back"]
Gets(k, how) == [op |-> "get", key |-> k, how |-> how, fresh |-> TRUE]
GetsAny(k) == [op |-> "get", key |-> k, how |-> {"hit", "miss"}, fresh |-> FALSE]
Pipes(k) == [op |-> "pipe", key |-> k, how |-> {"piped"}, fresh |-> TRUE]
Sets(k) == <<[op |-> "set", key |-> k]>>
Flushes == <<[op |-> "flush"]>>
Clears == <<[op |-> "clear"]>>

\* read(): borrow, execute, give back.
Read(k, how) == <<Borrows, Gets(k, {how}), GivesBack>>
ReadAny(k) == <<Borrows, GetsAny(k), GivesBack>>
ReadFresh(k) == <<Borrows, Gets(k, {"hit", "miss"}), GivesBack>>

\* A stage, how many entries the cache may then have, and how many
\* invalidations must have been counted.
Stage(by, sizes, drops) == [by |-> by, sizes |-> sizes, drops |-> drops]
Does(t, ops) == Stage(t :> ops, 0..2, 0)
All == 0..2

-----------------------------------------------------------------------------
\* The cache works at all.
RepeatedRead ==
    << Does(Writer, Sets(tracked)), Does(One, Read(tracked, "miss") \o Read(tracked, "hit")) >>

StatsCount ==
    << Does(Writer, Sets(tracked)), Stage(One :> Read(tracked, "miss"), {1}, 0) >>

ClearEmpties ==
    << Does(Writer, Sets(tracked)), Does(One, Read(tracked, "miss") \o Read(tracked, "hit")),
       Stage(Writer :> Clears, {0}, 0), Does(One, Read(tracked, "miss")) >>

\* Invalidation by another client: by SET, UNLINK or PEXPIRE, all one here.
Cached == Does(One, Read(tracked, "miss") \o Read(tracked, "hit"))

NotStaleAfterWrite ==
    << Does(Writer, Sets(tracked)), Cached, Does(Writer, Sets(tracked)),
       Stage(One :> ReadFresh(tracked), All, 1) >>

\* Invalidation racing the read.
WriteInFlight ==
    << Does(Writer, Sets(tracked)), Does(One, ReadAny(tracked)),
       Stage(One :> ReadAny(tracked) @@ Writer :> Sets(tracked), All, 0),
       Does(One, ReadFresh(tracked)) >>

\* The unrelated command is not cacheable: it takes the way of a pipeline.
WriteDuringUnrelated ==
    << Does(Writer, Sets(tracked)), Cached, Does(Writer, Sets(tracked)),
       Does(One, <<Borrows, Pipes(k2), GivesBack>>), Does(One, ReadFresh(tracked)) >>

WriteWhileIdle ==
    << Does(Writer, Sets(tracked)),
       Does(One, <<Borrows, Gets(tracked, {"miss"}), GivesBack>> \o Read(tracked, "hit")),
       Does(Writer, Sets(tracked)), Does(One, ReadFresh(tracked)) >>

Burst ==
    << Does(One, ReadAny(tracked)),
       Stage(One :> ReadAny(tracked) @@ Two :> (ReadAny(tracked) \o ReadAny(tracked))
             @@ Writer :> (Sets(tracked) \o Sets(tracked)), All, 0),
       Does(One, ReadFresh(tracked)) >>

\* Invalidation across pooled connections.
EvictedByAnother ==
    << Does(Writer, Sets(tracked)),
       Does(One, <<Borrows>>), Does(Two, <<Borrows>>),
       Does(One, <<Gets(tracked, {"miss"})>>), Does(Writer, Clears),
       Does(Two, <<Gets(tracked, {"miss"}), Gets(tracked, {"hit"}), GivesBack>>),
       Does(One, <<GivesBack>>),
       Does(Writer, Sets(tracked)), Does(One, ReadFresh(tracked)) >>

ConcurrentNotStale ==
    << Does(Writer, Sets(tracked)), Cached, Does(Writer, Sets(tracked)),
       Stage(One :> ReadFresh(tracked) @@ Two :> ReadFresh(tracked), All, 1) >>

HolderDoesNotBlock ==
    << Does(Writer, Sets(tracked)), Cached, Does(Two, <<Borrows>>),
       Does(Writer, Sets(tracked)), Does(One, ReadFresh(tracked)), Does(Two, <<GivesBack>>) >>

\* All arrive at the barrier with their connection in hand.
NoLockAcrossIO ==
    << Does(Writer, Sets(tracked)), Does(One, ReadAny(tracked)),
       Stage(One :> <<Borrows, Gets(tracked, {"hit", "miss"})>>
             @@ Two :> <<Borrows, Gets(tracked, {"hit", "miss"})>>, All, 0),
       Stage(One :> <<GivesBack>> @@ Two :> <<GivesBack>>, All, 0) >>

\* Scope.
PipelinedNotCached ==
    << Does(Writer, Sets(tracked)), Stage(One :> <<Borrows, Pipes(tracked), GivesBack>>, {0}, 0),
       Cached, Does(Writer, Sets(tracked)), Does(One, <<Borrows, Pipes(tracked), GivesBack>>) >>

\* Flush and overflow.
FlushDropsAll ==
    << Does(Writer, Sets(tracked) \o Sets(k2)), Cached,
       Stage(One :> (Read(k2, "miss") \o Read(k2, "hit")), {2}, 0),
       Does(Writer, Flushes), Does(One, ReadFresh(tracked) \o ReadFresh(k2)) >>

FilledPastBound ==
    << Does(Writer, Sets(tracked)), Cached,
       Stage(One :> (Read(k2, "miss") \o Read(k3, "miss")), {2}, 0),
       Does(Writer, Sets(tracked)), Does(One, ReadFresh(tracked)) >>

Scripts ==
    [RepeatedRead |-> RepeatedRead, StatsCount |-> StatsCount, ClearEmpties |-> ClearEmpties,
     NotStaleAfterWrite |-> NotStaleAfterWrite, WriteInFlight |-> WriteInFlight,
     WriteDuringUnrelated |-> WriteDuringUnrelated, WriteWhileIdle |-> WriteWhileIdle,
     Burst |-> Burst, EvictedByAnother |-> EvictedByAnother,
     ConcurrentNotStale |-> ConcurrentNotStale, HolderDoesNotBlock |-> HolderDoesNotBlock,
     NoLockAcrossIO |-> NoLockAcrossIO, PipelinedNotCached |-> PipelinedNotCached,
     FlushDropsAll |-> FlushDropsAll, FilledPastBound |-> FilledPastBound]

\* The cases that assert a hit (or more) and get one in every schedule.  In a burst
\* each read of a few may miss: its assertion is about a great many.
MustHit == DOMAIN Scripts \ {"StatsCount", "Burst"}

ASSUME CasesAssumption == Cases \subseteq DOMAIN Scripts

-----------------------------------------------------------------------------
Stages == Scripts[case]
ScriptOf(n) ==
    [t \in Threads \cup {Writer} |->
        IF n <= Len(Stages) /\ t \in DOMAIN Stages[n].by THEN Stages[n].by[t] ELSE <<>>]

ChannelInit ==
    /\ Init
    /\ case \in Cases
    /\ stage = 1
    /\ script = ScriptOf(1)
    /\ dropped = 0 /\ hit = FALSE
    /\ passing = TRUE

Due(t, op) == script[t] # <<>> /\ Head(script[t]).op = op
Goes == UNCHANGED <<case, stage, script, passing>>

\* The operation of t is over, and what it asserts holds or does not.
Over(t, asserted) ==
    /\ script' = [script EXCEPT ![t] = Tail(@)]
    /\ passing' = (passing /\ asserted)
    /\ UNCHANGED <<case, stage>>

\* The pool lends what is idle before it opens another connection.
SomeIdle == \E c \in Conns : Usable(c) /\ \A t \in Threads : holds[t] # c
BorrowOp(t) ==
    /\ Due(t, "borrow")
    /\ \E c \in Conns : Borrow(t, c) \/ (~SomeIdle /\ Open(t, c))
    /\ Over(t, TRUE) /\ UNCHANGED <<dropped, hit>>

GiveBackOp(t) ==
    /\ Due(t, "give back")
    /\ Release(t)
    /\ Over(t, TRUE) /\ UNCHANGED <<dropped, hit>>

Begin(t) ==
    /\ \/ Due(t, "get") /\ Call(t, Head(script[t]).key)
       \/ Due(t, "pipe") /\ PipeSend(t, Head(script[t]).key)
    /\ Goes /\ UNCHANGED <<dropped, hit>>

\* The value a call is about to return, and where it comes from.
Result(t) ==
    CASE pc[t] = "lookup" -> [how |-> "hit", value |-> entries[key[t]]]
      [] pc[t] = "offer" -> [how |-> "miss", value |-> answer[t]]
      [] pc[t] = "piped" /\ inbox[Socket(t)] # <<>> ->
            [how |-> "piped", value |-> Head(inbox[Socket(t)]).at[key[t]]]
      [] OTHER -> [how |-> "error", value |-> Miss]

Asserted(op, r) == r.how \in op.how /\ (op.fresh => r.value = version[op.key])

Proceed(t) ==
    /\ pc[t] # "out"
    /\ ReadStep(t) \/ CallStep(t) \/ LockStep(t)
    /\ IF pc'[t] = "out" THEN Over(t, Asserted(Head(script[t]), Result(t))) ELSE Goes
    /\ hit' = (hit \/ (pc[t] = "lookup" /\ pc'[t] = "out"))
    /\ dropped' = IF inHand[t] # None /\ inHand'[t] = None THEN dropped + 1 ELSE dropped

WriterOp ==
    /\ \/ Due(Writer, "set") /\ Write(Head(script[Writer]).key)
       \/ Due(Writer, "flush") /\ FlushAll
       \/ Due(Writer, "clear") /\ ClearCache
    /\ Over(Writer, TRUE) /\ UNCHANGED <<dropped, hit>>

Network ==
    /\ \E c \in Conns : Serve(c) \/ Deliver(c)
    /\ Goes /\ UNCHANGED <<dropped, hit>>

Ended == stage > Len(Stages)

NextStage ==
    /\ ~Ended
    /\ \A t \in Threads \cup {Writer} : script[t] = <<>>
    /\ \A c \in Conns : wire[c] = <<>>
    /\ stage' = stage + 1
    /\ script' = ScriptOf(stage + 1)
    /\ passing' = (/\ passing
                   /\ Cardinality(Cache!Cached) \in Stages[stage].sizes
                   /\ dropped >= Stages[stage].drops
                   /\ stage = Len(Stages) /\ case \in MustHit => hit)
    /\ UNCHANGED <<vars, case, dropped, hit>>

ChannelNext ==
    \/ \E t \in Threads : BorrowOp(t) \/ GiveBackOp(t) \/ Begin(t) \/ Proceed(t)
    \/ WriterOp \/ Network \/ NextStage

ChannelSpec == ChannelInit /\ [][ChannelNext]_<<vars, caseVars>>
FairChannel == ChannelSpec /\ WF_<<vars, caseVars>>(ChannelNext)

-----------------------------------------------------------------------------
\* Every case passes, whatever the schedule: no reader is served a value the
\* server had invalidated before the stage began, hits and misses come where
\* the case expects them, and no call fails (caching.py 97-617).
TestsPass == passing

\* Every case ends: no reader is left waiting for an I/O lock or a reply.
TestsFinish == <>Ended
=============================================================================
