----------------------------- MODULE PoolChannel -----------------------------
(***************************************************************************)
(* The harness's pool channel (harness/channels/pool.py) run against the   *)
(* pool: every case is a script whose threads drive ConnectionPool, and    *)
(* its assertions are looked at in every interleaving, so that a case is   *)
(* shown to pass on the reference whatever the scheduler does.             *)
(*                                                                         *)
(* A script is a sequence of stages.  In a stage each worker has its own   *)
(* operations, and the stage is over when all are done: a barrier, a join, *)
(* or the next line of a case that has one thread.  Sizes are scaled: two  *)
(* or three workers stand for eight and two rounds for twenty-five.        *)
(***************************************************************************)
EXTENDS Naturals, Sequences, FiniteSets

CONSTANTS
    Conns,     \* the Connection objects that may be created: a bound
    Cases      \* the names of the cases to run

NoConn == 0
Main == 0                 \* the thread of the case itself
Workers == 1..3
Threads == {Main} \cup Workers

VARIABLES
    idle, inUse, owned, reserved, closed, waiters, pc, conn, expired, doomed, sock,
    poisoned, residue,
    case,      \* the name of the case being run
    stage,     \* where it is
    todo,      \* what each thread still has to do in the stage
    dead,      \* the connections the side channel killed
    borrowed,  \* the connections lent so far, in order
    passing    \* no assertion failed yet

poolVars == <<idle, inUse, owned, reserved, closed, waiters, pc, conn, expired,
              doomed, sock, poisoned, residue>>
caseVars == <<case, stage, todo, dead, borrowed, passing>>
vars == <<poolVars, caseVars>>

\* The pool as the case s makes it.
Pool(s) == INSTANCE ConnectionPool WITH
    MaxConnections <- s.limit, HealthChecks <- s.checks,
    Interrupts <- s.abused, StrayReleases <- TRUE

-----------------------------------------------------------------------------
\* The vocabulary of the cases.
Do(op, gives) == [op |-> op, gives |-> {gives}]
Borrow == Do("acquire", "connection")
Refused == Do("acquire", "ConnectionError")
Exhausted == Do("acquire", "TimeoutError")
Ask == Do("command", "reply")
Stall == Do("sleep", "error")
AskDead == Do("command", "error")
AskPoisoned == Do("command", "refused")
GiveBack == Do("release", "released")
GiveBackAgain == Do("release again", "ValueError")
GiveBackForeign == Do("release foreign", "ValueError")
Kill == Do("kill", "killed")
Shut == Do("close", "closed")

\* A stage, and what the pool's size and idle must then be.
Alone(t, ops, sizes, idles) == [by |-> [u \in {t} |-> ops], sizes |-> sizes, idles |-> idles]
Together(ts, ops, sizes, idles) == [by |-> [u \in ts |-> ops], sizes |-> sizes, idles |-> idles]
Any == 0..3

\* tagged_round() in run_workers().
TaggedRounds(ts) == Together(ts, <<Borrow, Ask, GiveBack, Borrow, Ask, GiveBack>>, Any, Any)
Case(limit, checks, claim, stages) ==
    [limit |-> limit, checks |-> checks, claim |-> claim, stages |-> stages, abused |-> FALSE]

-----------------------------------------------------------------------------
\* Borrow, release, reuse, capacity.
GrowsToMax == Case(2, FALSE, "distinct",
    << Alone(1, <<Borrow>>, {1}, {0}), Alone(2, <<Borrow>>, {2}, {0}),
       Alone(3, <<Exhausted>>, {2}, {0}) >>)

ReleaseValidatesProvenance == Case(2, FALSE, "any",
    << Alone(1, <<GiveBackForeign, Borrow, GiveBack, GiveBackAgain>>, {1}, {1}) >>)

CapacityHolds == Case(2, FALSE, "any",
    << Together(Workers, <<[op |-> "acquire", gives |-> {"connection", "TimeoutError"}],
                           GiveBack>>, 1..2, Any) >>)

\* Health check and eviction.
EvictsDeadIdle == Case(2, TRUE, "distinct",
    << Alone(1, <<Borrow, Ask, GiveBack>>, {1}, {1}), Alone(Main, <<Kill>>, {1}, {1}),
       Alone(1, <<Borrow, Ask>>, {1}, {0}) >>)

NoCheckByDefault == Case(2, FALSE, "same",
    << Alone(1, <<Borrow, Ask, GiveBack, Borrow, Ask>>, {1}, {0}) >>)

CheckedIsHandedBack == Case(2, TRUE, "same",
    << Alone(1, <<Borrow, Ask, GiveBack, Borrow, Ask>>, {1}, {0}) >>)

\* Poisoning.
DeathPoisons == Case(2, FALSE, "any",
    << Alone(1, <<Borrow, Ask>>, {1}, {0}), Alone(Main, <<Kill>>, {1}, {0}),
       Alone(1, <<AskDead>>, {1}, {0}), Alone(1, <<GiveBack>>, {0}, {0}) >>)

TimeoutPoisons == Case(2, FALSE, "any",
    << Alone(1, <<Borrow, Stall>>, {1}, {0}), Alone(1, <<GiveBack>>, {0}, {0}) >>)

PoisonedRefuses == Case(2, FALSE, "any",
    << Alone(1, <<Borrow, Stall, AskPoisoned, AskPoisoned, GiveBack>>, {0}, {0}) >>)

\* Concurrent utilization and distinct ids: all arrive at the barrier.
HoldSimultaneously == Case(2, FALSE, "any",
    << Together({1, 2}, <<Borrow>>, {2}, {0}), Together({1, 2}, <<GiveBack>>, {2}, {2}) >>)

ReceiveDistinct == Case(2, FALSE, "distinct",
    << Together({1, 2}, <<Borrow, Ask>>, {2}, {0}), Together({1, 2}, <<GiveBack>>, {2}, {2}) >>)

\* Cross-talk.
NoCrossTalkTagged == Case(2, FALSE, "any", << TaggedRounds({1, 2}) >>)

NoCrossTalkReused == Case(1, FALSE, "any",
    << TaggedRounds(Workers), Alone(Main, <<>>, 0..1, Any) >>)

\* The case lets another pool lend the connection after the timeout; here it is
\* the same pool, which has more occasion to confuse them.
NoCrossTalkAfterTimeout == Case(1, FALSE, "any",
    << Alone(1, <<Borrow, Stall, GiveBack>>, {0}, {0}), Alone(2, <<Borrow, Ask, GiveBack>>, {1}, {1}) >>)

NoCrossTalkAfterKill == Case(2, FALSE, "any",
    << Alone(1, <<Borrow, Ask>>, {1}, {0}), Alone(Main, <<Kill>>, {1}, {0}),
       Alone(1, <<AskDead, GiveBack>>, {0}, {0}), TaggedRounds({2, 3}) >>)

\* Close and cleanup.
CloseClosesAll == Case(2, FALSE, "any",
    << Alone(1, <<Borrow>>, {1}, {0}), Alone(2, <<Borrow, GiveBack>>, {2}, {1}),
       Alone(Main, <<Shut>>, {0}, {0}), Alone(3, <<Refused>>, {0}, {0}) >>)

AlwaysReleases == Case(1, FALSE, "same",
    << Alone(1, <<Borrow, Ask, GiveBack>>, {1}, {1}),
       Alone(1, <<Borrow, Ask, Ask, GiveBack>>, {1}, {1}) >>)

ReleaseAfterClose == Case(2, FALSE, "any",
    << Alone(1, <<Borrow>>, {1}, {0}), Alone(Main, <<Shut>>, {0}, {0}),
       Alone(1, <<GiveBack>>, {0}, {0}) >>)

\* Capacity exhaustion.
ExhaustionRaises == Case(1, FALSE, "any",
    << Alone(1, <<Borrow>>, {1}, {0}), Alone(2, <<Exhausted>>, {1}, {0}),
       Alone(1, <<GiveBack>>, {1}, {1}) >>)

ExhaustionClears == Case(1, FALSE, "any",
    << Alone(1, <<Borrow>>, {1}, {0}),
       [by |-> [u \in {1, 2} |-> IF u = 1 THEN <<GiveBack>> ELSE <<Borrow, GiveBack>>],
        sizes |-> {1}, idles |-> {1}] >>)

\* Idle reuse is genuine.
IdStable == Case(2, FALSE, "same",
    << Alone(1, <<Borrow, Ask, GiveBack>>, {1}, {1}), Alone(1, <<Borrow, Ask>>, {1}, {0}) >>)

SizeStaysOne == Case(2, FALSE, "same",
    << Alone(1, <<Borrow, Ask, GiveBack>>, {1}, {1}), Alone(1, <<Borrow, Ask, GiveBack>>, {1}, {1}),
       Alone(1, <<Borrow, Ask, GiveBack>>, {1}, {1}) >>)

\* No case: an application whose two threads are interrupted and release what
\* they do not hold.
Abuse == [limit |-> 2, checks |-> TRUE, claim |-> "any", stages |-> <<>>, abused |-> TRUE]

Script ==
    [GrowsToMax |-> GrowsToMax, ReleaseValidatesProvenance |-> ReleaseValidatesProvenance,
     CapacityHolds |-> CapacityHolds, EvictsDeadIdle |-> EvictsDeadIdle,
     NoCheckByDefault |-> NoCheckByDefault, CheckedIsHandedBack |-> CheckedIsHandedBack,
     DeathPoisons |-> DeathPoisons, TimeoutPoisons |-> TimeoutPoisons,
     PoisonedRefuses |-> PoisonedRefuses, HoldSimultaneously |-> HoldSimultaneously,
     ReceiveDistinct |-> ReceiveDistinct, NoCrossTalkTagged |-> NoCrossTalkTagged,
     NoCrossTalkReused |-> NoCrossTalkReused,
     NoCrossTalkAfterTimeout |-> NoCrossTalkAfterTimeout,
     NoCrossTalkAfterKill |-> NoCrossTalkAfterKill, CloseClosesAll |-> CloseClosesAll,
     AlwaysReleases |-> AlwaysReleases, ReleaseAfterClose |-> ReleaseAfterClose,
     ExhaustionRaises |-> ExhaustionRaises, ExhaustionClears |-> ExhaustionClears,
     IdStable |-> IdStable, SizeStaysOne |-> SizeStaysOne, Abuse |-> Abuse]

ASSUME CasesAssumption == Cases \subseteq DOMAIN Script
ASSUME ConnsAssumption == IsFiniteSet(Conns) /\ NoConn \notin Conns

-----------------------------------------------------------------------------
This == Script[case]
Todo(n) ==
    [t \in Threads |->
        IF n <= Len(This.stages) /\ t \in DOMAIN This.stages[n].by
        THEN This.stages[n].by[t] ELSE <<>>]

Init ==
    /\ case \in Cases
    /\ \E s \in {This} : Pool(s)!Init
    /\ stage = 1
    /\ todo = Todo(1)
    /\ dead = {}
    /\ borrowed = <<>>
    /\ passing = TRUE

Due(t, op) == todo[t] # <<>> /\ Head(todo[t]).op = op
Settled(t) == pc[t] \in {"out", "hold"}
Goes == UNCHANGED caseVars

\* The operation of t ends with this result.
Gives(t, result) ==
    /\ passing' = (passing /\ result \in Head(todo[t]).gives)
    /\ todo' = [todo EXCEPT ![t] = Tail(@)]
    /\ UNCHANGED <<case, stage>>

\* acquire().  The server of the cases takes every connection and answers a
\* PING unless the side channel killed the connection; a case about the health
\* check waits for longer than the interval before it borrows.
StartAcquire(s, t) == Due(t, "acquire") /\ Pool(s)!Call(t) /\ Goes

Acquire(s, t) ==
    /\ Due(t, "acquire")
    /\ Pool(s)!AcquireStep(t)
    /\ pc[t] = "opening" => pc'[t] = "opened"
    /\ pc[t] = "check" /\ s.checks => pc'[t] # "hold"
    /\ pc[t] = "ping" => /\ conn[t] \in dead => pc'[t] # "hold"
                         /\ conn[t] \in dead <=> conn[t] \in poisoned'
                         /\ conn[t] \notin dead => pc'[t] = "hold"
    /\ CASE pc'[t] = "hold" -> Gives(t, "connection") /\ borrowed' = Append(borrowed, conn'[t])
         [] pc'[t] = "out" -> /\ Gives(t, IF closed THEN "ConnectionError" ELSE "TimeoutError")
                              /\ UNCHANGED borrowed
         [] OTHER -> UNCHANGED <<case, stage, todo, borrowed, passing>>
    /\ UNCHANGED dead

\* The timeouts of the cases are long: one only elapses when no thread can go on.
Blocked(t) == pc[t] = "waiting" /\ \E i \in 1..Len(waiters) : waiters[i] = t
Expire(s, t) ==
    /\ Blocked(t)
    /\ \A u \in Threads : Blocked(u) \/ (Settled(u) /\ todo[u] = <<>>)
    /\ Pool(s)!Expire(t)
    /\ Goes

\* execute() on the connection that t holds.
Execute(s, t) ==
    /\ Due(t, "command") \/ Due(t, "sleep")
    /\ pc[t] = "hold"
    /\ IF Pool(s)!Usable(conn[t])
       THEN /\ Pool(s)!SendCommand(t)
            /\ passing' = (passing /\ conn[t] \notin residue)
            /\ UNCHANGED todo
       ELSE /\ passing' = (passing /\ "refused" \in Head(todo[t]).gives)
            /\ todo' = [todo EXCEPT ![t] = Tail(@)]
            /\ UNCHANGED poolVars
    /\ UNCHANGED <<case, stage, dead, borrowed>>

Answered(s, t) ==
    /\ Due(t, "command") /\ conn[t] \notin dead
    /\ Pool(s)!ReplyRead(t)
    /\ Gives(t, "reply") /\ UNCHANGED <<dead, borrowed>>

Failed(s, t) ==
    /\ Due(t, "sleep") \/ conn[t] \in dead
    /\ Pool(s)!CommandFailed(t)
    /\ Gives(t, "error") /\ UNCHANGED <<dead, borrowed>>

\* release(), of what t holds, of what it held last, and of a connection that the
\* pool has not opened.
Released(s, t) == Gives(t, IF UNCHANGED <<idle, inUse, owned>> THEN "ValueError" ELSE "released")

Release(s, t) ==
    /\ \/ Due(t, "release") /\ Pool(s)!Release(t)
       \/ \E c \in Conns :
             /\ \/ Due(t, "release again") /\ borrowed # <<>> /\ c = borrowed[Len(borrowed)]
                \/ Due(t, "release foreign") /\ sock[c] = "new"
             /\ Pool(s)!StrayRelease(t, c)
    /\ Released(s, t) /\ UNCHANGED <<dead, borrowed>>

CloseReleased(s, t) == Pool(s)!CloseReleased(t) /\ Goes

\* CLIENT KILL over the side channel, and close().
KillLast ==
    /\ Due(Main, "kill")
    /\ dead' = dead \cup {borrowed[Len(borrowed)]}
    /\ Gives(Main, "killed") /\ UNCHANGED <<poolVars, borrowed>>

Close(s) ==
    /\ Due(Main, "close")
    /\ Pool(s)!CloseStep(Main)
    /\ IF pc'[Main] = "out"
       THEN /\ Gives(Main, IF \E c \in Conns : sock[c] = "open" THEN "open" ELSE "closed")
            /\ UNCHANGED <<dead, borrowed>>
       ELSE Goes

\* The last thread arrives: the stage is over, and with the last stage the case.
Done == stage > Len(This.stages) /\ ~This.abused
Claimed ==
    CASE This.claim = "same" -> \A i, j \in 1..Len(borrowed) : borrowed[i] = borrowed[j]
      [] This.claim = "distinct" -> \A i, j \in 1..Len(borrowed) : i # j => borrowed[i] # borrowed[j]
      [] OTHER -> TRUE

NextStage ==
    /\ stage <= Len(This.stages)
    /\ \A t \in Threads : Settled(t) /\ todo[t] = <<>>
    /\ stage' = stage + 1
    /\ todo' = Todo(stage + 1)
    /\ passing' = (/\ passing
                   /\ Len(idle) + Cardinality(inUse) \in This.stages[stage].sizes
                   /\ Len(idle) \in This.stages[stage].idles
                   /\ Claimed)
    /\ UNCHANGED <<poolVars, case, dead, borrowed>>

\* Two threads that do as they like, with at most two connections.
Misuse(s, t) ==
    /\ s.abused /\ t \in {1, 2}
    /\ Pool(s)!Orderly(t) \/ Pool(s)!Disturbance(t)
    /\ conn'[t] # 3
    /\ Goes

Step(s, t) ==
    \/ StartAcquire(s, t) \/ Acquire(s, t) \/ Expire(s, t)
    \/ Execute(s, t) \/ Answered(s, t) \/ Failed(s, t)
    \/ Release(s, t) \/ CloseReleased(s, t) \/ Misuse(s, t)

Next ==
    \E s \in {This} :
        (\E t \in Workers : Step(s, t)) \/ KillLast \/ Close(s) \/ NextStage

Spec == Init /\ [][Next]_vars
FairSpec == Spec /\ WF_vars(Next)

-----------------------------------------------------------------------------
\* Every case passes on the pool, whatever its threads' schedule: no assertion
\* about a result, a size, an identity or a reply fails (pool.py 165-560).
TestsPass == passing

\* Every case ends: no thread of it is left waiting for a wakeup, a connection
\* or a barrier, which is what run_workers() reports after its timeout (pool.py
\* 124-149).
TestsFinish == ~This.abused => <>Done

\* What holds of the pool even when it is misused: threads that are interrupted
\* in any blocking call and release what they do not hold get it neither past
\* its limit, nor to list a connection twice, nor to forget an open socket.
MisuseContained ==
    \E s \in {This} : /\ Pool(s)!CapacityRespected
                      /\ Pool(s)!NeverIdleTwice
                      /\ Pool(s)!OpenSocketsTracked
=============================================================================
