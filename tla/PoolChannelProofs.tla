------------------------- MODULE PoolChannelProofs -------------------------
(***************************************************************************)
(* The pool's cases, and an application that misuses it, only take steps   *)
(* that ConnectionPool allows, so what is proved of the pool for any       *)
(* threads, limit and connections holds in the channel.                    *)
(*                                                                         *)
(* The limit of the pool is the case's, and a theorem about the pool can   *)
(* be cited of one limit only: the theorems here are about the behaviours  *)
(* of one case, whichever it is.                                           *)
(***************************************************************************)
EXTENDS PoolChannel, FiniteSetTheorems, TLAPS

CONSTANT Chosen  \* the name of the case that is run

\* The pool that it drives.
Driven == INSTANCE ConnectionPoolProofs WITH
    MaxConnections <- Script[Chosen].limit, HealthChecks <- Script[Chosen].checks,
    Interrupts <- Script[Chosen].abused, StrayReleases <- TRUE

-----------------------------------------------------------------------------
\* Every script makes a pool that ConnectionPool can be.

MakesPool(s) == s.limit \in Nat \ {0} /\ s.checks \in BOOLEAN /\ s.abused \in BOOLEAN

LEMMA CaseMakesPool ==
  ASSUME NEW limit \in {1, 2}, NEW checks \in BOOLEAN, NEW claim, NEW stages
  PROVE  MakesPool(Case(limit, checks, claim, stages))
  BY DEF Case, MakesPool

LEMMA ScriptsMakePools == \A k \in DOMAIN Script : MakesPool(Script[k])
  <1>1. MakesPool(GrowsToMax) /\ MakesPool(ReleaseValidatesProvenance) /\ MakesPool(CapacityHolds)
    BY CaseMakesPool DEF GrowsToMax, ReleaseValidatesProvenance, CapacityHolds
  <1>2. MakesPool(EvictsDeadIdle) /\ MakesPool(NoCheckByDefault) /\ MakesPool(CheckedIsHandedBack)
    BY CaseMakesPool DEF EvictsDeadIdle, NoCheckByDefault, CheckedIsHandedBack
  <1>3. MakesPool(DeathPoisons) /\ MakesPool(TimeoutPoisons) /\ MakesPool(PoisonedRefuses)
    BY CaseMakesPool DEF DeathPoisons, TimeoutPoisons, PoisonedRefuses
  <1>4. MakesPool(HoldSimultaneously) /\ MakesPool(ReceiveDistinct)
    BY CaseMakesPool DEF HoldSimultaneously, ReceiveDistinct
  <1>5. /\ MakesPool(NoCrossTalkTagged) /\ MakesPool(NoCrossTalkReused)
        /\ MakesPool(NoCrossTalkAfterTimeout) /\ MakesPool(NoCrossTalkAfterKill)
    BY CaseMakesPool
    DEF NoCrossTalkTagged, NoCrossTalkReused, NoCrossTalkAfterTimeout, NoCrossTalkAfterKill
  <1>6. MakesPool(CloseClosesAll) /\ MakesPool(AlwaysReleases) /\ MakesPool(ReleaseAfterClose)
    BY CaseMakesPool DEF CloseClosesAll, AlwaysReleases, ReleaseAfterClose
  <1>7. MakesPool(ExhaustionRaises) /\ MakesPool(ExhaustionClears)
    BY CaseMakesPool DEF ExhaustionRaises, ExhaustionClears
  <1>8. MakesPool(IdStable) /\ MakesPool(SizeStaysOne)
    BY CaseMakesPool DEF IdStable, SizeStaysOne
  <1>9. MakesPool(Abuse)
    BY DEF Abuse, MakesPool
  <1> QED
    BY <1>1, <1>2, <1>3, <1>4, <1>5, <1>6, <1>7, <1>8, <1>9 DEF Script

-----------------------------------------------------------------------------
\* The pool's steps, as the cases take them, are those of the pool that is driven.

LEMMA FiniteParameters == Driven!IsFiniteSet(Threads) /\ Driven!IsFiniteSet(Conns)
  <1>1. IsFiniteSet({Main})
    BY FS_Singleton
  <1>2. IsFiniteSet(Workers)
    <2>1. 1 \in Int /\ 3 \in Int
      OBVIOUS
    <2> QED
      BY <2>1, FS_Interval, Zenon DEF Workers
  <1>3. IsFiniteSet(Threads)
    BY <1>1, <1>2, FS_Union, Zenon DEF Threads
  <1> QED
    BY <1>3, ConnsAssumption DEF Driven!IsFiniteSet, IsFiniteSet

LEMMA SameCardinality ==
  ASSUME NEW s, NEW S
  PROVE  Pool(s)!Cardinality(S) = Driven!Cardinality(S)
  BY DEF Pool!Cardinality, Driven!Cardinality

LEMMA AcquireDriven ==
  ASSUME NEW s, s = Script[Chosen], NEW t \in Threads, Pool(s)!AcquireStep(t)
  PROVE  Driven!AcquireStep(t)
  BY SameCardinality
  DEF Pool!AcquireStep, Driven!AcquireStep, Pool!RefuseClosed, Driven!RefuseClosed,
      Pool!TakeIdle, Driven!TakeIdle, Pool!Reserve, Driven!Reserve, Pool!AtLimit,
      Driven!AtLimit, Pool!Wait, Driven!Wait, Pool!RaiseTimeout, Driven!RaiseTimeout,
      Pool!Queued, Driven!Queued, Pool!Woken, Driven!Woken, Pool!LeaveQueue, Driven!LeaveQueue,
      Pool!TimedOut, Driven!TimedOut, Pool!FindUnusable, Driven!FindUnusable, Pool!FindUsable,
      Driven!FindUsable, Pool!SendPing, Driven!SendPing, Pool!PingAnswered,
      Driven!PingAnswered, Pool!PingAnsweredWrongly, Driven!PingAnsweredWrongly,
      Pool!PingFailed, Driven!PingFailed, Pool!Discard, Driven!Discard, Pool!CloseDiscarded,
      Driven!CloseDiscarded, Pool!ConnectFailed, Driven!ConnectFailed, Pool!ConnectOk,
      Driven!ConnectOk, Pool!Install, Driven!Install, Pool!InstallRefused,
      Driven!InstallRefused, Pool!Total, Driven!Total, Pool!Goto, Driven!Goto, Pool!Leave,
      Driven!Leave, Pool!Borrow, Driven!Borrow, Pool!Notify, Driven!Notify, Pool!CloseSocket,
      Driven!CloseSocket, Pool!poolVars, Driven!poolVars, Pool!threadVars, Driven!threadVars,
      Pool!streamVars, Driven!streamVars, Pool!Connected, Driven!Connected, Pool!Usable,
      Driven!Usable

LEMMA BorrowerDriven ==
  ASSUME NEW s, s = Script[Chosen], NEW t \in Threads, Pool(s)!BorrowerStep(t)
  PROVE  Driven!BorrowerStep(t)
  BY SameCardinality
  DEF Pool!BorrowerStep, Driven!BorrowerStep, Pool!SendCommand, Driven!SendCommand,
      Pool!ReplyRead, Driven!ReplyRead, Pool!CommandFailed, Driven!CommandFailed,
      Pool!SweepPoisons, Driven!SweepPoisons, Pool!Release, Driven!Release,
      Pool!ReleaseSection, Driven!ReleaseSection, Pool!ReleaseRejected, Driven!ReleaseRejected,
      Pool!ReleaseDiscards, Driven!ReleaseDiscards, Pool!ReleaseKeeps, Driven!ReleaseKeeps,
      Pool!CloseReleased, Driven!CloseReleased, Pool!Goto, Driven!Goto, Pool!Leave,
      Driven!Leave, Pool!Borrow, Driven!Borrow, Pool!Notify, Driven!Notify, Pool!CloseSocket,
      Driven!CloseSocket, Pool!poolVars, Driven!poolVars, Pool!threadVars, Driven!threadVars,
      Pool!streamVars, Driven!streamVars, Pool!Connected, Driven!Connected, Pool!Usable,
      Driven!Usable

LEMMA CloseDriven ==
  ASSUME NEW s, s = Script[Chosen], NEW t \in Threads, Pool(s)!CloseStep(t)
  PROVE  Driven!CloseStep(t)
  BY SameCardinality
  DEF Pool!CloseStep, Driven!CloseStep, Pool!Close, Driven!Close, Pool!CloseOne,
      Driven!CloseOne, Pool!CloseDone, Driven!CloseDone, Pool!IdleSet, Driven!IdleSet,
      Pool!Goto, Driven!Goto, Pool!Leave, Driven!Leave, Pool!Borrow, Driven!Borrow,
      Pool!Notify, Driven!Notify, Pool!CloseSocket, Driven!CloseSocket, Pool!poolVars,
      Driven!poolVars, Pool!threadVars, Driven!threadVars, Pool!streamVars, Driven!streamVars,
      Pool!Connected, Driven!Connected, Pool!Usable, Driven!Usable

LEMMA DisturbanceDriven ==
  ASSUME NEW s, s = Script[Chosen], NEW t \in Threads, Pool(s)!Disturbance(t)
  PROVE  Driven!Disturbance(t)
  BY SameCardinality
  DEF Pool!Disturbance, Driven!Disturbance, Pool!InterruptCommand, Driven!InterruptCommand,
      Pool!InterruptCheck, Driven!InterruptCheck, Pool!InterruptWait, Driven!InterruptWait,
      Pool!LeaveQueue, Driven!LeaveQueue, Pool!Queued, Driven!Queued, Pool!StrayRelease,
      Driven!StrayRelease, Pool!ReleaseSection, Driven!ReleaseSection, Pool!ReleaseRejected,
      Driven!ReleaseRejected, Pool!ReleaseDiscards, Driven!ReleaseDiscards, Pool!ReleaseKeeps,
      Driven!ReleaseKeeps, Pool!Goto, Driven!Goto, Pool!Leave, Driven!Leave, Pool!Borrow,
      Driven!Borrow, Pool!Notify, Driven!Notify, Pool!CloseSocket, Driven!CloseSocket,
      Pool!poolVars, Driven!poolVars, Pool!threadVars, Driven!threadVars, Pool!streamVars,
      Driven!streamVars, Pool!Connected, Driven!Connected, Pool!Usable, Driven!Usable

LEMMA DeadlineDriven ==
  ASSUME NEW s, s = Script[Chosen], NEW t \in Threads, Pool(s)!Expire(t)
  PROVE  Driven!Expire(t)
  BY SameCardinality
  DEF Pool!Expire, Driven!Expire, Pool!Goto, Driven!Goto, Pool!Leave, Driven!Leave,
      Pool!Borrow, Driven!Borrow, Pool!Notify, Driven!Notify, Pool!CloseSocket,
      Driven!CloseSocket, Pool!poolVars, Driven!poolVars, Pool!threadVars, Driven!threadVars,
      Pool!streamVars, Driven!streamVars, Pool!Connected, Driven!Connected, Pool!Usable,
      Driven!Usable

LEMMA OrderlyDriven ==
  ASSUME NEW s, s = Script[Chosen], NEW t \in Threads, Pool(s)!Orderly(t)
  PROVE  Driven!Orderly(t)
  <1>1. CASE Pool(s)!Call(t)
    BY <1>1 DEF Pool!Call, Driven!Call, Driven!Orderly, Pool!Goto, Driven!Goto, Pool!poolVars,
                Driven!poolVars, Pool!streamVars, Driven!streamVars
  <1> QED
    BY <1>1, DeadlineDriven, AcquireDriven, BorrowerDriven, CloseDriven
    DEF Pool!Orderly, Driven!Orderly

-----------------------------------------------------------------------------
\* Every step of a case is one of the pool or leaves the pool alone.

LEMMA StepDriven ==
  ASSUME case = Chosen, [Next]_vars
  PROVE  [Driven!Next]_(Driven!vars) /\ case' = Chosen
  <1> DEFINE s == Script[Chosen]
  <1> HIDE DEF s
  <1>0. UNCHANGED poolVars => UNCHANGED Driven!vars
    BY DEF poolVars, Driven!vars, Driven!poolVars, Driven!threadVars, Driven!streamVars
  <1>1. s = Script[Chosen] /\ This = s
    BY DEF This, s
  <1>2. ASSUME NEW t \in Workers, Step(s, t)
        PROVE  (Driven!Next \/ UNCHANGED poolVars) /\ case' = case
    <2>1. t \in Threads
      BY DEF Threads
    <2>2. CASE StartAcquire(s, t)
      <3>1. Driven!Orderly(t)
        BY <1>1, <2>1, <2>2, OrderlyDriven DEF StartAcquire, Pool!Orderly
      <3> QED
        BY <2>1, <2>2, <3>1 DEF Driven!Next, StartAcquire, Goes, caseVars
    <2>3. CASE Acquire(s, t)
      <3>1. Driven!Orderly(t) /\ case' = case
        BY <1>1, <2>1, <2>3, OrderlyDriven DEF Acquire, Gives, Pool!Orderly
      <3> QED
        BY <2>1, <3>1 DEF Driven!Next
    <2>4. CASE Expire(s, t)
      <3>1. Driven!Orderly(t)
        BY <1>1, <2>1, <2>4, OrderlyDriven DEF Expire, Pool!Orderly
      <3> QED
        BY <2>1, <2>4, <3>1 DEF Driven!Next, Expire, Goes, caseVars
    <2>5. CASE Execute(s, t) \/ Answered(s, t) \/ Failed(s, t)
      <3>1. (Driven!Orderly(t) \/ UNCHANGED poolVars) /\ case' = case
        BY <1>1, <2>1, <2>5, OrderlyDriven
        DEF Execute, Answered, Failed, Gives, Pool!Orderly, Pool!BorrowerStep
      <3> QED
        BY <2>1, <3>1 DEF Driven!Next
    <2>6. CASE Release(s, t)
      <3>1. CASE Pool(s)!Release(t)
        <4>1. Pool(s)!Orderly(t)
          BY <3>1 DEF Pool!Orderly, Pool!BorrowerStep
        <4>2. Driven!Next
          BY <1>1, <2>1, <4>1, OrderlyDriven DEF Driven!Next
        <4> QED
          BY <2>6, <4>2 DEF Release, Released, Gives
      <3>2. ASSUME NEW c \in Conns, Pool(s)!StrayRelease(t, c)
            PROVE  Driven!Next
        BY <1>1, <2>1, <3>2, DisturbanceDriven DEF Pool!Disturbance, Driven!Next
      <3> QED
        BY <2>6, <3>1, <3>2 DEF Release, Released, Gives
    <2>7. CASE CloseReleased(s, t)
      <3>1. Driven!Orderly(t)
        BY <1>1, <2>1, <2>7, OrderlyDriven DEF CloseReleased, Pool!Orderly, Pool!BorrowerStep
      <3> QED
        BY <2>1, <2>7, <3>1 DEF Driven!Next, CloseReleased, Goes, caseVars
    <2>8. CASE Misuse(s, t)
      <3>1. Driven!Orderly(t) \/ Driven!Disturbance(t)
        BY <1>1, <2>1, <2>8, OrderlyDriven, DisturbanceDriven DEF Misuse
      <3> QED
        BY <2>1, <2>8, <3>1 DEF Driven!Next, Misuse, Goes, caseVars
    <2> QED
      BY <1>2, <2>2, <2>3, <2>4, <2>5, <2>6, <2>7, <2>8 DEF Step
  <1>3. CASE Close(s)
    <2>1. Main \in Threads /\ Pool(s)!Orderly(Main)
      BY <1>3 DEF Close, Threads, Pool!Orderly
    <2>2. Driven!Next
      BY <1>1, <2>1, OrderlyDriven DEF Driven!Next
    <2> QED
      BY <1>3, <2>2 DEF Close, Gives, Goes, caseVars
  <1>4. CASE KillLast \/ NextStage
    BY <1>0, <1>4 DEF KillLast, NextStage, Gives
  <1>5. CASE UNCHANGED vars
    BY <1>0, <1>5 DEF vars, caseVars
  <1> QED
    BY <1>0, <1>1, <1>2, <1>3, <1>4, <1>5 DEF Next

LEMMA InitDriven == Init /\ case = Chosen => Driven!Init
  BY DEF Init, This, Pool!Init, Driven!Init

\* The cases implement the pool's specification: no step that a case of the channel takes,
\* with whatever schedule of its threads, is one that ConnectionPool does not have
\* (channels/pool.py run_workers, pool.py).
THEOREM CasesDriveThePool == Spec /\ case = Chosen => Driven!Spec
  <1>1. case = Chosen /\ [Next]_vars => [Driven!Next]_(Driven!vars) /\ (case = Chosen)'
    BY StepDriven
  <1> QED
    BY <1>1, InitDriven, PTL DEF Spec, Driven!Spec

\* What holds of the pool when it is misused (pool.py 93-96, 178-181), for any number of
\* connections: it keeps to its limit, lists no connection twice and forgets no open socket,
\* whatever threads release and wherever an interrupt hits.
THEOREM MisuseCorrect ==
  ASSUME Chosen \in Cases
  PROVE  Spec /\ case = Chosen => []MisuseContained
  <1>1. MakesPool(Script[Chosen])
    BY ScriptsMakePools, CasesAssumption
  <1>2. Driven!IsFiniteSet(Threads) /\ Driven!IsFiniteSet(Conns)
    BY FiniteParameters
  <1>3. /\ Driven!Spec => []Driven!CapacityRespected
        /\ Driven!Spec => []Driven!NeverIdleTwice
        /\ Driven!Spec => []Driven!OpenSocketsTracked
    BY <1>1, <1>2, ConnsAssumption, Driven!CapacityCorrect, Driven!IdleOnce,
       Driven!SocketsTracked
    DEF MakesPool
  <1>4. /\ case = Chosen
        /\ Driven!CapacityRespected /\ Driven!NeverIdleTwice /\ Driven!OpenSocketsTracked
        => MisuseContained
    BY SameCardinality
    DEF MisuseContained, This, Pool!CapacityRespected, Pool!NeverIdleTwice,
        Pool!OpenSocketsTracked, Driven!CapacityRespected, Driven!NeverIdleTwice,
        Driven!OpenSocketsTracked, Pool!Total, Driven!Total, Pool!IdleSet, Driven!IdleSet,
        Pool!Connected, Driven!Connected, Pool!Holding, Driven!Holding, Pool!Lent, Driven!Lent
  <1>5. case = Chosen /\ [Next]_vars => (case = Chosen)'
    BY StepDriven
  <1> QED
    BY <1>3, <1>4, <1>5, CasesDriveThePool, PTL DEF Spec

\* No wakeup is lost in a case whose threads are not interrupted: while threads wait, every
\* slot or idle connection is matched by a thread on its way to take it, which is why a case
\* comes to its end (channels/pool.py 124-149).
THEOREM CasesLoseNoWakeup ==
  ASSUME Chosen \in Cases, ~Script[Chosen].abused
  PROVE  Spec /\ case = Chosen => []Driven!NoLostWakeup
  <1>1. MakesPool(Script[Chosen])
    BY ScriptsMakePools, CasesAssumption
  <1>2. Driven!IsFiniteSet(Threads) /\ Driven!IsFiniteSet(Conns)
    BY FiniteParameters
  <1>3. Driven!Spec => []Driven!NoLostWakeup
    BY <1>1, <1>2, ConnsAssumption, Driven!WakeupsKept DEF MakesPool
  <1> QED
    BY <1>3, CasesDriveThePool, PTL
=============================================================================
