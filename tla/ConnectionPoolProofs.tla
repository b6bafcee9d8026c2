------------------------ MODULE ConnectionPoolProofs ------------------------
(***************************************************************************)
(* Theorems about ConnectionPool, for any number of threads, connections   *)
(* and slots, with or without health checks and interrupts.                *)
(***************************************************************************)
EXTENDS ConnectionPool, FiniteSetTheorems, SequenceTheorems, TLAPS

AllVars == <<idle, inUse, owned, reserved, closed, waiters, pc, conn, expired,
             doomed, sock, poisoned, residue>>

LEMMA VarsUnchanged == UNCHANGED vars => UNCHANGED AllVars
  BY DEF vars, AllVars, poolVars, threadVars, streamVars

-----------------------------------------------------------------------------
\* The condition's deque stays a sequence of threads.

LEMMA NotifyType ==
  ASSUME waiters \in Seq(Threads), Notify
  PROVE  waiters' \in Seq(Threads)
  BY DEF Notify

LEMMA LeaveQueueType ==
  ASSUME waiters \in Seq(Threads), NEW t, LeaveQueue(t)
  PROVE  waiters' \in Seq(Threads)
  <1>1. PICK i \in 1..Len(waiters) :
             waiters' = SubSeq(waiters, 1, i - 1)
                          \o SubSeq(waiters, i + 1, Len(waiters))
    BY DEF LeaveQueue
  <1>2. Len(waiters) \in Nat
    BY LenProperties
  <1>3. SubSeq(waiters, 1, i - 1) \in Seq(Threads)
    BY <1>2, SubSeqProperties
  <1>4. SubSeq(waiters, i + 1, Len(waiters)) \in Seq(Threads)
    BY <1>2, SubSeqProperties
  <1> QED
    BY <1>1, <1>3, <1>4, ConcatProperties

-----------------------------------------------------------------------------
\* Type correctness.  _reserved stays a natural number because every thread
\* that decrements it is one of those it counts, so the two are proved together.

LEMMA OpeningFinite ==
  IsFiniteSet(Opening) /\ Cardinality(Opening) \in Nat
  <1>1. Opening \in SUBSET Threads
    BY DEF Opening
  <1> QED
    BY <1>1, ThreadsAssumption, FS_Subset, FS_CardinalityType

\* A thread that starts opening a connection raises the count by one.
LEMMA StartOpening ==
  ASSUME TypeOK, ReservedExact, NEW t \in Threads, pc[t] = "acquire",
         pc' = [pc EXCEPT ![t] = "opening"], reserved' = reserved + 1
  PROVE  ReservedExact'
  <1>1. Opening' = Opening \cup {t}
    BY DEF Opening, TypeOK
  <1>2. t \notin Opening
    BY DEF Opening
  <1> QED
    BY <1>1, <1>2, OpeningFinite, FS_AddElement DEF ReservedExact

\* A thread that stops opening one lowers it by one, which was not zero.
LEMMA StopOpening ==
  ASSUME TypeOK, ReservedExact, NEW t \in Threads, pc[t] \in {"opening", "opened"},
         NEW l \in Labels \ {"opening", "opened"},
         pc' = [pc EXCEPT ![t] = l], reserved' = reserved - 1
  PROVE  ReservedExact' /\ reserved' \in Nat
  <1>1. Opening' = Opening \ {t}
    BY DEF Opening, TypeOK
  <1>2. t \in Opening
    BY DEF Opening
  <1>3. Cardinality(Opening') = Cardinality(Opening) - 1
    BY <1>1, <1>2, OpeningFinite, FS_RemoveElement
  <1>4. Cardinality(Opening') \in Nat
    BY <1>1, OpeningFinite, FS_RemoveElement, FS_CardinalityType
  <1> QED
    BY <1>3, <1>4 DEF ReservedExact

\* Any other step changes neither.
LEMMA SameOpening ==
  ASSUME TypeOK, ReservedExact, NEW t \in Threads, NEW l \in Labels,
         pc[t] \in {"opening", "opened"} <=> l \in {"opening", "opened"},
         pc' = [pc EXCEPT ![t] = l], UNCHANGED reserved
  PROVE  ReservedExact'
  <1>1. Opening' = Opening
    BY DEF Opening, TypeOK
  <1> QED
    BY <1>1 DEF ReservedExact

\* What the three kinds of moves do to the threads' variables.
LEMMA LeaveType ==
  ASSUME TypeOK, NEW t \in Threads, Leave(t)
  PROVE  /\ pc' \in [Threads -> Labels]
         /\ conn' \in [Threads -> Conns \cup {NoConn}]
         /\ expired' \subseteq Threads
         /\ doomed' \in [Threads -> SUBSET Conns]
  BY DEF Leave, Goto, Labels, TypeOK

\* A thread that may touch a connection has one.
HandsFull == \A t \in Threads : pc[t] \in Holding => conn[t] \in Conns

TypeInv == TypeOK /\ HandsFull /\ ReservedExact

\* Steps of one thread that leave the pool's collections and the deque alone:
\* a move to another label, with or without an effect on the stream.
LEMMA MoveType ==
  ASSUME TypeInv, NEW t \in Threads, NEW l \in Labels,
         UNCHANGED <<poolVars, waiters, conn, doomed, sock>>,
         pc' = [pc EXCEPT ![t] = l],
         pc[t] \in {"opening", "opened"} <=> l \in {"opening", "opened"},
         l \in Holding => pc[t] \in Holding,
         expired' \subseteq Threads, poisoned' \subseteq Conns,
         residue' \subseteq Conns
  PROVE  TypeInv'
  <1>1. ReservedExact'
    BY SameOpening DEF TypeInv, poolVars
  <1>2. TypeOK'
    BY DEF TypeInv, TypeOK, poolVars
  <1>3. HandsFull'
    BY DEF TypeInv, HandsFull, TypeOK
  <1> QED
    BY <1>1, <1>2, <1>3 DEF TypeInv

\* Steps that end with the thread out of the pool's methods.
LEMMA LeaveStepType ==
  ASSUME TypeInv, NEW t \in Threads, Leave(t),
         pc[t] \notin {"opening", "opened"},
         reserved' = reserved,
         idle' \in Seq(Conns), inUse' \subseteq Conns, owned' \subseteq Conns,
         closed' \in BOOLEAN, waiters' \in Seq(Threads),
         sock' \in [Conns -> {"new", "open", "closed"}],
         poisoned' \subseteq Conns, residue' \subseteq Conns
  PROVE  TypeInv'
  <1>1. ReservedExact'
    BY SameOpening DEF TypeInv, Leave, Goto, Labels
  <1>2. TypeOK'
    BY LeaveType DEF TypeInv, TypeOK
  <1>3. HandsFull'
    BY DEF TypeInv, HandsFull, TypeOK, Leave, Goto, Holding, Lent
  <1> QED
    BY <1>1, <1>2, <1>3 DEF TypeInv

LEMMA MovesType ==
  ASSUME TypeInv, NEW t \in Threads,
         \/ Call(t)
         \/ FindUnusable(t)
         \/ FindUsable(t)
         \/ SendPing(t)
         \/ PingAnswered(t)
         \/ PingAnsweredWrongly(t)
         \/ PingFailed(t)
         \/ SendCommand(t)
         \/ ReplyRead(t)
         \/ CommandFailed(t)
         \/ InterruptCommand(t)
         \/ Woken(t)
  PROVE  TypeInv'
  <1> USE DEF Goto, Borrow, Labels, Holding, Lent, poolVars
  <1>1. pc[t] \in Holding => conn[t] \in Conns
    BY DEF TypeInv, HandsFull
  <1>2. expired \subseteq Threads /\ poisoned \subseteq Conns /\ residue \subseteq Conns
    BY DEF TypeInv, TypeOK
  <1>3. CASE Call(t)
    BY <1>3, <1>1, <1>2, MoveType DEF Call, streamVars
  <1>4. CASE FindUnusable(t)
    BY <1>4, <1>1, <1>2, MoveType DEF FindUnusable, streamVars
  <1>5. CASE FindUsable(t)
    BY <1>5, <1>1, <1>2, MoveType DEF FindUsable, streamVars
  <1>6. CASE SendPing(t)
    BY <1>6, <1>1, <1>2, MoveType DEF SendPing, streamVars
  <1>7. CASE PingAnswered(t)
    BY <1>7, <1>1, <1>2, MoveType DEF PingAnswered, streamVars
  <1>8. CASE PingAnsweredWrongly(t)
    BY <1>8, <1>1, <1>2, MoveType DEF PingAnsweredWrongly, streamVars
  <1>9. CASE PingFailed(t)
    BY <1>9, <1>1, <1>2, MoveType DEF PingFailed, streamVars
  <1>10. CASE SendCommand(t)
    BY <1>10, <1>1, <1>2, MoveType DEF SendCommand, streamVars
  <1>11. CASE ReplyRead(t)
    BY <1>11, <1>1, <1>2, MoveType DEF ReplyRead, streamVars
  <1>12. CASE CommandFailed(t)
    BY <1>12, <1>1, <1>2, MoveType DEF CommandFailed, streamVars
  <1>13. CASE InterruptCommand(t)
    BY <1>13, <1>1, <1>2, MoveType DEF InterruptCommand, streamVars
  <1>14. CASE Woken(t)
    BY <1>14, <1>1, <1>2, MoveType DEF Woken, streamVars
  <1> QED
    BY <1>3, <1>4, <1>5, <1>6, <1>7, <1>8, <1>9, <1>10, <1>11, <1>12, <1>13, <1>14

LEMMA IdleHead ==
  ASSUME idle \in Seq(Conns), idle # <<>>
  PROVE  Head(idle) \in Conns /\ Tail(idle) \in Seq(Conns)
  BY HeadTailProperties

LEMMA LeavesType ==
  ASSUME TypeInv, NEW t \in Threads,
         \/ RefuseClosed(t) \/ RaiseTimeout(t) \/ InterruptCheck(t)
         \/ InterruptWait(t) \/ CloseDone(t) \/ CloseReleased(t)
  PROVE  TypeInv'
  <1> USE DEF poolVars, streamVars
  <1>1. /\ idle \in Seq(Conns) /\ inUse \subseteq Conns /\ owned \subseteq Conns
        /\ closed \in BOOLEAN /\ waiters \in Seq(Threads)
        /\ sock \in [Conns -> {"new", "open", "closed"}]
        /\ poisoned \subseteq Conns /\ residue \subseteq Conns
    BY DEF TypeInv, TypeOK
  <1>2. CASE RefuseClosed(t)
    BY <1>1, <1>2, LeaveStepType DEF RefuseClosed
  <1>3. CASE RaiseTimeout(t)
    BY <1>1, <1>3, LeaveStepType DEF RaiseTimeout
  <1>4. CASE InterruptCheck(t)
    BY <1>1, <1>4, LeaveStepType DEF InterruptCheck
  <1>5. CASE InterruptWait(t)
    <2>1. waiters' \in Seq(Threads)
      BY <1>1, <1>5, LeaveQueueType DEF InterruptWait
    <2> QED
      BY <1>1, <1>5, <2>1, LeaveStepType DEF InterruptWait
  <1>6. CASE CloseDone(t)
    BY <1>1, <1>6, LeaveStepType DEF CloseDone
  <1>7. CASE CloseReleased(t)
    BY <1>1, <1>7, LeaveStepType DEF CloseReleased, CloseSocket
  <1> QED
    BY <1>2, <1>3, <1>4, <1>5, <1>6, <1>7

\* release() and close(), whatever branch they take.
LEMMA ReleaseType ==
  ASSUME TypeInv, NEW t \in Threads, NEW c \in Conns,
         pc[t] \in {"out", "hold", "unwind"}, ReleaseSection(t, c)
  PROVE  TypeInv'
  <1> USE DEF poolVars, streamVars
  <1>1. /\ idle \in Seq(Conns) /\ inUse \subseteq Conns /\ owned \subseteq Conns
        /\ closed \in BOOLEAN /\ waiters \in Seq(Threads)
        /\ sock \in [Conns -> {"new", "open", "closed"}]
        /\ poisoned \subseteq Conns /\ residue \subseteq Conns
    BY DEF TypeInv, TypeOK
  <1>2. UNCHANGED streamVars
    BY DEF ReleaseSection
  <1>3. CASE ReleaseRejected(t, c)
    BY <1>1, <1>2, <1>3, LeaveStepType DEF ReleaseRejected
  <1>4. CASE ReleaseKeeps(t, c)
    <2>1. waiters' \in Seq(Threads)
      BY <1>1, <1>4, NotifyType DEF ReleaseKeeps
    <2>2. idle' \in Seq(Conns)
      BY <1>1, <1>4, AppendProperties DEF ReleaseKeeps
    <2> QED
      BY <1>1, <1>2, <1>4, <2>1, <2>2, LeaveStepType DEF ReleaseKeeps
  <1>5. CASE ReleaseDiscards(t, c)
    <2>1. waiters' \in Seq(Threads)
      BY <1>1, <1>5, NotifyType DEF ReleaseDiscards
    <2>2. pc' = [pc EXCEPT ![t] = "released"] /\ reserved' = reserved
      BY <1>5 DEF ReleaseDiscards, Goto
    <2>3. ReservedExact'
      BY <2>2, SameOpening DEF TypeInv, Labels
    <2>4. TypeOK'
      BY <1>1, <1>2, <1>5, <2>1, <2>2
      DEF ReleaseDiscards, TypeInv, TypeOK, Labels
    <2>5. HandsFull'
      BY <1>5, <2>2 DEF ReleaseDiscards, TypeInv, TypeOK, HandsFull
    <2> QED
      BY <2>3, <2>4, <2>5 DEF TypeInv
  <1> QED
    BY <1>3, <1>4, <1>5 DEF ReleaseSection

\* The remaining steps, one action at a time.
LEMMA OthersType ==
  ASSUME TypeInv, NEW t \in Threads,
         \/ TakeIdle(t) \/ Reserve(t) \/ Wait(t) \/ TimedOut(t) \/ Expire(t)
         \/ Discard(t) \/ CloseDiscarded(t)
         \/ \E c \in Conns : ConnectOk(t, c) \/ SweepPoisons(t, c) \/ CloseOne(t, c)
         \/ ConnectFailed(t) \/ Install(t) \/ InstallRefused(t) \/ Close(t)
  PROVE  TypeInv'
  <1> USE DEF poolVars, streamVars, threadVars, Goto
  <1>1. TypeOK /\ HandsFull /\ ReservedExact
    BY DEF TypeInv
  <1>2. pc[t] \in Holding => conn[t] \in Conns
    BY <1>1 DEF HandsFull
  <1> HIDE DEF TypeInv
  <1>3. CASE TakeIdle(t)
    <2>1. Head(idle) \in Conns /\ Tail(idle) \in Seq(Conns)
      BY <1>1, <1>3, IdleHead DEF TakeIdle, TypeOK
    <2>2. ReservedExact'
      BY <1>1, <1>3, SameOpening DEF TakeIdle, Labels
    <2>3. TypeOK'
      BY <1>1, <1>3, <2>1 DEF TakeIdle, TypeOK, Labels
    <2>4. HandsFull'
      BY <1>1, <1>3, <2>1 DEF TakeIdle, TypeOK, HandsFull
    <2> QED
      BY <2>2, <2>3, <2>4 DEF TypeInv
  <1>4. CASE Reserve(t)
    <2>1. ReservedExact'
      BY <1>1, <1>4, StartOpening DEF Reserve
    <2>2. TypeOK'
      BY <1>1, <1>4 DEF Reserve, TypeOK, Labels
    <2>3. HandsFull'
      BY <1>1, <1>4 DEF Reserve, TypeOK, HandsFull, Holding, Lent
    <2> QED
      BY <2>1, <2>2, <2>3 DEF TypeInv
  <1>5. CASE Wait(t)
    <2>1. waiters' \in Seq(Threads)
      BY <1>1, <1>5, AppendProperties DEF Wait, TypeOK
    <2>2. ReservedExact'
      BY <1>1, <1>5, SameOpening DEF Wait, Labels
    <2>3. TypeOK'
      BY <1>1, <1>5, <2>1 DEF Wait, TypeOK, Labels
    <2>4. HandsFull'
      BY <1>1, <1>5 DEF Wait, TypeOK, HandsFull, Holding, Lent
    <2> QED
      BY <2>2, <2>3, <2>4 DEF TypeInv
  <1>6. CASE TimedOut(t)
    <2>1. waiters' \in Seq(Threads)
      BY <1>1, <1>6, LeaveQueueType DEF TimedOut, TypeOK
    <2>2. ReservedExact'
      BY <1>1, <1>6, SameOpening DEF TimedOut, Labels
    <2>3. TypeOK'
      BY <1>1, <1>6, <2>1 DEF TimedOut, TypeOK, Labels
    <2>4. HandsFull'
      BY <1>1, <1>6 DEF TimedOut, TypeOK, HandsFull, Holding, Lent
    <2> QED
      BY <2>2, <2>3, <2>4 DEF TypeInv
  <1>7. CASE Expire(t)
    BY <1>1, <1>7 DEF Expire, TypeInv, TypeOK, HandsFull, ReservedExact, Opening
  <1>8. CASE Discard(t)
    <2>1. waiters' \in Seq(Threads)
      BY <1>1, <1>8, NotifyType DEF Discard, TypeOK
    <2>2. ReservedExact'
      BY <1>1, <1>8, SameOpening DEF Discard, Labels
    <2>3. TypeOK'
      BY <1>1, <1>8, <2>1 DEF Discard, TypeOK, Labels
    <2>4. HandsFull'
      BY <1>1, <1>8 DEF Discard, TypeOK, HandsFull, Holding, Lent
    <2> QED
      BY <2>2, <2>3, <2>4 DEF TypeInv
  <1>9. CASE CloseDiscarded(t)
    <2>1. ReservedExact'
      BY <1>1, <1>9, SameOpening DEF CloseDiscarded, Labels
    <2>2. TypeOK'
      BY <1>1, <1>9 DEF CloseDiscarded, CloseSocket, TypeOK, Labels
    <2>3. HandsFull'
      BY <1>1, <1>9 DEF CloseDiscarded, TypeOK, HandsFull, Holding, Lent
    <2> QED
      BY <2>1, <2>2, <2>3 DEF TypeInv
  <1>10. ASSUME NEW c \in Conns, ConnectOk(t, c) PROVE TypeInv'
    <2>1. ReservedExact'
      BY <1>1, <1>10, SameOpening DEF ConnectOk, Labels
    <2>2. TypeOK'
      BY <1>1, <1>10 DEF ConnectOk, TypeOK, Labels
    <2>3. HandsFull'
      BY <1>1, <1>10 DEF ConnectOk, TypeOK, HandsFull
    <2> QED
      BY <2>1, <2>2, <2>3 DEF TypeInv
  <1>11. ASSUME NEW c \in Conns, SweepPoisons(t, c) PROVE TypeInv'
    BY <1>1, <1>11 DEF SweepPoisons, TypeInv, TypeOK, HandsFull, ReservedExact,
          Opening
  <1>12. ASSUME NEW c \in Conns, CloseOne(t, c) PROVE TypeInv'
    BY <1>1, <1>12
    DEF CloseOne, CloseSocket, TypeInv, TypeOK, HandsFull, ReservedExact, Opening
  <1>13. CASE ConnectFailed(t)
    <2>1. waiters' \in Seq(Threads)
      BY <1>1, <1>13, NotifyType DEF ConnectFailed, TypeOK
    <2>2. ReservedExact' /\ reserved' \in Nat
      BY <1>1, <1>13, StopOpening DEF ConnectFailed, Leave, Labels
    <2>3. TypeOK'
      BY <1>1, <1>13, <2>1, <2>2, LeaveType DEF ConnectFailed, TypeOK
    <2>4. HandsFull'
      BY <1>1, <1>13 DEF ConnectFailed, Leave, TypeOK, HandsFull, Holding, Lent
    <2> QED
      BY <2>2, <2>3, <2>4 DEF TypeInv
  <1>14. CASE Install(t)
    <2>1. conn[t] \in Conns
      BY <1>2, <1>14 DEF Install, Holding
    <2>2. ReservedExact' /\ reserved' \in Nat
      BY <1>1, <1>14, StopOpening DEF Install, Borrow, Labels
    <2>3. TypeOK'
      BY <1>1, <1>14, <2>1, <2>2 DEF Install, Borrow, TypeOK, Labels
    <2>4. HandsFull'
      BY <1>1, <1>14, <2>1 DEF Install, Borrow, TypeOK, HandsFull
    <2> QED
      BY <2>2, <2>3, <2>4 DEF TypeInv
  <1>15. CASE InstallRefused(t)
    <2>1. waiters' \in Seq(Threads)
      BY <1>1, <1>15, NotifyType DEF InstallRefused, TypeOK
    <2>2. ReservedExact' /\ reserved' \in Nat
      BY <1>1, <1>15, StopOpening DEF InstallRefused, Leave, Labels
    <2>3. TypeOK'
      BY <1>1, <1>15, <2>1, <2>2, LeaveType DEF InstallRefused, CloseSocket, TypeOK
    <2>4. HandsFull'
      BY <1>1, <1>15 DEF InstallRefused, Leave, TypeOK, HandsFull, Holding, Lent
    <2> QED
      BY <2>2, <2>3, <2>4 DEF TypeInv
  <1>16. CASE Close(t)
    <2>1. IdleSet \subseteq Conns
      BY <1>1, LenProperties DEF IdleSet, TypeOK
    <2>2. ReservedExact'
      BY <1>1, <1>16, SameOpening DEF Close, Labels
    <2>3. TypeOK'
      BY <1>1, <1>16, <2>1 DEF Close, TypeOK, Labels
    <2>4. HandsFull'
      BY <1>1, <1>16 DEF Close, TypeOK, HandsFull, Holding, Lent
    <2> QED
      BY <2>2, <2>3, <2>4 DEF TypeInv
  <1> QED
    BY <1>3, <1>4, <1>5, <1>6, <1>7, <1>8, <1>9, <1>10, <1>11, <1>12, <1>13,
       <1>14, <1>15, <1>16

LEMMA InitTypeInv == Init => TypeInv
  <1>1. Init => Opening = {}
    BY DEF Init, Opening
  <1>2. Init => ReservedExact
    BY <1>1, FS_EmptySet DEF Init, ReservedExact
  <1>3. <<>> \in Seq(Conns) /\ <<>> \in Seq(Threads)
    BY EmptySeq
  <1>4. Init => TypeOK
    <2> SUFFICES ASSUME Init PROVE TypeOK
      OBVIOUS
    <2>1. idle \in Seq(Conns) /\ waiters \in Seq(Threads)
      BY <1>3 DEF Init
    <2>2. pc \in [Threads -> Labels] /\ conn \in [Threads -> Conns \cup {NoConn}]
      BY DEF Init, Labels
    <2>3. doomed \in [Threads -> SUBSET Conns]
      BY DEF Init
    <2>4. sock \in [Conns -> {"new", "open", "closed"}]
      BY DEF Init
    <2> QED
      BY <2>1, <2>2, <2>3, <2>4 DEF Init, TypeOK
  <1>5. Init => HandsFull
    BY DEF Init, HandsFull, Holding, Lent
  <1> QED
    BY <1>2, <1>4, <1>5 DEF TypeInv

LEMMA NextTypeInv == TypeInv /\ [Next]_vars => TypeInv'
  <1> SUFFICES ASSUME TypeInv, [Next]_vars PROVE TypeInv'
    OBVIOUS
  <1>1. CASE UNCHANGED vars
    <2>1. UNCHANGED AllVars
      BY <1>1, VarsUnchanged
    <2> QED
      BY <2>1 DEF AllVars, TypeInv, TypeOK, HandsFull, ReservedExact, Opening
  <1>2. ASSUME NEW t \in Threads, Release(t) PROVE TypeInv'
    BY <1>2, ReleaseType DEF Release, TypeInv, HandsFull, Holding, Lent
  <1>3. ASSUME NEW t \in Threads, NEW c \in Conns, StrayRelease(t, c) PROVE TypeInv'
    BY <1>3, ReleaseType DEF StrayRelease
  <1> QED
    BY <1>1, <1>2, <1>3, MovesType, LeavesType, OthersType
    DEF Next, Orderly, AcquireStep, BorrowerStep, CloseStep, Disturbance

LEMMA TypeInvariant == Spec => []TypeInv
  BY InitTypeInv, NextTypeInv, PTL DEF Spec

\* Every variable always has its type; in particular _reserved never becomes
\* negative, whichever way an opening ends.
THEOREM TypeCorrect == Spec => []TypeOK
  BY TypeInvariant, PTL DEF TypeInv

\* _reserved counts exactly the threads that are opening a connection: no path
\* out of _open_reserved() leaks a slot or gives one back twice.
THEOREM ReservationsCorrect == Spec => []ReservedExact
  BY TypeInvariant, PTL DEF TypeInv

-----------------------------------------------------------------------------
\* The limit on connections.

LEMMA InUseFinite ==
  ASSUME TypeOK
  PROVE  IsFiniteSet(inUse) /\ Cardinality(inUse) \in Nat
  <1>1. inUse \in SUBSET Conns
    BY DEF TypeOK
  <1> QED
    BY <1>1, ConnsAssumption, FS_Subset, FS_CardinalityType

\* Shrinking _in_use and _reserved, with the idle ones as they are or gone.
LEMMA ShrinkCapacity ==
  ASSUME TypeInv, TypeInv', CapacityRespected,
         idle' = idle \/ idle' = <<>>, inUse' \subseteq inUse, reserved' <= reserved
  PROVE  CapacityRespected'
  <1>1. Cardinality(inUse') <= Cardinality(inUse)
    <2>1. inUse' \in SUBSET inUse
      OBVIOUS
    <2> QED
      BY <2>1, InUseFinite, FS_Subset DEF TypeInv
  <1>2. Cardinality(inUse') \in Nat /\ Cardinality(inUse) \in Nat
    <2>1. inUse' \in SUBSET inUse /\ IsFiniteSet(inUse)
      BY InUseFinite DEF TypeInv
    <2>2. IsFiniteSet(inUse')
      BY <2>1, FS_Subset
    <2> QED
      BY <2>1, <2>2, FS_CardinalityType
  <1>3. Len(idle') <= Len(idle) /\ Len(idle') \in Nat /\ Len(idle) \in Nat
    <2>1. Len(idle) \in Nat /\ Len(idle') \in Nat
      BY LenProperties DEF TypeInv, TypeOK
    <2>2. CASE idle' = idle
      BY <2>1, <2>2
    <2>3. CASE idle' = <<>>
      BY <2>1, <2>3
    <2> QED
      BY <2>1, <2>2, <2>3
  <1>4. reserved \in Nat /\ reserved' \in Nat
    BY DEF TypeInv, TypeOK
  <1> QED
    BY <1>1, <1>2, <1>3, <1>4, MaxConnectionsAssumption DEF CapacityRespected, Total

LEMMA InitCapacity == Init => CapacityRespected
  <1>1. Cardinality({}) = 0 /\ Len(<<>>) = 0
    BY FS_EmptySet
  <1> QED
    BY <1>1, MaxConnectionsAssumption DEF Init, CapacityRespected, Total

LEMMA AddInUse ==
  ASSUME TypeOK, NEW x
  PROVE  /\ Cardinality(inUse \cup {x}) <= Cardinality(inUse) + 1
         /\ Cardinality(inUse \cup {x}) \in Nat
  <1>1. IsFiniteSet(inUse) /\ Cardinality(inUse) \in Nat
    BY InUseFinite
  <1>2. Cardinality(inUse \cup {x}) =
           IF x \in inUse THEN Cardinality(inUse) ELSE Cardinality(inUse) + 1
    BY <1>1, FS_AddElement
  <1> QED
    BY <1>1, <1>2

LEMMA TakeIdleCapacity ==
  ASSUME TypeInv, CapacityRespected, NEW t \in Threads, TakeIdle(t)
  PROVE  CapacityRespected'
  <1>1. Len(idle') = Len(idle) - 1 /\ Len(idle) \in Nat
    BY HeadTailProperties, LenProperties DEF TakeIdle, TypeInv, TypeOK
  <1>2. Cardinality(inUse') <= Cardinality(inUse) + 1 /\ Cardinality(inUse') \in Nat
    BY AddInUse DEF TakeIdle, TypeInv
  <1>3. Cardinality(inUse) \in Nat /\ reserved \in Nat
    BY InUseFinite DEF TypeInv, TypeOK
  <1> QED
    BY <1>1, <1>2, <1>3, MaxConnectionsAssumption
    DEF TakeIdle, CapacityRespected, Total

LEMMA InstallCapacity ==
  ASSUME TypeInv, CapacityRespected, NEW t \in Threads, Install(t)
  PROVE  CapacityRespected'
  <1>1. Cardinality(inUse') <= Cardinality(inUse) + 1 /\ Cardinality(inUse') \in Nat
    BY AddInUse DEF Install, TypeInv
  <1>2. Cardinality(inUse) \in Nat /\ reserved \in Nat /\ Len(idle) \in Nat
    BY InUseFinite, LenProperties DEF TypeInv, TypeOK
  <1> QED
    BY <1>1, <1>2, MaxConnectionsAssumption DEF Install, CapacityRespected, Total

LEMMA ReleaseKeepsCapacity ==
  ASSUME TypeInv, CapacityRespected, NEW t \in Threads, NEW c \in Conns,
         ReleaseKeeps(t, c)
  PROVE  CapacityRespected'
  <1>1. Cardinality(inUse') = Cardinality(inUse) - 1
    BY InUseFinite, FS_RemoveElement DEF ReleaseKeeps, TypeInv
  <1>2. Len(idle') = Len(idle) + 1
    BY AppendProperties DEF ReleaseKeeps, TypeInv, TypeOK
  <1>3. Cardinality(inUse) \in Nat /\ reserved \in Nat /\ Len(idle) \in Nat
    BY InUseFinite, LenProperties DEF TypeInv, TypeOK
  <1> QED
    BY <1>1, <1>2, <1>3, MaxConnectionsAssumption
    DEF ReleaseKeeps, CapacityRespected, Total

LEMMA ReserveCapacity ==
  ASSUME TypeInv, NEW t \in Threads, Reserve(t)
  PROVE  CapacityRespected'
  <1>1. Cardinality(inUse) \in Nat /\ reserved \in Nat /\ Len(idle) \in Nat
    BY InUseFinite, LenProperties DEF TypeInv, TypeOK
  <1> QED
    BY <1>1, MaxConnectionsAssumption DEF Reserve, CapacityRespected, Total

\* The steps that add nothing to the pool's collections and open nothing.
Quiet(t) ==
    \/ Call(t) \/ Expire(t) \/ RefuseClosed(t) \/ Wait(t) \/ RaiseTimeout(t)
    \/ Woken(t) \/ TimedOut(t) \/ FindUnusable(t) \/ FindUsable(t) \/ SendPing(t)
    \/ PingAnswered(t) \/ PingAnsweredWrongly(t) \/ PingFailed(t)
    \/ Discard(t) \/ CloseDiscarded(t) \/ ConnectFailed(t) \/ InstallRefused(t)
    \/ \E c \in Conns : SweepPoisons(t, c) \/ CloseOne(t, c)
    \/ SendCommand(t) \/ ReplyRead(t) \/ CommandFailed(t) \/ CloseReleased(t)
    \/ \E c \in Conns : /\ ReleaseRejected(t, c) /\ UNCHANGED streamVars
                        /\ pc[t] = "out" \/ (pc[t] \in {"hold", "unwind"} /\ c = conn[t])
    \/ InterruptCommand(t) \/ InterruptCheck(t) \/ InterruptWait(t)
    \/ Close(t) \/ CloseDone(t)

\* Those, and two more that leave the number of slots taken alone or lower it.
Shrinking(t) ==
    \/ Quiet(t)
    \/ \E c \in Conns : ConnectOk(t, c)
    \/ \E c \in Conns : ReleaseDiscards(t, c) /\ UNCHANGED streamVars

LEMMA ShrinkingShrinks ==
  ASSUME TypeInv, NEW t \in Threads, Shrinking(t)
  PROVE  /\ idle' = idle \/ idle' = <<>>
         /\ inUse' \subseteq inUse
         /\ reserved' <= reserved
  <1>1. reserved \in Nat
    BY DEF TypeInv, TypeOK
  <1> QED
    BY <1>1 DEF Shrinking, Quiet, poolVars, Call, Expire, RefuseClosed, Wait,
          RaiseTimeout,
       Woken, TimedOut, FindUnusable, FindUsable, SendPing, PingAnswered,
       PingAnsweredWrongly, PingFailed, Discard, CloseDiscarded, ConnectFailed,
       InstallRefused, ConnectOk, SweepPoisons, CloseOne, SendCommand, ReplyRead,
       CommandFailed, CloseReleased, ReleaseRejected, ReleaseDiscards,
       InterruptCommand, InterruptCheck, InterruptWait, Close, CloseDone

\* Every step shrinks, or is one of the six that move a connection or a slot.
LEMMA NextCases ==
  ASSUME TypeInv, [Next]_vars
  PROVE  \/ UNCHANGED AllVars
         \/ \E t \in Threads : \/ Quiet(t) \/ TakeIdle(t) \/ Reserve(t) \/ Install(t)
                               \/ \E c \in Conns : ConnectOk(t, c)
         \/ \E t \in Threads, c \in Conns :
               /\ pc[t] \in {"out", "hold", "unwind"}
               /\ pc[t] = "out" => StrayReleases
               /\ pc[t] # "out" => c = conn[t]
               /\ ReleaseKeeps(t, c) \/ ReleaseDiscards(t, c)
               /\ UNCHANGED streamVars
  <1>1. CASE UNCHANGED vars
    BY <1>1, VarsUnchanged
  <1>2. ASSUME NEW t \in Threads, Release(t)
        PROVE  \E c \in Conns :
                  /\ pc[t] \in {"hold", "unwind"}
                  /\ c = conn[t]
                  /\ \/ ReleaseKeeps(t, c) \/ ReleaseRejected(t, c)
                     \/ ReleaseDiscards(t, c)
                  /\ UNCHANGED streamVars
    <2>1. conn[t] \in Conns
      BY <1>2 DEF Release, TypeInv, HandsFull, Holding, Lent
    <2> QED
      BY <1>2, <2>1 DEF Release, ReleaseSection
  <1>3. ASSUME NEW t \in Threads, NEW c \in Conns, StrayRelease(t, c)
        PROVE  /\ pc[t] = "out" /\ StrayReleases
               /\ \/ ReleaseKeeps(t, c) \/ ReleaseRejected(t, c)
                  \/ ReleaseDiscards(t, c)
               /\ UNCHANGED streamVars
    BY <1>3 DEF StrayRelease, ReleaseSection
  <1>4. ASSUME NEW t \in Threads,
               \/ Call(t) \/ Expire(t) \/ AcquireStep(t) \/ CloseStep(t)
               \/ SendCommand(t) \/ ReplyRead(t) \/ CommandFailed(t)
               \/ \E c \in Conns : SweepPoisons(t, c)
               \/ CloseReleased(t)
               \/ InterruptCommand(t) \/ InterruptCheck(t) \/ InterruptWait(t)
        PROVE  \/ Quiet(t) \/ TakeIdle(t) \/ Reserve(t) \/ Install(t)
               \/ \E c \in Conns : ConnectOk(t, c)
    BY <1>4 DEF Quiet, AcquireStep, CloseStep
  <1>5. ASSUME NEW t \in Threads, NEW c \in Conns, ReleaseRejected(t, c),
               UNCHANGED streamVars,
               pc[t] = "out" \/ (pc[t] \in {"hold", "unwind"} /\ c = conn[t])
        PROVE  Quiet(t)
    BY <1>5 DEF Quiet
  <1> QED
    BY <1>1, <1>2, <1>3, <1>4, <1>5 DEF Next, Orderly, BorrowerStep, Disturbance

LEMMA NextCapacity ==
  TypeInv /\ CapacityRespected /\ [Next]_vars => CapacityRespected'
  <1> SUFFICES ASSUME TypeInv, CapacityRespected, [Next]_vars
               PROVE  CapacityRespected'
    OBVIOUS
  <1>1. TypeInv'
    BY NextTypeInv
  <1>2. CASE UNCHANGED AllVars
    BY <1>2 DEF AllVars, CapacityRespected, Total
  <1>3. ASSUME NEW t \in Threads, Shrinking(t) PROVE CapacityRespected'
    BY <1>1, <1>3, ShrinkingShrinks, ShrinkCapacity
  <1>4. ASSUME NEW t \in Threads, NEW c \in Conns,
               \/ ConnectOk(t, c)
               \/ ReleaseDiscards(t, c) /\ UNCHANGED streamVars
        PROVE  CapacityRespected'
    BY <1>3, <1>4 DEF Shrinking
  <1>5. ASSUME NEW t \in Threads, Quiet(t) PROVE CapacityRespected'
    BY <1>3, <1>5 DEF Shrinking
  <1> QED
    BY <1>2, <1>4, <1>5, NextCases, TakeIdleCapacity, ReserveCapacity,
       InstallCapacity, ReleaseKeepsCapacity

\* The pool never has more than max_connections idle, lent and being opened,
\* even when threads release what they do not hold (pool.py 93-96, 139).
THEOREM CapacityCorrect == Spec => []CapacityRespected
  BY InitCapacity, TypeInvariant, NextCapacity, PTL DEF Spec

-----------------------------------------------------------------------------
\* The idle queue as a set of distinct connections.

Distinct == \A i, j \in 1..Len(idle) : idle[i] = idle[j] => i = j

LEMMA TailOfIdle ==
  ASSUME idle \in Seq(Conns), idle # <<>>, Distinct, idle' = Tail(idle)
  PROVE  /\ Head(idle) \in IdleSet
         /\ IdleSet' = IdleSet \ {Head(idle)}
         /\ Distinct'
  <1>1. /\ Len(idle) \in Nat /\ Len(idle) >= 1
        /\ Len(idle') = Len(idle) - 1
        /\ \A i \in 1..Len(idle') : idle'[i] = idle[i + 1]
        /\ Head(idle) = idle[1]
    BY HeadTailProperties, LenProperties
  <1>2. Head(idle) \in IdleSet
    BY <1>1 DEF IdleSet
  <1>3. Distinct'
    BY <1>1 DEF Distinct
  <1>4. ASSUME NEW i \in 1..Len(idle') PROVE idle'[i] \in IdleSet \ {Head(idle)}
    BY <1>1, <1>4 DEF IdleSet, Distinct
  <1>5. ASSUME NEW i \in 1..Len(idle), idle[i] # Head(idle) PROVE idle[i] \in IdleSet'
    <2>1. i - 1 \in 1..Len(idle') /\ idle'[i - 1] = idle[i]
      BY <1>1, <1>5
    <2> QED
      BY <2>1 DEF IdleSet
  <1> QED
    BY <1>2, <1>3, <1>4, <1>5 DEF IdleSet

LEMMA AppendToIdle ==
  ASSUME idle \in Seq(Conns), Distinct, NEW c \in Conns, c \notin IdleSet,
         idle' = Append(idle, c)
  PROVE  /\ IdleSet' = IdleSet \cup {c}
         /\ Distinct'
  <1>1. /\ Len(idle) \in Nat
        /\ Len(idle') = Len(idle) + 1
        /\ \A i \in 1..Len(idle) : idle'[i] = idle[i]
        /\ idle'[Len(idle) + 1] = c
    BY AppendProperties, LenProperties
  <1>2. \A i \in 1..Len(idle) : idle[i] # c
    BY DEF IdleSet
  <1>3. Distinct'
    BY <1>1, <1>2 DEF Distinct
  <1>4. \A i \in 1..Len(idle') : idle'[i] \in IdleSet \cup {c}
    BY <1>1 DEF IdleSet
  <1>5. \A i \in 1..Len(idle) : idle[i] \in IdleSet'
    BY <1>1 DEF IdleSet
  <1>6. c \in IdleSet'
    BY <1>1 DEF IdleSet
  <1> QED
    BY <1>3, <1>4, <1>5, <1>6 DEF IdleSet

LEMMA EmptyIdle ==
  ASSUME idle' = <<>>
  PROVE  IdleSet' = {} /\ Distinct'
  BY DEF IdleSet, Distinct

LEMMA SameIdle ==
  ASSUME idle' = idle
  PROVE  IdleSet' = IdleSet /\ (Distinct => Distinct')
  BY DEF IdleSet, Distinct

-----------------------------------------------------------------------------
\* A connection that is being opened is new to the pool: it is in none of its
\* collections and in nobody else's hands, so installing it adds a connection.

FreshInv ==
    /\ Distinct
    /\ IdleSet \cap inUse = {}
    /\ \A c \in owned \cup IdleSet \cup inUse : c \in Conns /\ sock[c] # "new"
    /\ \A t \in Threads : pc[t] \in Holding => sock[conn[t]] # "new"
    /\ \A t \in Threads : pc[t] = "opened" =>
          /\ conn[t] \notin owned \cup IdleSet \cup inUse
          /\ \A u \in Threads \ {t} : pc[u] \in Holding => conn[u] # conn[t]

\* Steps that add nothing to the pool's collections and open nothing.
LEMMA QuietFresh ==
  ASSUME TypeInv, FreshInv, NEW t \in Threads,
         idle' = idle \/ idle' = <<>>, inUse' \subseteq inUse, owned' \subseteq owned,
         \A c \in Conns : sock[c] # "new" => sock'[c] # "new",
         \A u \in Threads \ {t} : pc'[u] = pc[u] /\ conn'[u] = conn[u],
         pc'[t] # "opened",
         pc'[t] \in Holding => /\ conn'[t] \in Conns /\ sock[conn'[t]] # "new"
                               /\ \A u \in Threads \ {t} :
                                     pc[u] = "opened" => conn[u] # conn'[t]
  PROVE  FreshInv'
  <1>1. Distinct' /\ IdleSet' \subseteq IdleSet
    BY SameIdle, EmptyIdle DEF FreshInv
  <1>2. /\ IdleSet' \cap inUse' = {}
        /\ \A c \in owned' \cup IdleSet' \cup inUse' : c \in Conns /\ sock'[c] # "new"
    BY <1>1 DEF FreshInv
  <1>3. \A u \in Threads : pc'[u] \in Holding => sock'[conn'[u]] # "new"
    BY DEF FreshInv, TypeInv, HandsFull
  <1>4. ASSUME NEW u \in Threads, pc'[u] = "opened"
        PROVE  /\ conn'[u] \notin owned' \cup IdleSet' \cup inUse'
               /\ \A w \in Threads \ {u} : pc'[w] \in Holding => conn'[w] # conn'[u]
    BY <1>1, <1>4 DEF FreshInv
  <1> QED
    BY <1>1, <1>2, <1>3, <1>4 DEF FreshInv

\* Steps of a thread that keeps what it has, or lets go of it.
LEMMA KeepsOrDrops ==
  ASSUME TypeInv, NEW t \in Threads, Quiet(t)
  PROVE  /\ owned' \subseteq owned
         /\ \A c \in Conns : sock[c] # "new" => sock'[c] # "new"
         /\ \A u \in Threads \ {t} : pc'[u] = pc[u] /\ conn'[u] = conn[u]
         /\ pc'[t] # "opened"
         /\ pc'[t] \in Holding => /\ pc[t] \in Holding \ {"opened"}
                                  /\ conn'[t] = conn[t]
         /\ pc'[t] \in Lent => pc[t] \in Lent
         /\ pc'[t] \in {"discarded", "released"} => pc[t] = pc'[t] \/ Discard(t)
         /\ \/ Discard(t) \/ Close(t)
            \/ UNCHANGED <<idle, inUse, owned, closed>>
  <1>1. TypeOK
    BY DEF TypeInv
  <1> USE DEF poolVars, threadVars, streamVars, Goto, Leave, Borrow, CloseSocket,
              Holding, Lent
  <1>2. CASE \/ Call(t) \/ Expire(t) \/ RefuseClosed(t) \/ Wait(t) \/ RaiseTimeout(t)
             \/ Woken(t) \/ TimedOut(t) \/ CloseDone(t)
    BY <1>1, <1>2 DEF TypeOK, Call, Expire, RefuseClosed, Wait, RaiseTimeout, Woken,
       TimedOut, CloseDone
  <1>3. CASE \/ FindUnusable(t) \/ FindUsable(t) \/ SendPing(t) \/ PingAnswered(t)
             \/ PingAnsweredWrongly(t) \/ PingFailed(t)
    BY <1>1, <1>3 DEF TypeOK, FindUnusable, FindUsable, SendPing, PingAnswered,
       PingAnsweredWrongly, PingFailed
  <1>4. CASE Discard(t) \/ CloseDiscarded(t) \/ ConnectFailed(t) \/ InstallRefused(t)
    BY <1>1, <1>4 DEF TypeOK, Discard, CloseDiscarded, ConnectFailed, InstallRefused
  <1>5. CASE \E c \in Conns : SweepPoisons(t, c) \/ CloseOne(t, c)
    BY <1>1, <1>5 DEF TypeOK, SweepPoisons, CloseOne
  <1>6. CASE \/ SendCommand(t) \/ ReplyRead(t) \/ CommandFailed(t) \/ CloseReleased(t)
    BY <1>1, <1>6 DEF TypeOK, SendCommand, ReplyRead, CommandFailed, CloseReleased
  <1>7. CASE \E c \in Conns : ReleaseRejected(t, c) /\ UNCHANGED streamVars
    BY <1>1, <1>7 DEF TypeOK, ReleaseRejected
  <1>8. CASE InterruptCommand(t) \/ InterruptCheck(t) \/ InterruptWait(t) \/ Close(t)
    BY <1>1, <1>8 DEF TypeOK, InterruptCommand, InterruptCheck, InterruptWait, Close
  <1> QED
    BY <1>2, <1>3, <1>4, <1>5, <1>6, <1>7, <1>8 DEF Quiet

LEMMA KeepsOrDropsFresh ==
  ASSUME TypeInv, FreshInv, NEW t \in Threads, Quiet(t)
  PROVE  FreshInv'
  <1>1. /\ owned' \subseteq owned
        /\ \A c \in Conns : sock[c] # "new" => sock'[c] # "new"
        /\ \A u \in Threads \ {t} : pc'[u] = pc[u] /\ conn'[u] = conn[u]
        /\ pc'[t] # "opened"
        /\ pc'[t] \in Holding => /\ pc[t] \in Holding \ {"opened"}
                                 /\ conn'[t] = conn[t]
    BY KeepsOrDrops
  <1>2. /\ idle' = idle \/ idle' = <<>>
        /\ inUse' \subseteq inUse
    BY ShrinkingShrinks DEF Shrinking
  <1>3. pc'[t] \in Holding => /\ conn'[t] \in Conns /\ sock[conn'[t]] # "new"
                              /\ \A u \in Threads \ {t} :
                                    pc[u] = "opened" => conn[u] # conn'[t]
    BY <1>1 DEF FreshInv, TypeInv, HandsFull
  <1> QED
    BY <1>1, <1>2, <1>3, QuietFresh

LEMMA ConnectOkFresh ==
  ASSUME TypeInv, FreshInv, NEW t \in Threads, NEW c \in Conns, ConnectOk(t, c)
  PROVE  FreshInv'
  <1>1. /\ idle' = idle /\ inUse' = inUse /\ owned' = owned
        /\ sock[c] = "new" /\ sock' = [sock EXCEPT ![c] = "open"]
        /\ conn' = [conn EXCEPT ![t] = c] /\ pc' = [pc EXCEPT ![t] = "opened"]
    BY DEF ConnectOk, poolVars, Goto
  <1>2. IdleSet' = IdleSet /\ Distinct'
    BY <1>1, SameIdle DEF FreshInv
  <1>3. c \notin owned \cup IdleSet \cup inUse
    BY <1>1 DEF FreshInv
  <1>4. \A u \in Threads : pc[u] \in Holding => conn[u] # c
    BY <1>1 DEF FreshInv
  <1>5. \A d \in Conns : sock[d] # "new" => sock'[d] # "new"
    BY <1>1 DEF TypeInv, TypeOK
  <1>6. \A u \in Threads : pc'[u] \in Holding => sock'[conn'[u]] # "new"
    BY <1>1, <1>5 DEF FreshInv, TypeInv, TypeOK, HandsFull
  <1>7. ASSUME NEW u \in Threads, pc'[u] = "opened"
        PROVE  /\ conn'[u] \notin owned' \cup IdleSet' \cup inUse'
               /\ \A w \in Threads \ {u} : pc'[w] \in Holding => conn'[w] # conn'[u]
    <2>1. CASE u = t
      BY <1>1, <1>2, <1>3, <1>4, <2>1 DEF TypeInv, TypeOK
    <2>2. CASE u # t
      <3>1. pc[u] = "opened" /\ conn'[u] = conn[u] /\ "opened" \in Holding
        BY <1>1, <1>7, <2>2 DEF TypeInv, TypeOK, Holding
      <3> QED
        BY <1>1, <1>2, <1>4, <2>2, <3>1 DEF FreshInv, TypeInv, TypeOK
    <2> QED
      BY <2>1, <2>2
  <1>8. /\ IdleSet' \cap inUse' = {}
        /\ \A d \in owned' \cup IdleSet' \cup inUse' : d \in Conns /\ sock'[d] # "new"
    BY <1>1, <1>2, <1>5 DEF FreshInv
  <1> QED
    BY <1>2, <1>6, <1>7, <1>8 DEF FreshInv

LEMMA TakeIdleFresh ==
  ASSUME TypeInv, FreshInv, NEW t \in Threads, TakeIdle(t)
  PROVE  FreshInv'
  <1> DEFINE c == Head(idle)
  <1>1. /\ c \in IdleSet /\ IdleSet' = IdleSet \ {c} /\ Distinct'
    BY TailOfIdle DEF TakeIdle, FreshInv, TypeInv, TypeOK
  <1>2. /\ inUse' = inUse \cup {c} /\ owned' = owned /\ sock' = sock
        /\ conn' = [conn EXCEPT ![t] = c] /\ pc' = [pc EXCEPT ![t] = "check"]
    BY DEF TakeIdle, streamVars, Goto
  <1>3. pc[t] = "acquire"
    BY DEF TakeIdle
  <1> HIDE DEF c
  <1>4. /\ IdleSet' \cap inUse' = {}
        /\ \A d \in owned' \cup IdleSet' \cup inUse' : d \in Conns /\ sock'[d] # "new"
    BY <1>1, <1>2 DEF FreshInv
  <1>5. \A u \in Threads : pc'[u] \in Holding => sock'[conn'[u]] # "new"
    BY <1>1, <1>2 DEF FreshInv, TypeInv, TypeOK
  <1>6. \A u \in Threads : pc'[u] = "opened" =>
          /\ conn'[u] \notin owned' \cup IdleSet' \cup inUse'
          /\ \A w \in Threads \ {u} : pc'[w] \in Holding => conn'[w] # conn'[u]
    BY <1>1, <1>2 DEF FreshInv, TypeInv, TypeOK
  <1> QED
    BY <1>1, <1>4, <1>5, <1>6 DEF FreshInv

LEMMA InstallFresh ==
  ASSUME TypeInv, FreshInv, NEW t \in Threads, Install(t)
  PROVE  FreshInv'
  <1> DEFINE c == conn[t]
  <1>1. /\ pc[t] = "opened" /\ idle' = idle /\ conn' = conn /\ sock' = sock
        /\ inUse' = inUse \cup {c} /\ owned' = owned \cup {c}
        /\ pc' = [pc EXCEPT ![t] = "hold"]
    BY DEF Install, Borrow, Goto, streamVars
  <1>2. IdleSet' = IdleSet /\ Distinct'
    BY <1>1, SameIdle DEF FreshInv
  <1>3. c \in Conns /\ sock[c] # "new" /\ c \notin owned \cup IdleSet \cup inUse
    BY <1>1 DEF FreshInv, TypeInv, HandsFull, Holding
  <1>4. /\ IdleSet' \cap inUse' = {}
        /\ \A d \in owned' \cup IdleSet' \cup inUse' : d \in Conns /\ sock'[d] # "new"
    BY <1>1, <1>2, <1>3 DEF FreshInv
  <1>5. \A u \in Threads : pc'[u] \in Holding => sock'[conn'[u]] # "new"
    BY <1>1, <1>3 DEF FreshInv, TypeInv, TypeOK, Holding
  <1>6. ASSUME NEW u \in Threads, pc'[u] = "opened"
        PROVE  /\ conn'[u] \notin owned' \cup IdleSet' \cup inUse'
               /\ \A w \in Threads \ {u} : pc'[w] \in Holding => conn'[w] # conn'[u]
    <2>1. u # t /\ pc[u] = "opened"
      BY <1>1, <1>6 DEF TypeInv, TypeOK
    <2>2. conn[u] # c
      BY <1>1, <2>1 DEF FreshInv, Holding
    <2>3. \A w \in Threads \ {u} : pc'[w] \in Holding => pc[w] \in Holding
      BY <1>1 DEF TypeInv, TypeOK, Holding
    <2> QED
      BY <1>1, <1>2, <2>1, <2>2, <2>3 DEF FreshInv
  <1> QED
    BY <1>2, <1>4, <1>5, <1>6 DEF FreshInv

LEMMA ReleaseKeepsFresh ==
  ASSUME TypeInv, FreshInv, NEW t \in Threads, NEW c \in Conns,
         ReleaseKeeps(t, c), UNCHANGED streamVars
  PROVE  FreshInv'
  <1>1. /\ c \in inUse /\ inUse' = inUse \ {c} /\ owned' = owned /\ sock' = sock
        /\ pc' = [pc EXCEPT ![t] = "out"] /\ conn' = [conn EXCEPT ![t] = NoConn]
    BY DEF ReleaseKeeps, Leave, Goto, streamVars
  <1>2. IdleSet' = IdleSet \cup {c} /\ Distinct'
    BY <1>1, AppendToIdle DEF ReleaseKeeps, FreshInv, TypeInv, TypeOK
  <1>3. \A u \in Threads : pc'[u] \in Holding =>
           u # t /\ pc[u] \in Holding /\ conn'[u] = conn[u] /\ pc'[u] = pc[u]
    BY <1>1 DEF TypeInv, TypeOK, Holding, Lent
  <1>4. /\ IdleSet' \cap inUse' = {}
        /\ \A d \in owned' \cup IdleSet' \cup inUse' : d \in Conns /\ sock'[d] # "new"
    BY <1>1, <1>2 DEF FreshInv
  <1>5. \A u \in Threads : pc'[u] = "opened" =>
          /\ conn'[u] \notin owned' \cup IdleSet' \cup inUse'
          /\ \A w \in Threads \ {u} : pc'[w] \in Holding => conn'[w] # conn'[u]
    BY <1>1, <1>2, <1>3 DEF FreshInv, Holding
  <1> QED
    BY <1>1, <1>2, <1>3, <1>4, <1>5 DEF FreshInv

LEMMA ReleaseDiscardsFresh ==
  ASSUME TypeInv, FreshInv, NEW t \in Threads, NEW c \in Conns,
         sock[c] # "new", ReleaseDiscards(t, c), UNCHANGED streamVars
  PROVE  FreshInv'
  <1>1. /\ c \in owned /\ idle' = idle /\ inUse' \subseteq inUse
        /\ owned' \subseteq owned /\ sock' = sock
        /\ conn' = [conn EXCEPT ![t] = c] /\ pc' = [pc EXCEPT ![t] = "released"]
    BY DEF ReleaseDiscards, Goto, streamVars
  <1>2. \A u \in Threads \ {t} : pc[u] = "opened" => conn[u] # c
    BY <1>1 DEF FreshInv
  <1>3. /\ \A u \in Threads \ {t} : pc'[u] = pc[u] /\ conn'[u] = conn[u]
        /\ pc'[t] = "released" /\ conn'[t] = c
    BY <1>1 DEF TypeInv, TypeOK
  <1> QED
    BY <1>1, <1>2, <1>3, QuietFresh

LEMMA ReserveFresh ==
  ASSUME TypeInv, FreshInv, NEW t \in Threads, Reserve(t)
  PROVE  FreshInv'
  <1>1. /\ idle' = idle /\ inUse' = inUse /\ owned' = owned /\ sock' = sock
        /\ conn' = conn /\ pc' = [pc EXCEPT ![t] = "opening"]
    BY DEF Reserve, Goto, streamVars
  <1>2. pc'[t] = "opening" /\ "opening" \notin Holding
    BY <1>1 DEF TypeInv, TypeOK, Holding, Lent
  <1>3. \A u \in Threads \ {t} : pc'[u] = pc[u] /\ conn'[u] = conn[u]
    BY <1>1 DEF TypeInv, TypeOK
  <1> QED
    BY <1>1, <1>2, <1>3, QuietFresh

LEMMA InitFresh == Init => FreshInv
  <1>1. Init => IdleSet = {} /\ Distinct
    BY DEF Init, IdleSet, Distinct
  <1> QED
    BY <1>1 DEF Init, FreshInv, Holding, Lent

LEMMA NextFresh == TypeInv /\ FreshInv /\ [Next]_vars => FreshInv'
  <1> SUFFICES ASSUME TypeInv, FreshInv, [Next]_vars PROVE FreshInv'
    OBVIOUS
  <1>1. CASE UNCHANGED AllVars
    BY <1>1 DEF AllVars, FreshInv, Distinct, IdleSet
  <1>2. ASSUME NEW t \in Threads, NEW c \in Conns,
               ReleaseKeeps(t, c) \/ ReleaseDiscards(t, c)
        PROVE  sock[c] # "new"
    BY <1>2 DEF FreshInv, ReleaseKeeps, ReleaseDiscards
  <1> QED
    BY <1>1, <1>2, NextCases, KeepsOrDropsFresh, ConnectOkFresh, TakeIdleFresh,
       ReserveFresh, InstallFresh, ReleaseKeepsFresh, ReleaseDiscardsFresh

LEMMA FreshInvariant == Spec => []FreshInv
  BY InitFresh, TypeInvariant, NextFresh, PTL DEF Spec

\* No connection is idle twice or both idle and in use, even when threads
\* release connections they no longer hold (pool.py 178-181 and 195-196).
THEOREM IdleOnce == Spec => []NeverIdleTwice
  <1>1. FreshInv => NeverIdleTwice
    BY DEF FreshInv, NeverIdleTwice, Distinct
  <1> QED
    BY <1>1, FreshInvariant, PTL

-----------------------------------------------------------------------------
\* Exclusive lending, when threads release only what they hold.

LendInv ==
    /\ \A t \in Threads : pc[t] \in Lent =>
          conn[t] \in owned /\ (closed \/ conn[t] \in inUse)
    /\ \A t \in Threads : pc[t] \in {"discarded", "released"} => conn[t] \notin owned
    /\ \A t \in Threads : \A u \in Threads \ {t} :
          pc[t] \in Holding /\ pc[u] \in Holding => conn[u] # conn[t]
    /\ OwnershipExact

LEMMA LendInvExclusive == TypeInv /\ FreshInv /\ LendInv => ExclusiveLending
  <1> SUFFICES ASSUME TypeInv, FreshInv, LendInv, NEW t \in Threads, pc[t] \in Holding
               PROVE  conn[t] \notin IdleSet
    BY DEF ExclusiveLending, LendInv
  <1>1. CASE pc[t] \in Lent
    BY <1>1 DEF FreshInv, LendInv, OwnershipExact
  <1>2. CASE pc[t] = "opened"
    BY <1>2 DEF FreshInv
  <1>3. CASE pc[t] \in {"discarded", "released"}
    BY <1>3 DEF LendInv, OwnershipExact, TypeInv, TypeOK
  <1> QED
    BY <1>1, <1>2, <1>3 DEF Holding

\* A thread that keeps what it has, or lets go, under unchanged collections.
LEMMA CalmLend ==
  ASSUME TypeInv, LendInv, NEW t \in Threads,
         UNCHANGED <<idle, inUse, owned, closed>>,
         \A u \in Threads \ {t} : pc'[u] = pc[u] /\ conn'[u] = conn[u],
         pc'[t] \in Holding => pc[t] \in Holding /\ conn'[t] = conn[t],
         pc'[t] \in Lent => pc[t] \in Lent,
         pc'[t] \in {"discarded", "released"} => pc[t] = pc'[t]
  PROVE  LendInv'
  <1>1. IdleSet' = IdleSet
    BY DEF IdleSet
  <1>2. OwnershipExact'
    BY <1>1 DEF LendInv, OwnershipExact
  <1>3. ASSUME NEW u \in Threads, pc'[u] \in Lent
        PROVE  conn'[u] \in owned' /\ (closed' \/ conn'[u] \in inUse')
    BY <1>3 DEF LendInv, Holding
  <1>4. ASSUME NEW u \in Threads, pc'[u] \in {"discarded", "released"}
        PROVE  conn'[u] \notin owned'
    BY <1>4 DEF LendInv, Holding
  <1>5. ASSUME NEW u \in Threads, NEW w \in Threads \ {u},
               pc'[u] \in Holding, pc'[w] \in Holding
        PROVE  conn'[w] # conn'[u]
    BY <1>5 DEF LendInv
  <1> QED
    BY <1>2, <1>3, <1>4, <1>5 DEF LendInv

LEMMA DiscardLend ==
  ASSUME TypeInv, FreshInv, LendInv, NEW t \in Threads, Discard(t)
  PROVE  LendInv'
  <1> DEFINE c == conn[t]
  <1>1. /\ pc[t] = "discard" /\ idle' = idle /\ closed' = closed /\ conn' = conn
        /\ inUse' = inUse \ {c} /\ owned' = owned \ {c}
        /\ pc' = [pc EXCEPT ![t] = "discarded"]
    BY DEF Discard, Goto
  <1>2. pc[t] \in Lent /\ pc[t] \in Holding
    BY <1>1 DEF Lent, Holding
  <1>3. IdleSet' = IdleSet /\ c \notin IdleSet
    BY <1>1, <1>2, SameIdle, LendInvExclusive DEF ExclusiveLending
  <1>4. \A u \in Threads \ {t} : pc'[u] = pc[u] /\ (pc[u] \in Holding => conn[u] # c)
    BY <1>1, <1>2 DEF LendInv, TypeInv, TypeOK
  <1>5. pc'[t] = "discarded" /\ "discarded" \notin Lent /\ Lent \subseteq Holding
    BY <1>1 DEF TypeInv, TypeOK, Lent, Holding
  <1> HIDE DEF c
  <1>6. OwnershipExact'
    BY <1>1, <1>3 DEF LendInv, OwnershipExact
  <1>7. \A u \in Threads : pc'[u] \in Lent =>
           conn'[u] \in owned' /\ (closed' \/ conn'[u] \in inUse')
    BY <1>1, <1>4, <1>5 DEF LendInv
  <1>8. \A u \in Threads : pc'[u] \in {"discarded", "released"} => conn'[u] \notin owned'
    BY <1>1, <1>4 DEF LendInv, c
  <1>9. \A u \in Threads : \A w \in Threads \ {u} :
           pc'[u] \in Holding /\ pc'[w] \in Holding => conn'[w] # conn'[u]
    BY <1>1, <1>2, <1>4 DEF LendInv
  <1> QED
    BY <1>6, <1>7, <1>8, <1>9 DEF LendInv

LEMMA CloseLend ==
  ASSUME TypeInv, LendInv, NEW t \in Threads, Close(t)
  PROVE  LendInv'
  <1>1. /\ pc' = [pc EXCEPT ![t] = "closing"] /\ conn' = conn /\ owned' = owned
        /\ closed' = TRUE /\ inUse' = {} /\ idle' = <<>>
    BY DEF Close, Goto
  <1>2. IdleSet' = {}
    BY <1>1, EmptyIdle
  <1>3. \A u \in Threads : pc'[u] \in Holding => u # t /\ pc'[u] = pc[u]
    BY <1>1 DEF TypeInv, TypeOK, Holding, Lent
  <1>4. {"discarded", "released"} \cup Lent \subseteq Holding
    BY DEF Holding
  <1> QED
    BY <1>1, <1>2, <1>3, <1>4 DEF LendInv, OwnershipExact

LEMMA QuietLend ==
  ASSUME TypeInv, FreshInv, LendInv, NEW t \in Threads, Quiet(t)
  PROVE  LendInv'
  <1>1. CASE Discard(t)
    BY <1>1, DiscardLend
  <1>2. CASE Close(t)
    BY <1>2, CloseLend
  <1>3. CASE ~Discard(t) /\ ~Close(t)
    BY <1>3, KeepsOrDrops, CalmLend
  <1> QED
    BY <1>1, <1>2, <1>3

LEMMA ReserveLend ==
  ASSUME TypeInv, LendInv, NEW t \in Threads, Reserve(t)
  PROVE  LendInv'
  <1>1. /\ UNCHANGED <<idle, inUse, owned, closed>>
        /\ conn' = conn /\ pc' = [pc EXCEPT ![t] = "opening"]
    BY DEF Reserve, Goto
  <1>2. pc'[t] = "opening" /\ \A u \in Threads \ {t} : pc'[u] = pc[u]
    BY <1>1 DEF TypeInv, TypeOK
  <1>3. "opening" \notin Holding \cup Lent \cup {"discarded", "released"}
    BY DEF Holding, Lent
  <1> QED
    BY <1>1, <1>2, <1>3, CalmLend

LEMMA ConnectOkLend ==
  ASSUME TypeInv, FreshInv, LendInv, NEW t \in Threads, NEW c \in Conns,
         ConnectOk(t, c)
  PROVE  LendInv'
  <1>1. /\ idle' = idle /\ inUse' = inUse /\ owned' = owned /\ closed' = closed
        /\ sock[c] = "new"
        /\ conn' = [conn EXCEPT ![t] = c] /\ pc' = [pc EXCEPT ![t] = "opened"]
    BY DEF ConnectOk, poolVars, Goto
  <1>2. \A u \in Threads : pc[u] \in Holding => conn[u] # c
    BY <1>1 DEF FreshInv
  <1>3. /\ pc'[t] = "opened" /\ conn'[t] = c
        /\ \A u \in Threads \ {t} : pc'[u] = pc[u] /\ conn'[u] = conn[u]
    BY <1>1 DEF TypeInv, TypeOK
  <1>4. "opened" \notin Lent \cup {"discarded", "released"}
    BY DEF Lent
  <1>5. OwnershipExact'
    BY <1>1, SameIdle DEF LendInv, OwnershipExact
  <1>6. \A u \in Threads : \A w \in Threads \ {u} :
           pc'[u] \in Holding /\ pc'[w] \in Holding => conn'[w] # conn'[u]
    BY <1>2, <1>3 DEF LendInv
  <1>7. \A u \in Threads : pc'[u] \in Lent =>
           conn'[u] \in owned' /\ (closed' \/ conn'[u] \in inUse')
    BY <1>1, <1>3, <1>4 DEF LendInv
  <1>8. \A u \in Threads : pc'[u] \in {"discarded", "released"} => conn'[u] \notin owned'
    BY <1>1, <1>3, <1>4 DEF LendInv
  <1> QED
    BY <1>5, <1>6, <1>7, <1>8 DEF LendInv

LEMMA TakeIdleLend ==
  ASSUME TypeInv, FreshInv, LendInv, NEW t \in Threads, TakeIdle(t)
  PROVE  LendInv'
  <1> DEFINE c == Head(idle)
  <1>1. /\ c \in IdleSet /\ IdleSet' = IdleSet \ {c}
    BY TailOfIdle DEF TakeIdle, FreshInv, TypeInv, TypeOK
  <1>2. /\ ~closed /\ closed' = closed /\ inUse' = inUse \cup {c} /\ owned' = owned
        /\ conn' = [conn EXCEPT ![t] = c] /\ pc' = [pc EXCEPT ![t] = "check"]
    BY DEF TakeIdle, Goto
  <1> HIDE DEF c
  <1>3. \A u \in Threads : pc[u] \in Holding => conn[u] # c
    BY <1>1, LendInvExclusive DEF ExclusiveLending
  <1>4. /\ pc'[t] = "check" /\ conn'[t] = c
        /\ \A u \in Threads \ {t} : pc'[u] = pc[u] /\ conn'[u] = conn[u]
    BY <1>2 DEF TypeInv, TypeOK
  <1>5. OwnershipExact'
    BY <1>1, <1>2 DEF LendInv, OwnershipExact
  <1>6. \A u \in Threads : \A w \in Threads \ {u} :
           pc'[u] \in Holding /\ pc'[w] \in Holding => conn'[w] # conn'[u]
    BY <1>3, <1>4 DEF LendInv
  <1>7. c \in owned
    BY <1>1, <1>2 DEF LendInv, OwnershipExact
  <1>8. \A u \in Threads : pc'[u] \in Lent =>
           conn'[u] \in owned' /\ (closed' \/ conn'[u] \in inUse')
    BY <1>2, <1>4, <1>7 DEF LendInv
  <1>9. \A u \in Threads : pc'[u] \in {"discarded", "released"} => conn'[u] \notin owned'
    BY <1>2, <1>4 DEF LendInv
  <1> QED
    BY <1>5, <1>6, <1>8, <1>9 DEF LendInv

LEMMA InstallLend ==
  ASSUME TypeInv, FreshInv, LendInv, NEW t \in Threads, Install(t)
  PROVE  LendInv'
  <1> DEFINE c == conn[t]
  <1>1. /\ pc[t] = "opened" /\ ~closed /\ closed' = closed /\ idle' = idle /\ conn' = conn
        /\ inUse' = inUse \cup {c} /\ owned' = owned \cup {c}
        /\ pc' = [pc EXCEPT ![t] = "hold"]
    BY DEF Install, Borrow, Goto
  <1>2. \A u \in Threads \ {t} : pc[u] \in Holding => conn[u] # c
    BY <1>1 DEF FreshInv
  <1> HIDE DEF c
  <1>3. pc'[t] = "hold" /\ \A u \in Threads \ {t} : pc'[u] = pc[u]
    BY <1>1 DEF TypeInv, TypeOK
  <1>4. {"discarded", "released"} \cup Lent \subseteq Holding /\ pc[t] \in Holding
    BY <1>1 DEF Holding
  <1>5. OwnershipExact'
    BY <1>1, SameIdle DEF LendInv, OwnershipExact
  <1>6. \A u \in Threads : \A w \in Threads \ {u} :
           pc'[u] \in Holding /\ pc'[w] \in Holding => conn'[w] # conn'[u]
    BY <1>1, <1>3, <1>4 DEF LendInv
  <1>7. \A u \in Threads : pc'[u] \in Lent =>
           conn'[u] \in owned' /\ (closed' \/ conn'[u] \in inUse')
    BY <1>1, <1>3 DEF LendInv, c
  <1>8. \A u \in Threads : pc'[u] \in {"discarded", "released"} => conn'[u] \notin owned'
    BY <1>1, <1>2, <1>3, <1>4 DEF LendInv
  <1> QED
    BY <1>5, <1>6, <1>7, <1>8 DEF LendInv

LEMMA ReleaseKeepsLend ==
  ASSUME TypeInv, FreshInv, LendInv, NEW t \in Threads,
         pc[t] \in {"hold", "unwind"}, ReleaseKeeps(t, conn[t]), UNCHANGED streamVars
  PROVE  LendInv'
  <1> DEFINE c == conn[t]
  <1>1. /\ c \in inUse /\ c \in owned /\ ~closed /\ closed' = closed
        /\ inUse' = inUse \ {c} /\ owned' = owned
        /\ pc' = [pc EXCEPT ![t] = "out"] /\ conn' = [conn EXCEPT ![t] = NoConn]
    BY DEF ReleaseKeeps, Leave, Goto
  <1>2. c \in Conns /\ c \notin IdleSet
    BY <1>1 DEF FreshInv
  <1>3. IdleSet' = IdleSet \cup {c}
    BY <1>2, AppendToIdle DEF ReleaseKeeps, FreshInv, TypeInv, TypeOK
  <1>4. {"discarded", "released"} \cup Lent \subseteq Holding /\ pc[t] \in Holding
    BY DEF Holding, Lent
  <1>5. \A u \in Threads \ {t} : pc[u] \in Holding => conn[u] # c
    BY <1>4 DEF LendInv
  <1> HIDE DEF c
  <1>6. \A u \in Threads : pc'[u] \in Holding =>
           u # t /\ pc'[u] = pc[u] /\ conn'[u] = conn[u]
    BY <1>1 DEF TypeInv, TypeOK, Holding, Lent
  <1>7. OwnershipExact'
    BY <1>1, <1>3 DEF LendInv, OwnershipExact
  <1>8. \A u \in Threads : \A w \in Threads \ {u} :
           pc'[u] \in Holding /\ pc'[w] \in Holding => conn'[w] # conn'[u]
    BY <1>6 DEF LendInv
  <1>9. \A u \in Threads : pc'[u] \in Lent =>
           conn'[u] \in owned' /\ (closed' \/ conn'[u] \in inUse')
    BY <1>1, <1>4, <1>5, <1>6 DEF LendInv
  <1>10. \A u \in Threads : pc'[u] \in {"discarded", "released"} => conn'[u] \notin owned'
    BY <1>1, <1>4, <1>6 DEF LendInv
  <1> QED
    BY <1>7, <1>8, <1>9, <1>10 DEF LendInv

LEMMA ReleaseDiscardsLend ==
  ASSUME TypeInv, FreshInv, LendInv, NEW t \in Threads,
         pc[t] \in {"hold", "unwind"}, ReleaseDiscards(t, conn[t])
  PROVE  LendInv'
  <1> DEFINE c == conn[t]
  <1>1. /\ idle' = idle /\ closed' = closed
        /\ inUse' = inUse \ {c} /\ owned' = owned \ {c}
        /\ conn' = [conn EXCEPT ![t] = c] /\ pc' = [pc EXCEPT ![t] = "released"]
    BY DEF ReleaseDiscards, Goto
  <1>2. {"discarded", "released"} \cup Lent \subseteq Holding /\ pc[t] \in Holding
    BY DEF Holding, Lent
  <1>3. IdleSet' = IdleSet /\ c \notin IdleSet
    BY <1>1, <1>2, SameIdle, LendInvExclusive DEF ExclusiveLending
  <1>4. \A u \in Threads \ {t} : pc[u] \in Holding => conn[u] # c
    BY <1>2 DEF LendInv
  <1>5. /\ pc'[t] = "released" /\ "released" \notin Lent
        /\ \A u \in Threads : conn'[u] = conn[u]
        /\ \A u \in Threads \ {t} : pc'[u] = pc[u]
    BY <1>1 DEF TypeInv, TypeOK, Lent
  <1> HIDE DEF c
  <1>6. OwnershipExact'
    BY <1>1, <1>3 DEF LendInv, OwnershipExact
  <1>7. \A u \in Threads : \A w \in Threads \ {u} :
           pc'[u] \in Holding /\ pc'[w] \in Holding => conn'[w] # conn'[u]
    BY <1>2, <1>5 DEF LendInv
  <1>8. \A u \in Threads : pc'[u] \in Lent =>
           conn'[u] \in owned' /\ (closed' \/ conn'[u] \in inUse')
    BY <1>1, <1>2, <1>4, <1>5 DEF LendInv
  <1>9. \A u \in Threads : pc'[u] \in {"discarded", "released"} => conn'[u] \notin owned'
    BY <1>1, <1>2, <1>4, <1>5 DEF LendInv, c
  <1> QED
    BY <1>6, <1>7, <1>8, <1>9 DEF LendInv

LEMMA InitLend == Init => LendInv
  <1>1. Init => IdleSet = {}
    BY DEF Init, IdleSet
  <1> QED
    BY <1>1 DEF Init, LendInv, OwnershipExact, Holding, Lent

LEMMA NextLend ==
  ASSUME ~StrayReleases
  PROVE  TypeInv /\ FreshInv /\ LendInv /\ [Next]_vars => LendInv'
  <1> SUFFICES ASSUME TypeInv, FreshInv, LendInv, [Next]_vars PROVE LendInv'
    OBVIOUS
  <1>1. CASE UNCHANGED AllVars
    BY <1>1 DEF AllVars, LendInv, OwnershipExact, IdleSet
  <1>2. ASSUME NEW t \in Threads, NEW c \in Conns,
               pc[t] \in {"out", "hold", "unwind"},
               pc[t] = "out" => StrayReleases,
               pc[t] # "out" => c = conn[t],
               ReleaseKeeps(t, c) \/ ReleaseDiscards(t, c),
               UNCHANGED streamVars
        PROVE  LendInv'
    <2>1. pc[t] \in {"hold", "unwind"} /\ c = conn[t]
      BY <1>2
    <2> QED
      BY <1>2, <2>1, ReleaseKeepsLend, ReleaseDiscardsLend
  <1> QED
    BY <1>1, <1>2, NextCases, QuietLend, ReserveLend, ConnectOkLend, TakeIdleLend,
       InstallLend

LEMMA LendInvariant ==
  ASSUME ~StrayReleases
  PROVE  Spec => [](TypeInv /\ FreshInv /\ LendInv)
  BY InitTypeInv, InitFresh, InitLend, NextTypeInv, NextFresh, NextLend, PTL DEF Spec

\* No connection is ever in two threads' hands, or idle while in one's, as long
\* as threads release only what they hold; interrupts make no difference.
THEOREM LendingExclusive ==
  ASSUME ~StrayReleases
  PROVE  Spec => []ExclusiveLending
  BY LendInvariant, LendInvExclusive, PTL

\* An open pool owns exactly its idle and lent connections; a closed one holds
\* none, whatever was being opened or returned while it closed.
THEOREM OwnershipCorrect ==
  ASSUME ~StrayReleases
  PROVE  Spec => []OwnershipExact
  <1>1. LendInv => OwnershipExact
    BY DEF LendInv
  <1> QED
    BY <1>1, LendInvariant, PTL

\* A borrower can always give its connection back without an error.
THEOREM ReleaseNeverRefused ==
  ASSUME ~StrayReleases
  PROVE  Spec => []UnwindsCleanly
  <1>1. LendInv => UnwindsCleanly
    BY DEF LendInv, UnwindsCleanly, Lent
  <1> QED
    BY <1>1, LendInvariant, PTL

-----------------------------------------------------------------------------
\* What the pool keeps account of: every open socket, every reply asked for,
\* every lent connection, and every wakeup.

\* What a step of t leaves alone: what the other threads are doing.
LEMMA OthersStay ==
  ASSUME TypeOK, NEW t \in Threads, NEW l, pc' = [pc EXCEPT ![t] = l],
         \/ conn' = conn
         \/ \E x : conn' = [conn EXCEPT ![t] = x]
  PROVE  \A u \in Threads \ {t} : pc'[u] = pc[u] /\ conn'[u] = conn[u]
  BY DEF TypeOK

-----------------------------------------------------------------------------
\* Open sockets.  A lent connection is in _in_use or listed by a close() in
\* progress; one that is neither is on its way into the pool or out of it.

Passing == {"opened", "discarded", "released"}

TrackInv ==
    \A c \in Conns : Connected(c) =>
        \/ c \in IdleSet \cup inUse
        \/ \E t \in Threads : conn[t] = c /\ pc[t] \in Passing
        \/ \E t \in Threads : c \in doomed[t]

\* Only a thread inside close() has connections left to close.
DoomInv == \A t \in Threads : pc[t] # "closing" => doomed[t] = {}

LEMMA QuietDoom ==
  ASSUME TypeInv, DoomInv, NEW t \in Threads, Quiet(t)
  PROVE  DoomInv'
  <1>1. TypeOK
    BY DEF TypeInv
  <1>2. \A u \in Threads \ {t} : pc'[u] = pc[u]
    BY KeepsOrDrops
  <1> USE DEF poolVars, threadVars, streamVars, Goto, Leave, Borrow, DoomInv
  <1>3. CASE CloseDone(t) \/ Close(t) \/ \E c \in Conns : CloseOne(t, c)
    BY <1>1, <1>2, <1>3 DEF CloseDone, Close, CloseOne, TypeOK
  <1>4. CASE ~(CloseDone(t) \/ Close(t) \/ \E c \in Conns : CloseOne(t, c))
    <2>1. doomed' = doomed
      BY <1>4 DEF Quiet, Call, Expire, RefuseClosed, Wait, RaiseTimeout,
         Woken, TimedOut, FindUnusable, FindUsable, SendPing, PingAnswered,
         PingAnsweredWrongly, PingFailed, Discard, CloseDiscarded, ConnectFailed,
         InstallRefused, SweepPoisons, SendCommand, ReplyRead,
         CommandFailed, CloseReleased, ReleaseRejected,
         InterruptCommand, InterruptCheck, InterruptWait
    <2>2. pc[t] # "closing" \/ pc'[t] = pc[t]
      BY <1>4 DEF Quiet, Call, Expire, RefuseClosed, Wait, RaiseTimeout,
         Woken, TimedOut, FindUnusable, FindUsable, SendPing, PingAnswered,
         PingAnsweredWrongly, PingFailed, Discard, CloseDiscarded, ConnectFailed,
         InstallRefused, SweepPoisons, SendCommand, ReplyRead,
         CommandFailed, CloseReleased,
         InterruptCommand, InterruptCheck, InterruptWait
    <2> QED
      BY <1>2, <2>1, <2>2
  <1> QED
    BY <1>3, <1>4

\* A step that takes nothing off the pool's collections or a close()'s list
\* unless it closes it, and after which the connection that its thread was
\* passing on is closed or taken care of.
LEMMA KeepsTrack ==
  ASSUME TypeInv, TrackInv, NEW t \in Threads,
         \A c \in Conns : Connected(c)' => Connected(c),
         \A c \in IdleSet \cup inUse : Connected(c)' =>
            \/ c \in IdleSet' \cup inUse'
            \/ conn'[t] = c /\ pc'[t] \in Passing
            \/ \E u \in Threads : c \in doomed'[u],
         \A u \in Threads \ {t} : pc'[u] = pc[u] /\ conn'[u] = conn[u],
         \A u \in Threads, c \in Conns :
            c \in doomed[u] => c \in doomed'[u] \/ ~Connected(c)',
         pc[t] \in Passing =>
            \/ sock'[conn[t]] # "open" \/ conn[t] \in inUse'
            \/ pc'[t] \in Passing /\ conn'[t] = conn[t]
  PROVE  TrackInv'
  <1> SUFFICES ASSUME NEW c \in Conns, Connected(c)'
               PROVE  \/ c \in IdleSet' \cup inUse'
                      \/ \E u \in Threads : conn'[u] = c /\ pc'[u] \in Passing
                      \/ \E u \in Threads : c \in doomed'[u]
    BY DEF TrackInv
  <1>1. CASE c \in IdleSet \cup inUse
    BY <1>1
  <1>2. CASE \E u \in Threads : conn[u] = c /\ pc[u] \in Passing
    BY <1>2 DEF Connected
  <1>3. CASE \E u \in Threads : c \in doomed[u]
    BY <1>3
  <1> QED
    BY <1>1, <1>2, <1>3 DEF TrackInv

LEMMA QuietTrack ==
  ASSUME TypeInv, DoomInv, TrackInv, NEW t \in Threads, Quiet(t)
  PROVE  TrackInv'
  <1>1. TypeOK
    BY DEF TypeInv
  <1>2. IdleSet \subseteq Conns
    BY <1>1, LenProperties DEF IdleSet, TypeOK
  <1>3. \A u \in Threads \ {t} : pc'[u] = pc[u] /\ conn'[u] = conn[u]
    BY KeepsOrDrops
  <1> USE DEF poolVars, threadVars, streamVars, Goto, Leave, Borrow, CloseSocket,
              Connected, Passing
  <1>4. CASE \/ Call(t) \/ Expire(t) \/ RefuseClosed(t) \/ Wait(t) \/ RaiseTimeout(t)
             \/ Woken(t) \/ TimedOut(t) \/ CloseDone(t)
    <2>1. idle' = idle /\ inUse' = inUse /\ doomed' = doomed /\ sock' = sock
      BY <1>4 DEF Call, Expire, RefuseClosed, Wait, RaiseTimeout, Woken, TimedOut,
         CloseDone
    <2>2. pc[t] \in Passing => pc'[t] = pc[t] /\ conn'[t] = conn[t]
      BY <1>4 DEF Call, Expire, RefuseClosed, Wait, RaiseTimeout, Woken, TimedOut,
         CloseDone
    <2> QED
      BY <1>1, <1>3, <2>1, <2>2, SameIdle, KeepsTrack
  <1>5. CASE \/ FindUnusable(t) \/ FindUsable(t) \/ SendPing(t) \/ PingAnswered(t)
             \/ PingAnsweredWrongly(t) \/ PingFailed(t)
             \/ SendCommand(t) \/ ReplyRead(t) \/ CommandFailed(t)
             \/ InterruptCommand(t) \/ InterruptCheck(t) \/ InterruptWait(t)
             \/ \E c \in Conns : \/ SweepPoisons(t, c)
                                 \/ /\ ReleaseRejected(t, c) /\ UNCHANGED streamVars
                                    /\ pc[t] \in {"out", "hold", "unwind"}
    <2>1. idle' = idle /\ inUse' = inUse /\ doomed' = doomed /\ sock' = sock
      BY <1>5 DEF FindUnusable, FindUsable, SendPing, PingAnswered,
         PingAnsweredWrongly, PingFailed, SendCommand, ReplyRead, CommandFailed,
         InterruptCommand, InterruptCheck, InterruptWait, SweepPoisons, ReleaseRejected
    <2>2. pc[t] \notin Passing
      BY <1>5 DEF FindUnusable, FindUsable, SendPing, PingAnswered,
         PingAnsweredWrongly, PingFailed, SendCommand, ReplyRead, CommandFailed,
         InterruptCommand, InterruptCheck, InterruptWait, SweepPoisons
    <2> QED
      BY <1>1, <1>3, <2>1, <2>2, SameIdle, KeepsTrack
  <1>6. CASE Discard(t)
    <2>1. /\ idle' = idle /\ inUse' = inUse \ {conn[t]} /\ doomed' = doomed
          /\ sock' = sock /\ conn' = conn /\ pc[t] = "discard"
          /\ pc' = [pc EXCEPT ![t] = "discarded"]
      BY <1>6 DEF Discard
    <2>2. pc'[t] = "discarded"
      BY <1>1, <2>1 DEF TypeOK
    <2> QED
      BY <1>1, <1>3, <2>1, <2>2, SameIdle, KeepsTrack
  <1>7. CASE CloseDiscarded(t) \/ CloseReleased(t) \/ InstallRefused(t)
    <2>1. /\ idle' = idle /\ inUse' = inUse /\ doomed' = doomed
          /\ sock' = [sock EXCEPT ![conn[t]] = "closed"] /\ pc[t] \in Passing
      BY <1>7 DEF CloseDiscarded, CloseReleased, InstallRefused
    <2>2. conn[t] \in Conns
      BY <2>1 DEF TypeInv, HandsFull, Holding
    <2>3. sock'[conn[t]] # "open" /\ \A c \in Conns : Connected(c)' => Connected(c)
      BY <1>1, <2>1, <2>2 DEF TypeOK
    <2> QED
      BY <1>1, <1>3, <2>1, <2>3, SameIdle, KeepsTrack
  <1>8. CASE ConnectFailed(t)
    <2>1. /\ idle' = idle /\ inUse' = inUse /\ doomed' = doomed
          /\ sock' = sock /\ pc[t] = "opening"
      BY <1>8 DEF ConnectFailed
    <2> QED
      BY <1>1, <1>3, <2>1, SameIdle, KeepsTrack
  <1>9. ASSUME NEW c \in Conns, CloseOne(t, c) PROVE TrackInv'
    <2>1. /\ idle' = idle /\ inUse' = inUse /\ pc' = pc /\ conn' = conn
          /\ doomed' = [doomed EXCEPT ![t] = @ \ {c}]
          /\ sock' = [sock EXCEPT ![c] = "closed"] /\ pc[t] = "closing"
      BY <1>9 DEF CloseOne
    <2>2. ~Connected(c)' /\ \A d \in Conns : Connected(d)' => Connected(d)
      BY <1>1, <2>1 DEF TypeOK
    <2>3. \A u \in Threads, d \in Conns :
             d \in doomed[u] => d \in doomed'[u] \/ ~Connected(d)'
      BY <1>1, <2>1, <2>2 DEF TypeOK
    <2> QED
      BY <1>1, <1>3, <2>1, <2>2, <2>3, SameIdle, KeepsTrack
  <1>10. CASE Close(t)
    <2>1. /\ doomed' = [doomed EXCEPT ![t] = IdleSet \cup inUse]
          /\ sock' = sock /\ conn' = conn /\ pc[t] = "out"
      BY <1>10 DEF Close
    <2>2. \A c \in IdleSet \cup inUse : c \in doomed'[t]
      BY <1>1, <2>1 DEF TypeOK
    <2>3. ASSUME NEW c \in Conns, Connected(c)'
          PROVE  \/ \E u \in Threads : conn'[u] = c /\ pc'[u] \in Passing
                 \/ \E u \in Threads : c \in doomed'[u]
      <3>1. CASE c \in IdleSet \cup inUse
        BY <2>2, <3>1
      <3>2. CASE \E u \in Threads : conn[u] = c /\ pc[u] \in Passing
        BY <1>3, <2>1, <3>2
      <3>3. ASSUME NEW u \in Threads, c \in doomed[u], u # t
            PROVE  c \in doomed'[u]
        BY <1>1, <2>1, <3>3 DEF TypeOK
      <3> QED
        BY <2>1, <2>3, <3>1, <3>2, <3>3 DEF TrackInv, DoomInv
    <2> QED
      BY <2>3 DEF TrackInv
  <1> QED
    BY <1>4, <1>5, <1>6, <1>7, <1>8, <1>9, <1>10 DEF Quiet

LEMMA InitTrack == Init => DoomInv /\ TrackInv
  BY DEF Init, DoomInv, TrackInv, Connected

LEMMA NextTrack ==
  TypeInv /\ FreshInv /\ DoomInv /\ TrackInv /\ [Next]_vars => DoomInv' /\ TrackInv'
  <1> SUFFICES ASSUME TypeInv, FreshInv, DoomInv, TrackInv, [Next]_vars
               PROVE  DoomInv' /\ TrackInv'
    OBVIOUS
  <1>1. TypeOK
    BY DEF TypeInv
  <1>2. CASE UNCHANGED AllVars
    BY <1>2 DEF AllVars, DoomInv, TrackInv, Connected, IdleSet
  <1>3. ASSUME NEW t \in Threads, TakeIdle(t) PROVE DoomInv' /\ TrackInv'
    <2>1. /\ inUse' = inUse \cup {Head(idle)} /\ doomed' = doomed /\ sock' = sock
          /\ conn' = [conn EXCEPT ![t] = Head(idle)] /\ pc[t] = "acquire"
          /\ pc' = [pc EXCEPT ![t] = "check"]
      BY <1>3 DEF TakeIdle, Goto, streamVars
    <2>2. IdleSet' = IdleSet \ {Head(idle)}
      BY <1>1, <1>3, TailOfIdle DEF TakeIdle, FreshInv, TypeOK
    <2>3. \A u \in Threads \ {t} : pc'[u] = pc[u] /\ conn'[u] = conn[u]
      BY <2>1, <1>1, OthersStay
    <2>4. TrackInv'
      BY <2>1, <2>2, <2>3, KeepsTrack DEF Connected, Passing
    <2>5. DoomInv'
      BY <2>1, <2>3 DEF DoomInv
    <2> QED
      BY <2>4, <2>5
  <1>4. ASSUME NEW t \in Threads, Reserve(t) PROVE DoomInv' /\ TrackInv'
    <2>1. /\ idle' = idle /\ inUse' = inUse /\ doomed' = doomed /\ sock' = sock
          /\ conn' = conn /\ pc[t] = "acquire" /\ pc' = [pc EXCEPT ![t] = "opening"]
      BY <1>4 DEF Reserve, Goto, streamVars
    <2>2. \A u \in Threads \ {t} : pc'[u] = pc[u] /\ conn'[u] = conn[u]
      BY <2>1, <1>1, OthersStay
    <2>3. TrackInv'
      BY <2>1, <2>2, SameIdle, KeepsTrack DEF Connected, Passing
    <2>4. DoomInv'
      BY <2>1, <2>2 DEF DoomInv
    <2> QED
      BY <2>3, <2>4
  <1>5. ASSUME NEW t \in Threads, Install(t) PROVE DoomInv' /\ TrackInv'
    <2>1. /\ idle' = idle /\ inUse' = inUse \cup {conn[t]} /\ doomed' = doomed
          /\ sock' = sock /\ conn' = conn /\ pc[t] = "opened"
          /\ pc' = [pc EXCEPT ![t] = "hold"]
      BY <1>5 DEF Install, Borrow, Goto, streamVars
    <2>2. \A u \in Threads \ {t} : pc'[u] = pc[u] /\ conn'[u] = conn[u]
      BY <2>1, <1>1, OthersStay
    <2>3. TrackInv'
      BY <2>1, <2>2, SameIdle, KeepsTrack DEF Connected, Passing
    <2>4. DoomInv'
      BY <2>1, <2>2 DEF DoomInv
    <2> QED
      BY <2>3, <2>4
  <1>6. ASSUME NEW t \in Threads, NEW c \in Conns, ConnectOk(t, c)
        PROVE  DoomInv' /\ TrackInv'
    <2>1. /\ idle' = idle /\ inUse' = inUse /\ doomed' = doomed
          /\ sock' = [sock EXCEPT ![c] = "open"] /\ pc[t] = "opening"
          /\ conn' = [conn EXCEPT ![t] = c] /\ pc' = [pc EXCEPT ![t] = "opened"]
      BY <1>6 DEF ConnectOk, Goto, poolVars
    <2>2. \A u \in Threads \ {t} : pc'[u] = pc[u] /\ conn'[u] = conn[u]
      BY <2>1, <1>1, OthersStay
    <2>3. /\ pc'[t] = "opened" /\ conn'[t] = c
          /\ \A d \in Conns \ {c} : Connected(d)' => Connected(d)
      BY <2>1, <1>1 DEF TypeOK, Connected
    <2>4. pc[t] \notin Passing /\ pc'[t] \in Passing
      BY <2>1, <2>3 DEF Passing
    <2>5. TrackInv'
      BY <2>1, <2>2, <2>3, <2>4, SameIdle DEF TrackInv
    <2>6. DoomInv'
      BY <2>1, <2>2 DEF DoomInv
    <2> QED
      BY <2>5, <2>6
  <1>7. ASSUME NEW t \in Threads, NEW c \in Conns, pc[t] \in {"out", "hold", "unwind"},
               ReleaseKeeps(t, c), UNCHANGED streamVars
        PROVE  DoomInv' /\ TrackInv'
    <2>1. /\ c \in inUse /\ idle' = Append(idle, c) /\ inUse' = inUse \ {c}
          /\ doomed' = doomed /\ sock' = sock
          /\ conn' = [conn EXCEPT ![t] = NoConn] /\ pc' = [pc EXCEPT ![t] = "out"]
      BY <1>7 DEF ReleaseKeeps, Leave, Goto, streamVars
    <2>2. IdleSet' = IdleSet \cup {c}
      BY <1>1, <2>1, AppendToIdle DEF FreshInv, TypeOK
    <2>3. \A u \in Threads \ {t} : pc'[u] = pc[u] /\ conn'[u] = conn[u]
      BY <2>1, <1>1, OthersStay
    <2>4. TrackInv'
      BY <1>7, <2>1, <2>2, <2>3, KeepsTrack DEF Connected, Passing
    <2>5. DoomInv'
      BY <1>7, <2>1, <2>3 DEF DoomInv
    <2> QED
      BY <2>4, <2>5
  <1>8. ASSUME NEW t \in Threads, NEW c \in Conns, pc[t] \in {"out", "hold", "unwind"},
               ReleaseDiscards(t, c), UNCHANGED streamVars
        PROVE  DoomInv' /\ TrackInv'
    <2>1. /\ idle' = idle /\ inUse' = inUse \ {c} /\ doomed' = doomed /\ sock' = sock
          /\ conn' = [conn EXCEPT ![t] = c] /\ pc' = [pc EXCEPT ![t] = "released"]
      BY <1>8 DEF ReleaseDiscards, Goto, streamVars
    <2>2. \A u \in Threads \ {t} : pc'[u] = pc[u] /\ conn'[u] = conn[u]
      BY <2>1, <1>1, OthersStay
    <2>3. pc'[t] = "released" /\ conn'[t] = c
      BY <2>1, <1>1 DEF TypeOK
    <2>4. TrackInv'
      BY <1>8, <2>1, <2>2, <2>3, SameIdle, KeepsTrack DEF Connected, Passing
    <2>5. DoomInv'
      BY <1>8, <2>1, <2>2 DEF DoomInv
    <2> QED
      BY <2>4, <2>5
  <1> QED
    BY <1>2, <1>3, <1>4, <1>5, <1>6, <1>7, <1>8, NextCases, QuietDoom, QuietTrack

\* No open socket is ever forgotten, whatever threads release and wherever an
\* interrupt hits: the pool tracks it, a thread is about to install or close it,
\* or a close() in progress has it listed.
THEOREM SocketsTracked == Spec => []OpenSocketsTracked
  <1>1. TrackInv => OpenSocketsTracked
    BY DEF TrackInv, OpenSocketsTracked, Passing, Holding
  <1> QED
    BY <1>1, InitTypeInv, InitFresh, InitTrack, NextTypeInv, NextFresh, NextTrack, PTL
    DEF Spec

-----------------------------------------------------------------------------
\* Replies asked for and not read.  While the connection is still usable, the
\* thread that asked is waiting for the answer; every other way out of a command
\* poisons the connection or has read the reply.

ReplyInv ==
    \A c \in residue :
        /\ sock[c] # "new"
        /\ Usable(c) => \E t \in Threads : conn[t] = c /\ pc[t] \in {"ping", "inflight"}

\* A step that asks for nothing, and whose thread, if it was waiting for a reply,
\* still waits for it, has read it or has made the connection unusable.
LEMMA KeepsReplies ==
  ASSUME TypeInv, ReplyInv, NEW t \in Threads,
         residue' \subseteq residue,
         \A c \in Conns : sock[c] # "new" => sock'[c] # "new",
         \A c \in Conns : Usable(c)' => Usable(c),
         \A u \in Threads \ {t} : pc'[u] = pc[u] /\ conn'[u] = conn[u],
         pc[t] \in {"ping", "inflight"} =>
            \/ pc'[t] = pc[t] /\ conn'[t] = conn[t]
            \/ conn[t] \notin residue'
            \/ conn[t] \in poisoned'
  PROVE  ReplyInv'
  <1> SUFFICES ASSUME NEW c \in residue', Usable(c)'
               PROVE  \E u \in Threads : conn'[u] = c /\ pc'[u] \in {"ping", "inflight"}
    BY DEF ReplyInv, TypeInv, TypeOK
  <1>1. c \in Conns /\ c \in residue /\ Usable(c) /\ c \notin poisoned'
    BY DEF TypeInv, TypeOK, Usable
  <1>2. PICK u \in Threads : conn[u] = c /\ pc[u] \in {"ping", "inflight"}
    BY <1>1 DEF ReplyInv
  <1> QED
    BY <1>1, <1>2

\* The thread asks for a reply: SendPing and SendCommand.
LEMMA AsksForReply ==
  ASSUME TypeInv, ReplyInv, NEW t \in Threads, SendPing(t) \/ SendCommand(t)
  PROVE  ReplyInv'
  <1>1. /\ residue' = residue \cup {conn[t]} /\ conn' = conn
        /\ sock' = sock /\ poisoned' = poisoned /\ pc[t] \in {"check", "hold"}
        /\ pc' = [pc EXCEPT ![t] = IF SendPing(t) THEN "ping" ELSE "inflight"]
    BY DEF SendPing, SendCommand, Goto
  <1>2. \A u \in Threads \ {t} : pc'[u] = pc[u]
    BY <1>1 DEF TypeInv, TypeOK
  <1>3. pc'[t] \in {"ping", "inflight"}
    BY <1>1 DEF TypeInv, TypeOK
  <1>4. conn[t] \in Conns /\ sock[conn[t]] = "open"
    BY <1>1 DEF SendPing, SendCommand, Usable, Connected, TypeInv, HandsFull, Holding, Lent
  <1> QED
    BY <1>1, <1>2, <1>3, <1>4 DEF ReplyInv, Usable, Connected

LEMMA QuietReplies ==
  ASSUME TypeInv, ReplyInv, ~Interrupts, NEW t \in Threads, Quiet(t)
  PROVE  ReplyInv'
  <1>1. TypeOK
    BY DEF TypeInv
  <1>2. /\ \A u \in Threads \ {t} : pc'[u] = pc[u] /\ conn'[u] = conn[u]
        /\ \A c \in Conns : sock[c] # "new" => sock'[c] # "new"
    BY KeepsOrDrops
  <1> USE DEF poolVars, threadVars, streamVars, Goto, Leave, Borrow, CloseSocket,
              Connected, Usable
  <1>3. CASE SendPing(t) \/ SendCommand(t)
    BY <1>3, AsksForReply
  <1>4. CASE PingAnswered(t) \/ PingAnsweredWrongly(t) \/ ReplyRead(t)
    <2>1. residue' = residue \ {conn[t]} /\ sock' = sock /\ poisoned' = poisoned
      BY <1>4 DEF PingAnswered, PingAnsweredWrongly, ReplyRead
    <2> QED
      BY <1>2, <2>1, KeepsReplies
  <1>5. CASE PingFailed(t) \/ CommandFailed(t)
    <2>1. residue' = residue /\ sock' = sock /\ poisoned' = poisoned \cup {conn[t]}
      BY <1>5 DEF PingFailed, CommandFailed
    <2> QED
      BY <1>2, <2>1, KeepsReplies
  <1>6. CASE Expire(t) \/ \E c \in Conns : SweepPoisons(t, c) \/ CloseOne(t, c)
    <2>1. /\ residue' = residue /\ pc' = pc /\ conn' = conn
          /\ \A c \in Conns : Usable(c)' => Usable(c)
      BY <1>1, <1>6 DEF Expire, SweepPoisons, CloseOne, TypeOK
    <2> QED
      BY <1>2, <2>1, KeepsReplies
  <1>7. CASE \/ Call(t) \/ RefuseClosed(t) \/ Wait(t) \/ RaiseTimeout(t)
             \/ Woken(t) \/ TimedOut(t) \/ FindUnusable(t) \/ FindUsable(t)
             \/ Discard(t) \/ CloseDiscarded(t) \/ ConnectFailed(t) \/ InstallRefused(t)
             \/ CloseReleased(t) \/ Close(t) \/ CloseDone(t)
             \/ \E c \in Conns : /\ ReleaseRejected(t, c) /\ UNCHANGED streamVars
                                 /\ pc[t] \in {"out", "hold", "unwind"}
    <2>1. residue' = residue /\ poisoned' = poisoned
      BY <1>7 DEF Call, RefuseClosed, Wait, RaiseTimeout, Woken, TimedOut,
         FindUnusable, FindUsable, Discard, CloseDiscarded, ConnectFailed,
         InstallRefused, CloseReleased, Close, CloseDone
    <2>2. \A c \in Conns : sock'[c] = "open" => sock[c] = "open"
      BY <1>1, <1>7 DEF Call, RefuseClosed, Wait, RaiseTimeout, Woken, TimedOut,
         FindUnusable, FindUsable, Discard, CloseDiscarded, ConnectFailed,
         InstallRefused, CloseReleased, Close, CloseDone, TypeOK
    <2>3. pc[t] \notin {"ping", "inflight"}
      BY <1>7 DEF Call, RefuseClosed, Wait, RaiseTimeout, Woken, TimedOut,
         FindUnusable, FindUsable, Discard, CloseDiscarded, ConnectFailed,
         InstallRefused, CloseReleased, Close, CloseDone
    <2> QED
      BY <1>2, <2>1, <2>2, <2>3, KeepsReplies
  <1>8. ~(InterruptCommand(t) \/ InterruptCheck(t) \/ InterruptWait(t))
    BY DEF InterruptCommand, InterruptCheck, InterruptWait
  <1> QED
    BY <1>3, <1>4, <1>5, <1>6, <1>7, <1>8 DEF Quiet

LEMMA NextReplies ==
  ASSUME ~Interrupts
  PROVE  TypeInv /\ FreshInv /\ ReplyInv /\ [Next]_vars => ReplyInv'
  <1> SUFFICES ASSUME TypeInv, FreshInv, ReplyInv, [Next]_vars PROVE ReplyInv'
    OBVIOUS
  <1>1. TypeOK
    BY DEF TypeInv
  <1> USE DEF Goto, Leave, Borrow, poolVars, streamVars
  <1>2. CASE UNCHANGED AllVars
    BY <1>2 DEF AllVars, ReplyInv, Usable, Connected
  <1>3. ASSUME NEW t \in Threads, TakeIdle(t) \/ Reserve(t) \/ Install(t) PROVE ReplyInv'
    <2>1. /\ UNCHANGED streamVars /\ pc[t] \notin {"ping", "inflight"}
          /\ \E l : pc' = [pc EXCEPT ![t] = l]
          /\ conn' = conn \/ \E x : conn' = [conn EXCEPT ![t] = x]
      BY <1>3 DEF TakeIdle, Reserve, Install
    <2>2. \A u \in Threads \ {t} : pc'[u] = pc[u] /\ conn'[u] = conn[u]
      BY <2>1, <1>1, OthersStay
    <2> QED
      BY <2>1, <2>2, KeepsReplies DEF Usable, Connected
  <1>4. ASSUME NEW t \in Threads, NEW c \in Conns, ConnectOk(t, c) PROVE ReplyInv'
    <2>1. /\ residue' = residue /\ poisoned' = poisoned /\ pc[t] = "opening"
          /\ sock[c] = "new" /\ sock' = [sock EXCEPT ![c] = "open"]
          /\ pc' = [pc EXCEPT ![t] = "opened"] /\ conn' = [conn EXCEPT ![t] = c]
      BY <1>4 DEF ConnectOk
    <2>2. \A u \in Threads \ {t} : pc'[u] = pc[u] /\ conn'[u] = conn[u]
      BY <2>1, <1>1, OthersStay
    <2> QED
      BY <1>1, <2>1, <2>2 DEF ReplyInv, Usable, Connected, TypeOK
  <1>5. ASSUME NEW t \in Threads, NEW c \in Conns, pc[t] \in {"out", "hold", "unwind"},
               ReleaseKeeps(t, c) \/ ReleaseDiscards(t, c), UNCHANGED streamVars
        PROVE  ReplyInv'
    <2>1. /\ \E l : pc' = [pc EXCEPT ![t] = l]
          /\ \E x : conn' = [conn EXCEPT ![t] = x]
      BY <1>5 DEF ReleaseKeeps, ReleaseDiscards
    <2>2. \A u \in Threads \ {t} : pc'[u] = pc[u] /\ conn'[u] = conn[u]
      BY <2>1, <1>1, OthersStay
    <2> QED
      BY <1>5, <2>2, KeepsReplies DEF Usable, Connected
  <1> QED
    BY <1>2, <1>3, <1>4, <1>5, NextCases, QuietReplies

\* Whenever a usable connection has an unread reply on its way, exactly the thread
\* that asked for it has the connection: it is not idle, and no borrower that is
\* about to send, nor a check that is about to look, finds it.
THEOREM RepliesStayOwn ==
  ASSUME ~Interrupts, ~StrayReleases
  PROVE  Spec => []NoCrossTalk
  <1>1. Init => ReplyInv
    BY DEF Init, ReplyInv
  <1>2. ExclusiveLending /\ ReplyInv /\ TypeInv => NoCrossTalk
    <2> SUFFICES ASSUME ExclusiveLending, ReplyInv, TypeInv, NEW c \in residue, Usable(c)
                 PROVE  /\ c \notin IdleSet
                        /\ \A t \in Threads : pc[t] \in {"check", "hold"} => conn[t] # c
      BY DEF NoCrossTalk
    <2>1. PICK u \in Threads : conn[u] = c /\ pc[u] \in {"ping", "inflight"}
      BY DEF ReplyInv
    <2> QED
      BY <2>1 DEF ExclusiveLending, Holding, Lent
  <1> QED
    BY <1>1, <1>2, LendingExclusive, InitTypeInv, InitFresh, NextTypeInv, NextFresh,
       NextReplies, PTL
    DEF Spec

-----------------------------------------------------------------------------
\* Lent connections.  LendInv says that what a borrower has is in _in_use; the
\* other direction is that nothing stays in _in_use that no thread has.

LentInv ==
    ~closed => \A c \in inUse : \E t \in Threads : conn[t] = c /\ pc[t] \in Lent

\* A step that lends nothing, and whose thread keeps the connection it has or
\* takes it out of _in_use.
LEMMA KeepsLent ==
  ASSUME LentInv, NEW t \in Threads,
         ~closed' => ~closed, ~closed' => inUse' \subseteq inUse,
         \A u \in Threads \ {t} : pc'[u] = pc[u] /\ conn'[u] = conn[u],
         pc[t] \in Lent =>
            \/ pc'[t] \in Lent /\ conn'[t] = conn[t]
            \/ closed' \/ conn[t] \notin inUse'
  PROVE  LentInv'
  BY DEF LentInv

LEMMA QuietLent ==
  ASSUME TypeInv, LendInv, LentInv, ~Interrupts, NEW t \in Threads, Quiet(t)
  PROVE  LentInv'
  <1>1. TypeOK
    BY DEF TypeInv
  <1>2. \A u \in Threads \ {t} : pc'[u] = pc[u] /\ conn'[u] = conn[u]
    BY KeepsOrDrops
  <1>3. inUse' \subseteq inUse
    BY ShrinkingShrinks DEF Shrinking
  <1> USE DEF poolVars, threadVars, streamVars, Goto, Leave, Borrow, CloseSocket
  <1>4. CASE Discard(t)
    <2>1. inUse' = inUse \ {conn[t]} /\ closed' = closed
      BY <1>4 DEF Discard
    <2> QED
      BY <1>2, <2>1, KeepsLent
  <1>5. CASE Close(t)
    BY <1>5 DEF Close, LentInv
  <1>6. CASE \E c \in Conns : /\ ReleaseRejected(t, c)
                              /\ pc[t] \in {"hold", "unwind"} /\ c = conn[t]
    <2>1. closed' = closed /\ (closed \/ conn[t] \notin inUse)
      BY <1>6 DEF ReleaseRejected, LendInv, Lent
    <2> QED
      BY <1>2, <1>3, <2>1, KeepsLent
  <1>7. CASE Expire(t) \/ \E c \in Conns : SweepPoisons(t, c) \/ CloseOne(t, c)
    <2>1. pc' = pc /\ conn' = conn /\ closed' = closed
      BY <1>7 DEF Expire, SweepPoisons, CloseOne
    <2> QED
      BY <1>2, <1>3, <2>1, KeepsLent
  <1>8. CASE \/ FindUnusable(t) \/ FindUsable(t) \/ SendPing(t) \/ PingAnswered(t)
             \/ PingAnsweredWrongly(t) \/ PingFailed(t)
             \/ SendCommand(t) \/ ReplyRead(t) \/ CommandFailed(t)
    <2>1. closed' = closed /\ conn' = conn
      BY <1>8 DEF FindUnusable, FindUsable, SendPing, PingAnswered,
         PingAnsweredWrongly, PingFailed, SendCommand, ReplyRead, CommandFailed
    <2>2. pc'[t] \in Lent
      BY <1>1, <1>8 DEF FindUnusable, FindUsable, SendPing, PingAnswered,
         PingAnsweredWrongly, PingFailed, SendCommand, ReplyRead, CommandFailed, TypeOK,
         Lent
    <2> QED
      BY <1>2, <1>3, <2>1, <2>2, KeepsLent
  <1>9. CASE \/ Call(t) \/ RefuseClosed(t) \/ Wait(t) \/ RaiseTimeout(t)
             \/ Woken(t) \/ TimedOut(t) \/ CloseDiscarded(t) \/ ConnectFailed(t)
             \/ InstallRefused(t) \/ CloseReleased(t) \/ CloseDone(t)
             \/ \E c \in Conns : ReleaseRejected(t, c) /\ pc[t] = "out"
    <2>1. closed' = closed
      BY <1>9 DEF Call, RefuseClosed, Wait, RaiseTimeout, Woken, TimedOut,
         CloseDiscarded, ConnectFailed, InstallRefused, CloseReleased, CloseDone,
         ReleaseRejected
    <2>2. pc[t] \notin Lent
      BY <1>9 DEF Call, RefuseClosed, Wait, RaiseTimeout, Woken, TimedOut,
         CloseDiscarded, ConnectFailed, InstallRefused, CloseReleased, CloseDone, Lent
    <2> QED
      BY <1>2, <1>3, <2>1, <2>2, KeepsLent
  <1>10. ~(InterruptCommand(t) \/ InterruptCheck(t) \/ InterruptWait(t))
    BY DEF InterruptCommand, InterruptCheck, InterruptWait
  <1> QED
    BY <1>4, <1>5, <1>6, <1>7, <1>8, <1>9, <1>10 DEF Quiet

LEMMA NextLent ==
  ASSUME ~Interrupts, ~StrayReleases
  PROVE  TypeInv /\ FreshInv /\ LendInv /\ LentInv /\ [Next]_vars => LentInv'
  <1> SUFFICES ASSUME TypeInv, FreshInv, LendInv, LentInv, [Next]_vars PROVE LentInv'
    OBVIOUS
  <1>1. TypeOK
    BY DEF TypeInv
  <1>2. CASE UNCHANGED AllVars
    BY <1>2 DEF AllVars, LentInv
  <1>3. ASSUME NEW t \in Threads, TakeIdle(t) PROVE LentInv'
    <2>1. /\ inUse' = inUse \cup {Head(idle)} /\ closed' = closed /\ pc[t] = "acquire"
          /\ conn' = [conn EXCEPT ![t] = Head(idle)] /\ pc' = [pc EXCEPT ![t] = "check"]
      BY <1>3 DEF TakeIdle, Goto
    <2>2. \A u \in Threads \ {t} : pc'[u] = pc[u] /\ conn'[u] = conn[u]
      BY <2>1, <1>1, OthersStay
    <2>3. pc'[t] \in Lent /\ conn'[t] = Head(idle) /\ pc[t] \notin Lent
      BY <2>1, <1>1 DEF TypeOK, Lent
    <2> QED
      BY <2>1, <2>2, <2>3 DEF LentInv
  <1>4. ASSUME NEW t \in Threads, Reserve(t) \/ \E c \in Conns : ConnectOk(t, c)
        PROVE  LentInv'
    <2>1. /\ inUse' = inUse /\ closed' = closed /\ pc[t] \in {"acquire", "opening"}
          /\ \E l : pc' = [pc EXCEPT ![t] = l]
          /\ conn' = conn \/ \E x : conn' = [conn EXCEPT ![t] = x]
      BY <1>4 DEF Reserve, ConnectOk, Goto, poolVars
    <2>2. \A u \in Threads \ {t} : pc'[u] = pc[u] /\ conn'[u] = conn[u]
      BY <2>1, <1>1, OthersStay
    <2> QED
      BY <2>1, <2>2, KeepsLent DEF Lent
  <1>5. ASSUME NEW t \in Threads, Install(t) PROVE LentInv'
    <2>1. /\ inUse' = inUse \cup {conn[t]} /\ closed' = closed /\ pc[t] = "opened"
          /\ conn' = conn /\ pc' = [pc EXCEPT ![t] = "hold"]
      BY <1>5 DEF Install, Borrow, Goto
    <2>2. \A u \in Threads \ {t} : pc'[u] = pc[u] /\ conn'[u] = conn[u]
      BY <2>1, <1>1, OthersStay
    <2>3. pc'[t] \in Lent /\ pc[t] \notin Lent
      BY <2>1, <1>1 DEF TypeOK, Lent
    <2> QED
      BY <2>1, <2>2, <2>3 DEF LentInv
  <1>6. ASSUME NEW t \in Threads, pc[t] \in {"hold", "unwind"},
               ReleaseKeeps(t, conn[t]) \/ ReleaseDiscards(t, conn[t])
        PROVE  LentInv'
    <2>1. /\ inUse' = inUse \ {conn[t]} /\ closed' = closed
          /\ \E l : pc' = [pc EXCEPT ![t] = l]
          /\ \E x : conn' = [conn EXCEPT ![t] = x]
      BY <1>6 DEF ReleaseKeeps, ReleaseDiscards, Leave, Goto
    <2>2. \A u \in Threads \ {t} : pc'[u] = pc[u] /\ conn'[u] = conn[u]
      BY <2>1, <1>1, OthersStay
    <2> QED
      BY <2>1, <2>2, KeepsLent
  <1> QED
    BY <1>2, <1>3, <1>4, <1>5, <1>6, NextCases, QuietLent

\* Every slot that counts against the limit is some thread's business: _reserved
\* counts the threads that are opening a connection, and _in_use is exactly what
\* threads have, however opening, checking or closing ends.
THEOREM SlotsCorrect ==
  ASSUME ~Interrupts, ~StrayReleases
  PROVE  Spec => []SlotsAccounted
  <1>1. Init => LentInv
    BY DEF Init, LentInv
  <1>2. LentInv /\ LendInv => LentExact
    BY DEF LentInv, LendInv, LentExact
  <1> QED
    BY <1>1, <1>2, NextLent, LendInvariant, ReservationsCorrect, PTL
    DEF Spec, SlotsAccounted

-----------------------------------------------------------------------------
\* Wakeups.  The deque holds distinct waiting threads, and none once the pool is
\* closed, so a notify() always sets one more thread on its way.

QueueSet == {waiters[i] : i \in 1..Len(waiters)}

QueueInv ==
    /\ closed => waiters = <<>>
    /\ \A u \in QueueSet : u \in Threads /\ pc[u] = "waiting"
    /\ \A i, j \in 1..Len(waiters) : waiters[i] = waiters[j] => i = j

WakeInv == QueueInv /\ NoLostWakeup

\* The slots that are neither lent nor being filled: NoLostWakeup bounds them.
Spare == MaxConnections - Cardinality(inUse) - reserved

LEMMA AwakeSet ==
  /\ Awake = {u \in Threads : pc[u] = "acquire" \/ (pc[u] = "waiting" /\ u \notin QueueSet)}
  /\ Awake' = {u \in Threads :
                 pc'[u] = "acquire" \/ (pc'[u] = "waiting" /\ u \notin QueueSet')}
  BY DEF Awake, Queued, QueueSet

LEMMA AwakeFinite ==
  /\ IsFiniteSet(Awake) /\ Cardinality(Awake) \in Nat
  /\ IsFiniteSet(Awake') /\ Cardinality(Awake') \in Nat
  <1>1. Awake \in SUBSET Threads /\ Awake' \in SUBSET Threads
    BY AwakeSet
  <1> QED
    BY <1>1, ThreadsAssumption, FS_Subset, FS_CardinalityType

LEMMA SpareType ==
  ASSUME TypeOK, TypeOK'
  PROVE  Spare \in Int /\ Spare' \in Int
  <1>1. inUse' \in SUBSET Conns
    BY DEF TypeOK
  <1>2. Cardinality(inUse') \in Nat
    BY <1>1, ConnsAssumption, FS_Subset, FS_CardinalityType
  <1> QED
    BY <1>2, InUseFinite, MaxConnectionsAssumption DEF TypeOK, Spare

\* notify() removes one thread, which was waiting and now is on its way.
LEMMA NotifyQueue ==
  ASSUME waiters \in Seq(Threads), QueueInv, waiters # <<>>, Notify
  PROVE  \E u \in QueueSet :
            /\ QueueSet' = QueueSet \ {u}
            /\ \A i, j \in 1..Len(waiters') : waiters'[i] = waiters'[j] => i = j
  <1>1. /\ Len(waiters) \in Nat /\ Len(waiters) >= 1
        /\ Len(waiters') = Len(waiters) - 1
        /\ \A i \in 1..Len(waiters') : waiters'[i] = waiters[i + 1]
    BY HeadTailProperties, LenProperties, EmptySeq DEF Notify
  <1>2. waiters[1] \in QueueSet
    BY <1>1 DEF QueueSet
  <1>3. \A i, j \in 1..Len(waiters') : waiters'[i] = waiters'[j] => i = j
    BY <1>1 DEF QueueInv
  <1>4. ASSUME NEW i \in 1..Len(waiters')
        PROVE  waiters'[i] \in QueueSet \ {waiters[1]}
    BY <1>1, <1>4 DEF QueueSet, QueueInv
  <1>5. ASSUME NEW i \in 1..Len(waiters), waiters[i] # waiters[1]
        PROVE  waiters[i] \in QueueSet'
    <2>1. i - 1 \in 1..Len(waiters') /\ waiters'[i - 1] = waiters[i]
      BY <1>1, <1>5
    <2> QED
      BY <2>1 DEF QueueSet
  <1>6. QueueSet' = QueueSet \ {waiters[1]}
    BY <1>4, <1>5 DEF QueueSet
  <1> QED
    BY <1>2, <1>3, <1>6

\* A waiter whose time is up removes exactly itself.
LEMMA LeaveQueueQueue ==
  ASSUME waiters \in Seq(Threads), QueueInv, NEW t, LeaveQueue(t)
  PROVE  /\ t \in QueueSet
         /\ QueueSet' = QueueSet \ {t}
         /\ \A i, j \in 1..Len(waiters') : waiters'[i] = waiters'[j] => i = j
  <1>1. PICK k \in 1..Len(waiters) :
             /\ waiters[k] = t
             /\ waiters' = SubSeq(waiters, 1, k - 1)
                             \o SubSeq(waiters, k + 1, Len(waiters))
    BY DEF LeaveQueue
  <1>2. Len(waiters) \in Nat
    BY LenProperties
  <1> DEFINE front == SubSeq(waiters, 1, k - 1)
             back == SubSeq(waiters, k + 1, Len(waiters))
  <1>3. /\ front \in Seq(Threads) /\ Len(front) = k - 1
        /\ \A i \in 1..(k - 1) : front[i] = waiters[i]
    <2>1. \A i \in 1..(k - 1) : waiters[i] \in Threads
      BY <1>2, LenProperties
    <2>2. 1 \in Int /\ k - 1 \in Int
      BY <1>2
    <2> QED
      BY <1>2, <2>1, <2>2, SubSeqProperties
  <1>4. /\ back \in Seq(Threads) /\ Len(back) = Len(waiters) - k
        /\ \A i \in 1..(Len(waiters) - k) : back[i] = waiters[k + i]
    <2>1. \A i \in (k + 1)..Len(waiters) : waiters[i] \in Threads
      BY <1>2, LenProperties
    <2>2. k + 1 \in Int /\ Len(waiters) \in Int
      BY <1>2
    <2> QED
      BY <1>2, <2>1, <2>2, SubSeqProperties
  <1> HIDE DEF front, back
  <1>5. waiters' = front \o back
    BY <1>1 DEF front, back
  <1>6. /\ Len(waiters') = Len(waiters) - 1
        /\ \A i \in 1..(Len(waiters) - 1) :
              waiters'[i] = IF i <= k - 1 THEN waiters[i] ELSE waiters[i + 1]
    <2>1. /\ Len(waiters') = Len(front) + Len(back)
          /\ \A i \in 1..(Len(front) + Len(back)) :
                waiters'[i] = IF i <= Len(front) THEN front[i] ELSE back[i - Len(front)]
      BY <1>3, <1>4, <1>5, ConcatProperties
    <2> QED
      BY <1>2, <1>3, <1>4, <2>1
  <1>7. \A i, j \in 1..Len(waiters) : waiters[i] = waiters[j] => i = j
    BY DEF QueueInv
  <1>8. \A i, j \in 1..Len(waiters') : waiters'[i] = waiters'[j] => i = j
    BY <1>2, <1>6, <1>7
  <1>9. ASSUME NEW i \in 1..Len(waiters') PROVE waiters'[i] \in QueueSet \ {t}
    <2>1. PICK j \in 1..Len(waiters) : waiters'[i] = waiters[j] /\ j # k
      BY <1>2, <1>6
    <2> QED
      BY <1>1, <1>7, <2>1 DEF QueueSet
  <1>10. ASSUME NEW i \in 1..Len(waiters), waiters[i] # t
         PROVE  waiters[i] \in QueueSet'
    <2>1. CASE i < k
      BY <1>2, <1>6, <2>1 DEF QueueSet
    <2>2. CASE i > k
      <3>1. i - 1 \in 1..Len(waiters') /\ waiters'[i - 1] = waiters[i]
        BY <1>2, <1>6, <2>2
      <3> QED
        BY <3>1 DEF QueueSet
    <2>3. i # k
      BY <1>1, <1>10
    <2> QED
      BY <1>2, <2>1, <2>2, <2>3
  <1>11. QueueSet' = QueueSet \ {t}
    BY <1>9, <1>10 DEF QueueSet
  <1> QED
    BY <1>1, <1>8, <1>11 DEF QueueSet

\* A thread that starts to wait joins the end.
LEMMA JoinQueue ==
  ASSUME waiters \in Seq(Threads), QueueInv, NEW t \in Threads, t \notin QueueSet,
         waiters' = Append(waiters, t)
  PROVE  /\ QueueSet' = QueueSet \cup {t}
         /\ \A i, j \in 1..Len(waiters') : waiters'[i] = waiters'[j] => i = j
  <1>1. /\ Len(waiters) \in Nat
        /\ Len(waiters') = Len(waiters) + 1
        /\ \A i \in 1..Len(waiters) : waiters'[i] = waiters[i]
        /\ waiters'[Len(waiters) + 1] = t
    BY AppendProperties, LenProperties
  <1>2. \A i \in 1..Len(waiters) : waiters[i] # t
    BY DEF QueueSet
  <1>3. \A i, j \in 1..Len(waiters') : waiters'[i] = waiters'[j] => i = j
    BY <1>1, <1>2 DEF QueueInv
  <1>4. \A i \in 1..Len(waiters') : waiters'[i] \in QueueSet \cup {t}
    BY <1>1 DEF QueueSet
  <1>5. (\A i \in 1..Len(waiters) : waiters[i] \in QueueSet') /\ t \in QueueSet'
    BY <1>1 DEF QueueSet
  <1> QED
    BY <1>3, <1>4, <1>5 DEF QueueSet

\* The account of wakeups, in the ways a step can change it: nobody leaves and no
\* slot comes free; one thread leaves with a slot; a slot comes free and one more
\* thread is on its way.
LEMMA KeepsWakeups ==
  ASSUME TypeInv, TypeInv', NoLostWakeup, NEW n \in 0..1,
         waiters' # <<>> => waiters # <<>>,
         Spare' <= Spare - n,
         Cardinality(Awake) - n <= Cardinality(Awake')
  PROVE  NoLostWakeup'
  <1>1. Spare \in Int /\ Spare' \in Int
    BY SpareType DEF TypeInv
  <1>2. Cardinality(Awake) \in Nat
    BY AwakeFinite
  <1>3. Cardinality(Awake') \in Nat
    BY AwakeFinite
  <1> QED
    BY <1>1, <1>2, <1>3 DEF NoLostWakeup, Spare

LEMMA NoSpareLeft ==
  ASSUME TypeInv, TypeInv', Spare' <= 0
  PROVE  NoLostWakeup'
  <1>1. Spare' \in Int /\ Cardinality(Awake') \in Nat
    BY SpareType, AwakeFinite DEF TypeInv
  <1> QED
    BY <1>1 DEF NoLostWakeup, Spare

LEMMA NotifyWakes ==
  ASSUME TypeInv, TypeInv', NoLostWakeup, NEW u \in Threads \ Awake,
         waiters # <<>>, Spare' <= Spare + 1, Awake \cup {u} \subseteq Awake'
  PROVE  NoLostWakeup'
  <1>1. Spare \in Int /\ Spare' \in Int
    BY SpareType DEF TypeInv
  <1>2. Cardinality(Awake \cup {u}) = Cardinality(Awake) + 1
    BY AwakeFinite, FS_AddElement
  <1>3. IsFiniteSet(Awake') /\ Cardinality(Awake') \in Nat
    BY AwakeFinite
  <1>4. Cardinality(Awake \cup {u}) <= Cardinality(Awake')
    <2>1. (Awake \cup {u}) \in SUBSET (Awake')
      OBVIOUS
    <2> QED
      BY <1>3, <2>1, FS_Subset
  <1> QED
    BY <1>1, <1>2, <1>3, <1>4, AwakeFinite DEF NoLostWakeup, Spare

LEMMA AwakeGrows ==
  ASSUME NEW T \in SUBSET Threads, NEW t,
         T \subseteq Awake', T = Awake \/ T = Awake \ {t}
  PROVE  Cardinality(Awake) - (IF T = Awake THEN 0 ELSE 1) <= Cardinality(Awake')
  <1>1. IsFiniteSet(Awake') /\ Cardinality(Awake') \in Nat
    BY AwakeFinite
  <1>2. IsFiniteSet(T) /\ Cardinality(T) \in Nat
    BY ThreadsAssumption, FS_Subset, FS_CardinalityType
  <1>3. Cardinality(T) <= Cardinality(Awake')
    <2>1. T \in SUBSET (Awake')
      OBVIOUS
    <2> QED
      BY <1>1, <2>1, FS_Subset
  <1>4. Cardinality(T) >= Cardinality(Awake) - (IF T = Awake THEN 0 ELSE 1)
    BY <1>2, AwakeFinite, FS_RemoveElement
  <1> QED
    BY <1>1, <1>2, <1>3, <1>4, AwakeFinite

\* A step of a thread that leaves the deque alone.
LEMMA KeepsQueue ==
  ASSUME TypeOK, QueueInv, NEW t \in Threads,
         waiters' = waiters, closed' = closed,
         \A u \in Threads \ {t} : pc'[u] = pc[u],
         t \in QueueSet => pc'[t] = pc[t]
  PROVE  /\ QueueInv' /\ QueueSet' = QueueSet
         /\ Awake \ {t} \subseteq Awake'
         /\ (t \in Awake => t \in Awake') => Awake \subseteq Awake'
  <1>1. QueueSet' = QueueSet
    BY DEF QueueSet
  <1>2. QueueInv'
    BY <1>1 DEF QueueInv
  <1>3. Awake \ {t} \subseteq Awake'
    BY <1>1, AwakeSet
  <1> QED
    BY <1>1, <1>2, <1>3

\* A step that in addition leaves the slots alone, of a thread that was not on
\* its way, or still is.
LEMMA CalmWake ==
  ASSUME TypeInv, TypeInv', WakeInv, NEW t \in Threads,
         waiters' = waiters, closed' = closed, inUse' = inUse, reserved' = reserved,
         \A u \in Threads \ {t} : pc'[u] = pc[u],
         t \in QueueSet => pc'[t] = pc[t],
         pc[t] \in {"acquire", "waiting"} => pc'[t] = pc[t] \/ pc'[t] = "acquire"
  PROVE  WakeInv'
  <1>1. /\ QueueInv' /\ QueueSet' = QueueSet
        /\ (t \in Awake => t \in Awake') => Awake \subseteq Awake'
    BY KeepsQueue DEF TypeInv, WakeInv
  <1>2. t \in Awake => t \in Awake'
    BY <1>1, AwakeSet
  <1>3. Cardinality(Awake) - 0 <= Cardinality(Awake')
    <2>1. Awake \subseteq Awake' /\ Awake \in SUBSET Threads
      BY <1>1, <1>2 DEF Awake
    <2> QED
      BY <2>1, AwakeGrows
  <1>4. Spare' <= Spare - 0
    BY SpareType DEF Spare, TypeInv
  <1> QED
    BY <1>1, <1>3, <1>4, KeepsWakeups DEF WakeInv

\* The pool is closed, and nobody waits.
LEMMA ClosedWake ==
  ASSUME waiters' = <<>>
  PROVE  WakeInv'
  <1>1. QueueSet' = {} /\ \A i, j \in 1..Len(waiters') : waiters'[i] = waiters'[j] => i = j
    BY DEF QueueSet
  <1> QED
    BY <1>1 DEF WakeInv, QueueInv, NoLostWakeup

LEMMA InUseLess ==
  ASSUME TypeOK, NEW c
  PROVE  /\ Cardinality(inUse \ {c}) \in Nat
         /\ Cardinality(inUse) - 1 <= Cardinality(inUse \ {c})
  <1>1. IsFiniteSet(inUse \ {c})
    BY InUseFinite, FS_RemoveElement
  <1> QED
    BY <1>1, InUseFinite, FS_RemoveElement, FS_CardinalityType

\* One slot comes free, and the next waiter is told.
LEMMA FreesWake ==
  ASSUME TypeInv, TypeInv', WakeInv, NEW t \in Threads, Notify, closed' = closed,
         Spare' <= Spare + 1,
         \A u \in Threads \ {t} : pc'[u] = pc[u],
         pc[t] \notin {"acquire", "waiting"}
  PROVE  WakeInv'
  <1>1. CASE waiters = <<>>
    BY <1>1, ClosedWake DEF Notify
  <1>2. CASE waiters # <<>>
    <2>1. waiters \in Seq(Threads)
      BY DEF TypeInv, TypeOK
    <2>2. PICK u \in QueueSet :
             /\ QueueSet' = QueueSet \ {u}
             /\ \A i, j \in 1..Len(waiters') : waiters'[i] = waiters'[j] => i = j
      BY <1>2, <2>1, NotifyQueue DEF WakeInv
    <2>3. u \in Threads /\ pc[u] = "waiting" /\ u # t /\ pc'[u] = "waiting"
      BY <2>2 DEF WakeInv, QueueInv
    <2>4. QueueInv'
      <3>1. \A w \in QueueSet' : w \in Threads /\ pc'[w] = "waiting"
        BY <2>2 DEF WakeInv, QueueInv
      <3>2. ~closed'
        BY <1>2 DEF WakeInv, QueueInv
      <3> QED
        BY <2>2, <3>1, <3>2 DEF QueueInv
    <2>5. u \notin Awake /\ Awake \cup {u} \subseteq Awake'
      BY <2>2, <2>3, AwakeSet
    <2>6. NoLostWakeup'
      BY <1>2, <2>3, <2>5, NotifyWakes DEF WakeInv
    <2> QED
      BY <2>4, <2>6 DEF WakeInv
  <1> QED
    BY <1>1, <1>2

LEMMA CalmStepsWake ==
  ASSUME TypeInv, TypeInv', WakeInv, NEW t \in Threads,
         \/ Call(t) \/ Expire(t) \/ Woken(t)
         \/ FindUnusable(t) \/ FindUsable(t) \/ SendPing(t)
         \/ PingAnswered(t) \/ PingAnsweredWrongly(t) \/ PingFailed(t)
         \/ CloseDiscarded(t)
         \/ \E c \in Conns : ConnectOk(t, c) \/ SweepPoisons(t, c) \/ CloseOne(t, c)
         \/ SendCommand(t) \/ ReplyRead(t) \/ CommandFailed(t) \/ CloseReleased(t)
         \/ \E c \in Conns : ReleaseRejected(t, c) /\ pc[t] \in {"out", "hold", "unwind"}
         \/ CloseDone(t)
  PROVE  WakeInv'
  <1>1. TypeOK
    BY DEF TypeInv
  <1> USE DEF poolVars, threadVars, streamVars, Goto, Leave, Borrow
  <1>2. waiters' = waiters /\ closed' = closed /\ inUse' = inUse /\ reserved' = reserved
    BY DEF Call, Expire, Woken, FindUnusable, FindUsable, SendPing, PingAnswered,
       PingAnsweredWrongly, PingFailed, CloseDiscarded, ConnectOk, SweepPoisons,
       CloseOne, SendCommand, ReplyRead, CommandFailed, CloseReleased,
       ReleaseRejected, CloseDone
  <1>3. pc' = pc \/ \E l : pc' = [pc EXCEPT ![t] = l]
    BY DEF Call, Expire, Woken, FindUnusable, FindUsable, SendPing, PingAnswered,
       PingAnsweredWrongly, PingFailed, CloseDiscarded, ConnectOk, SweepPoisons,
       CloseOne, SendCommand, ReplyRead, CommandFailed, CloseReleased,
       ReleaseRejected, CloseDone
  <1>4. \/ pc[t] \notin {"acquire", "waiting"} \/ pc' = pc
        \/ /\ ~Queued(t) /\ pc' = [pc EXCEPT ![t] = "acquire"]
    BY DEF Call, Expire, Woken, FindUnusable, FindUsable, SendPing, PingAnswered,
       PingAnsweredWrongly, PingFailed, CloseDiscarded, ConnectOk, SweepPoisons,
       CloseOne, SendCommand, ReplyRead, CommandFailed, CloseReleased,
       ReleaseRejected, CloseDone
  <1>5. \A u \in Threads \ {t} : pc'[u] = pc[u]
    BY <1>1, <1>3 DEF TypeOK
  <1>6. t \in QueueSet => pc'[t] = pc[t]
    BY <1>4 DEF WakeInv, QueueInv, Queued, QueueSet
  <1>7. pc[t] \in {"acquire", "waiting"} => pc'[t] = pc[t] \/ pc'[t] = "acquire"
    BY <1>1, <1>4 DEF TypeOK
  <1> QED
    BY <1>2, <1>5, <1>6, <1>7, CalmWake

LEMMA AcquireStepsWake ==
  ASSUME TypeInv, TypeInv', FreshInv, WakeInv, NEW t \in Threads,
         TakeIdle(t) \/ Reserve(t) \/ Install(t) \/ RaiseTimeout(t)
  PROVE  WakeInv'
  <1>1. TypeOK /\ Cardinality(inUse) \in Nat /\ IsFiniteSet(inUse) /\ reserved \in Nat
    BY InUseFinite DEF TypeInv, TypeOK
  <1>2. waiters' = waiters /\ closed' = closed
    BY DEF TakeIdle, Reserve, Install, RaiseTimeout, poolVars
  <1>3. pc[t] \in {"acquire", "opened"} /\ \E l : pc' = [pc EXCEPT ![t] = l]
    BY DEF TakeIdle, Reserve, Install, RaiseTimeout, Goto, Leave, Borrow
  <1>4. \A u \in Threads \ {t} : pc'[u] = pc[u]
    BY <1>1, <1>3 DEF TypeOK
  <1>5. t \notin QueueSet
    BY <1>3 DEF WakeInv, QueueInv
  <1>6. QueueInv' /\ QueueSet' = QueueSet /\ Awake \ {t} \subseteq Awake'
    BY <1>1, <1>2, <1>4, <1>5, KeepsQueue DEF WakeInv
  <1>7. Cardinality(Awake) - 1 <= Cardinality(Awake')
    <2>1. (Awake \ {t}) \in SUBSET Threads
      BY AwakeSet
    <2>2. Cardinality(Awake) - (IF Awake \ {t} = Awake THEN 0 ELSE 1)
            <= Cardinality(Awake')
      BY <1>6, <2>1, AwakeGrows
    <2> QED
      BY <2>2, AwakeFinite
  <1>8. CASE TakeIdle(t)
    <2>1. Head(idle) \notin inUse
      BY <1>8, TailOfIdle DEF TakeIdle, FreshInv, TypeInv, TypeOK
    <2>2. Cardinality(inUse') = Cardinality(inUse) + 1 /\ reserved' = reserved
      BY <1>1, <1>8, <2>1, FS_AddElement DEF TakeIdle
    <2>3. Spare' <= Spare - 1
      BY <1>1, <2>2, MaxConnectionsAssumption DEF Spare
    <2> QED
      BY <1>2, <1>6, <1>7, <2>3, KeepsWakeups DEF WakeInv
  <1>9. CASE Reserve(t)
    <2>1. inUse' = inUse /\ reserved' = reserved + 1
      BY <1>9 DEF Reserve
    <2>2. Spare' <= Spare - 1
      BY <1>1, <2>1, MaxConnectionsAssumption DEF Spare
    <2> QED
      BY <1>2, <1>6, <1>7, <2>2, KeepsWakeups DEF WakeInv
  <1>10. CASE Install(t)
    <2>1. pc[t] = "opened" /\ inUse' = inUse \cup {conn[t]} /\ reserved' = reserved - 1
      BY <1>10 DEF Install
    <2>2. conn[t] \notin inUse
      BY <2>1 DEF FreshInv
    <2>3. Cardinality(inUse') = Cardinality(inUse) + 1
      BY <1>1, <2>1, <2>2, FS_AddElement
    <2>4. Spare' <= Spare - 0
      BY <1>1, <2>1, <2>3, MaxConnectionsAssumption DEF Spare
    <2>5. Awake \ {t} = Awake
      BY <2>1, AwakeSet
    <2>6. Awake \in SUBSET Threads
      BY AwakeSet
    <2>7. Cardinality(Awake) - 0 <= Cardinality(Awake')
      BY <1>6, <2>5, <2>6, AwakeGrows
    <2> QED
      BY <1>2, <1>6, <2>4, <2>7, KeepsWakeups DEF WakeInv
  <1>11. CASE RaiseTimeout(t)
    <2>1. inUse' = inUse /\ reserved' = reserved /\ Spare <= 0
      <3>1. /\ inUse' = inUse /\ reserved' = reserved
            /\ idle = <<>> /\ Total + reserved >= MaxConnections
        BY <1>11 DEF RaiseTimeout, AtLimit, poolVars
      <3>2. Len(idle) = 0
        BY <3>1, EmptySeq
      <3> QED
        BY <1>1, <3>1, <3>2, MaxConnectionsAssumption DEF Total, Spare
    <2>2. Spare' <= 0
      BY <2>1 DEF Spare
    <2> QED
      BY <1>6, <2>2, NoSpareLeft DEF WakeInv
  <1> QED
    BY <1>8, <1>9, <1>10, <1>11

LEMMA WaitWake ==
  ASSUME TypeInv, TypeInv', WakeInv, NEW t \in Threads, Wait(t)
  PROVE  WakeInv'
  <1>1. /\ pc[t] = "acquire" /\ ~closed /\ closed' = closed
        /\ inUse' = inUse /\ reserved' = reserved /\ waiters' = Append(waiters, t)
        /\ pc' = [pc EXCEPT ![t] = "waiting"]
        /\ idle = <<>> /\ Total + reserved >= MaxConnections
    BY DEF Wait, AtLimit, Goto, poolVars
  <1>2. t \notin QueueSet
    BY <1>1 DEF WakeInv, QueueInv
  <1>3. /\ QueueSet' = QueueSet \cup {t}
        /\ \A i, j \in 1..Len(waiters') : waiters'[i] = waiters'[j] => i = j
    BY <1>1, <1>2, JoinQueue DEF TypeInv, TypeOK, WakeInv
  <1>4. \A u \in QueueSet' : u \in Threads /\ pc'[u] = "waiting"
    BY <1>1, <1>3 DEF WakeInv, QueueInv, TypeInv, TypeOK
  <1>5. QueueInv'
    BY <1>1, <1>3, <1>4 DEF QueueInv
  <1>6. Spare' <= 0
    <2>1. Len(idle) = 0 /\ Cardinality(inUse) \in Nat /\ reserved \in Nat
      BY <1>1, EmptySeq, InUseFinite DEF TypeInv, TypeOK
    <2> QED
      BY <1>1, <2>1, MaxConnectionsAssumption DEF Total, Spare
  <1> QED
    BY <1>5, <1>6, NoSpareLeft DEF WakeInv

LEMMA TimedOutWake ==
  ASSUME TypeInv, TypeInv', WakeInv, NEW t \in Threads, TimedOut(t)
  PROVE  WakeInv'
  <1>1. /\ LeaveQueue(t) /\ closed' = closed /\ inUse' = inUse /\ reserved' = reserved
        /\ pc' = [pc EXCEPT ![t] = "acquire"]
    BY DEF TimedOut, Goto, poolVars
  <1>2. /\ t \in QueueSet /\ QueueSet' = QueueSet \ {t}
        /\ \A i, j \in 1..Len(waiters') : waiters'[i] = waiters'[j] => i = j
    BY <1>1, LeaveQueueQueue DEF TypeInv, TypeOK, WakeInv
  <1>3. waiters # <<>>
    BY <1>1, EmptySeq DEF LeaveQueue
  <1>4. QueueInv'
    <2>1. \A u \in QueueSet' : u \in Threads /\ pc'[u] = "waiting"
      BY <1>1, <1>2 DEF WakeInv, QueueInv, TypeInv, TypeOK
    <2> QED
      BY <1>1, <1>2, <1>3, <2>1 DEF WakeInv, QueueInv
  <1>5. Awake \subseteq Awake' /\ Awake \in SUBSET Threads
    BY <1>1, <1>2, AwakeSet DEF TypeInv, TypeOK
  <1>6. Cardinality(Awake) - 0 <= Cardinality(Awake')
    BY <1>5, AwakeGrows
  <1>7. Spare' <= Spare - 0
    BY <1>1, SpareType DEF Spare, TypeInv
  <1> QED
    BY <1>3, <1>4, <1>6, <1>7, KeepsWakeups DEF WakeInv

LEMMA FreeingStepsWake ==
  ASSUME TypeInv, TypeInv', WakeInv, NEW t \in Threads,
         \/ Discard(t) \/ ConnectFailed(t)
         \/ \E c \in Conns : /\ pc[t] \in {"out", "hold", "unwind"}
                             /\ ReleaseKeeps(t, c) \/ ReleaseDiscards(t, c)
  PROVE  WakeInv'
  <1>1. TypeOK /\ Cardinality(inUse) \in Nat /\ reserved \in Nat
    BY InUseFinite DEF TypeInv, TypeOK
  <1>2. /\ Notify /\ closed' = closed /\ pc[t] \notin {"acquire", "waiting"}
        /\ \E l : pc' = [pc EXCEPT ![t] = l]
    BY DEF Discard, ConnectFailed, ReleaseKeeps, ReleaseDiscards, Goto, Leave
  <1>3. \A u \in Threads \ {t} : pc'[u] = pc[u]
    BY <1>1, <1>2 DEF TypeOK
  <1>4. \/ inUse' = inUse /\ reserved' = reserved - 1
        \/ reserved' = reserved /\ \E c : inUse' = inUse \ {c}
    BY DEF Discard, ConnectFailed, ReleaseKeeps, ReleaseDiscards
  <1>5. Spare' <= Spare + 1
    <2>1. CASE inUse' = inUse /\ reserved' = reserved - 1
      BY <1>1, <2>1, MaxConnectionsAssumption DEF Spare
    <2>2. ASSUME reserved' = reserved, NEW c, inUse' = inUse \ {c}
          PROVE  Spare' <= Spare + 1
      <3>1. Cardinality(inUse') = Cardinality(inUse \ {c})
        BY <2>2
      <3>2. /\ Cardinality(inUse \ {c}) \in Nat
            /\ Cardinality(inUse) - 1 <= Cardinality(inUse \ {c})
        BY <1>1, InUseLess
      <3> QED
        BY <1>1, <2>2, <3>1, <3>2, MaxConnectionsAssumption DEF Spare
    <2> QED
      BY <1>4, <2>1, <2>2
  <1> QED
    BY <1>2, <1>3, <1>5, FreesWake

LEMMA ClosingStepsWake ==
  ASSUME WakeInv, NEW t \in Threads, InstallRefused(t) \/ Close(t)
  PROVE  WakeInv'
  <1>1. waiters' = <<>>
    BY DEF InstallRefused, Close, Notify, WakeInv, QueueInv
  <1> QED
    BY <1>1, ClosedWake

LEMMA RefuseClosedWake ==
  ASSUME WakeInv, NEW t \in Threads, RefuseClosed(t)
  PROVE  WakeInv'
  <1>1. waiters' = <<>>
    BY DEF RefuseClosed, WakeInv, QueueInv
  <1> QED
    BY <1>1, ClosedWake

LEMMA InitWake == Init => WakeInv
  BY DEF Init, WakeInv, QueueInv, QueueSet, NoLostWakeup

LEMMA NextWake ==
  ASSUME ~Interrupts
  PROVE  TypeInv /\ FreshInv /\ WakeInv /\ [Next]_vars => WakeInv'
  <1> SUFFICES ASSUME TypeInv, FreshInv, WakeInv, [Next]_vars PROVE WakeInv'
    OBVIOUS
  <1>1. TypeInv'
    BY NextTypeInv
  <1>2. CASE UNCHANGED AllVars
    <2>1. QueueSet' = QueueSet
      BY <1>2 DEF AllVars, QueueSet
    <2>2. Awake' = Awake /\ QueueInv'
      BY <1>2, <2>1, AwakeSet DEF AllVars, WakeInv, QueueInv
    <2> QED
      BY <1>2, <2>2 DEF AllVars, WakeInv, NoLostWakeup
  <1>3. ASSUME NEW t \in Threads, Quiet(t) PROVE WakeInv'
    <2>1. ~(InterruptCommand(t) \/ InterruptCheck(t) \/ InterruptWait(t))
      BY DEF InterruptCommand, InterruptCheck, InterruptWait
    <2>2. \/ Call(t) \/ Expire(t) \/ Woken(t)
          \/ FindUnusable(t) \/ FindUsable(t) \/ SendPing(t)
          \/ PingAnswered(t) \/ PingAnsweredWrongly(t) \/ PingFailed(t)
          \/ CloseDiscarded(t)
          \/ \E c \in Conns : SweepPoisons(t, c) \/ CloseOne(t, c)
          \/ SendCommand(t) \/ ReplyRead(t) \/ CommandFailed(t) \/ CloseReleased(t)
          \/ \E c \in Conns : /\ ReleaseRejected(t, c)
                              /\ pc[t] \in {"out", "hold", "unwind"}
          \/ CloseDone(t)
          \/ RaiseTimeout(t) \/ Wait(t) \/ TimedOut(t) \/ RefuseClosed(t)
          \/ Discard(t) \/ ConnectFailed(t) \/ InstallRefused(t) \/ Close(t)
      BY <1>3, <2>1 DEF Quiet
    <2>3. CASE RaiseTimeout(t)
      BY <1>1, <2>3, AcquireStepsWake
    <2>4. CASE Wait(t) \/ TimedOut(t) \/ RefuseClosed(t)
      BY <1>1, <2>4, WaitWake, TimedOutWake, RefuseClosedWake
    <2>5. CASE Discard(t) \/ ConnectFailed(t)
      BY <1>1, <2>5, FreeingStepsWake
    <2>6. CASE InstallRefused(t) \/ Close(t)
      BY <2>6, ClosingStepsWake
    <2>7. CASE ~(\/ RaiseTimeout(t) \/ Wait(t) \/ TimedOut(t) \/ RefuseClosed(t)
                \/ Discard(t) \/ ConnectFailed(t) \/ InstallRefused(t) \/ Close(t))
      BY <1>1, <2>2, <2>7, CalmStepsWake
    <2> QED
      BY <2>3, <2>4, <2>5, <2>6, <2>7
  <1> QED
    BY <1>1, <1>2, <1>3, NextCases, AcquireStepsWake, CalmStepsWake, FreeingStepsWake

\* No wakeup is lost, however many threads wait, time out, open, check and return
\* at once: every slot that could be had while threads wait is matched by one
\* already on its way to take it.
THEOREM WakeupsKept ==
  ASSUME ~Interrupts
  PROVE  Spec => []NoLostWakeup
  <1>1. WakeInv => NoLostWakeup
    BY DEF WakeInv
  <1> QED
    BY <1>1, InitTypeInv, InitFresh, InitWake, NextTypeInv, NextFresh, NextWake, PTL
    DEF Spec
=============================================================================
