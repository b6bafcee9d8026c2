------------------------ MODULE CachedExecuteProofs ------------------------
(***************************************************************************)
(* Theorems about CachedExecute, for any number of threads, connections    *)
(* and keys: its types, whose reply is on its way to whom, and what a      *)
(* drain may meet.                                                         *)
(***************************************************************************)
EXTENDS CachedExecute, FiniteSetTheorems, SequenceTheorems, TLAPS

-----------------------------------------------------------------------------
\* Frames.

\* What a frame tells of a key is a version.
LEMMA FrameParts ==
  ASSUME NEW f \in Frames
  PROVE  /\ f.kind \in {"reply", "invalidate", "flush"}
         /\ KeysOf(f) \subseteq Keys
         /\ \A k \in KeysOf(f) : f.at[k] \in 0..MaxWrites
  <1>1. PICK ks \in SUBSET Keys : f.at \in [ks -> 0..MaxWrites]
    BY DEF Frames
  <1> QED
    BY <1>1 DEF Frames, KeysOf

LEMMA FrameMade ==
  ASSUME NEW kind \in {"reply", "invalidate", "flush"}, NEW ks \in SUBSET Keys,
         NEW v \in [Keys -> 0..MaxWrites]
  PROVE  /\ Frame(kind, ks, v) \in Frames
         /\ Frame(kind, ks, v).kind = kind
         /\ KeysOf(Frame(kind, ks, v)) = ks
         /\ \A k \in ks : Frame(kind, ks, v).at[k] = v[k]
  <1>1. [k \in ks |-> v[k]] \in [ks -> 0..MaxWrites]
    OBVIOUS
  <1>2. [k \in ks |-> v[k]] \in UNION {[js -> 0..MaxWrites] : js \in SUBSET Keys}
    BY <1>1
  <1> QED
    BY <1>1, <1>2 DEF Frame, Frames, KeysOf

\* No frame is the marker for "no frame".
LEMMA FrameIsSome == \A f \in Frames : f # None
  BY NoneAssumption

-----------------------------------------------------------------------------
\* Sequences of frames.

LEMMA PopConcat ==
  ASSUME NEW S, NEW s \in Seq(S), NEW u \in Seq(S), s # <<>>
  PROVE  /\ Tail(s) \o u = Tail(s \o u)
         /\ s \o u # <<>> /\ Head(s \o u) = Head(s)
  <1>1. /\ s \o u \in Seq(S)
        /\ Len(s \o u) = Len(s) + Len(u)
        /\ \A i \in 1..(Len(s) + Len(u)) :
              (s \o u)[i] = IF i <= Len(s) THEN s[i] ELSE u[i - Len(s)]
    BY ConcatProperties
  <1>2. Len(s) \in Nat \ {0} /\ Len(u) \in Nat
    BY LenProperties, EmptySeq
  <1>3. s \o u # <<>>
    BY <1>2, ConcatEqualIffEmpty
  <1>4. /\ Tail(s) \in Seq(S) /\ Len(Tail(s)) = Len(s) - 1
        /\ \A i \in 1..Len(Tail(s)) : Tail(s)[i] = s[i + 1]
    BY HeadTailProperties
  <1>5. /\ Tail(s) \o u \in Seq(S)
        /\ Len(Tail(s) \o u) = Len(Tail(s)) + Len(u)
        /\ \A i \in 1..(Len(Tail(s)) + Len(u)) :
              (Tail(s) \o u)[i] = IF i <= Len(Tail(s)) THEN Tail(s)[i]
                                                       ELSE u[i - Len(Tail(s))]
    BY <1>4, ConcatProperties
  <1>6. /\ Tail(s \o u) \in Seq(S) /\ Len(Tail(s \o u)) = Len(s \o u) - 1
        /\ \A i \in 1..Len(Tail(s \o u)) : Tail(s \o u)[i] = (s \o u)[i + 1]
    BY <1>1, <1>3, HeadTailProperties
  <1>7. Len(Tail(s) \o u) = Len(Tail(s \o u))
    BY <1>1, <1>2, <1>4, <1>5, <1>6
  <1>8. ASSUME NEW i \in 1..Len(Tail(s) \o u)
        PROVE  (Tail(s) \o u)[i] = Tail(s \o u)[i]
    <2>1. i \in 1..(Len(Tail(s)) + Len(u)) /\ i \in 1..Len(Tail(s \o u))
      BY <1>5, <1>7
    <2>2. i + 1 \in 1..(Len(s) + Len(u))
      BY <2>1, <1>2, <1>4
    <2>3. CASE i <= Len(Tail(s))
      BY <2>1, <2>2, <2>3, <1>1, <1>2, <1>4, <1>5, <1>6
    <2>4. CASE ~(i <= Len(Tail(s)))
      <3>1. ~(i + 1 <= Len(s)) /\ i - Len(Tail(s)) = (i + 1) - Len(s)
        BY <2>1, <2>4, <1>2, <1>4
      <3> QED
        BY <2>1, <2>2, <2>4, <3>1, <1>1, <1>5, <1>6
    <2> QED
      BY <2>3, <2>4
  <1>9. Head(s \o u) = Head(s)
    BY <1>1, <1>2, <1>3
  <1> QED
    BY <1>3, <1>5, <1>6, <1>7, <1>8, <1>9, SeqEqual

LEMMA PushConcat ==
  ASSUME NEW S, NEW s \in Seq(S), NEW u \in Seq(S), NEW e \in S
  PROVE  s \o Append(u, e) = Append(s \o u, e)
  <1>1. <<e>> \in Seq(S)
    OBVIOUS
  <1>2. s \o (u \o <<e>>) = (s \o u) \o <<e>>
    BY <1>1, ConcatAssociative
  <1> QED
    BY <1>2, AppendIsConcat, ConcatProperties

LEMMA HeadFirst ==
  ASSUME NEW S, NEW s \in Seq(S), s # <<>>
  PROVE  <<Head(s)>> \o Tail(s) = s /\ Head(s) = s[1]
  <1>1. Len(s) \in Nat \ {0}
    BY LenProperties, EmptySeq
  <1>2. SubSeq(s, 1, Len(s)) = <<s[1]>> \o SubSeq(s, 2, Len(s))
    BY <1>1, SubSeqRecursiveFirst
  <1> QED
    BY <1>1, <1>2, SubSeqFull, TailIsSubSeq

LEMMA MoveConcat ==
  ASSUME NEW S, NEW s \in Seq(S), NEW u \in Seq(S), u # <<>>
  PROVE  Append(s, Head(u)) \o Tail(u) = s \o u
  <1>1. Head(u) \in S /\ Tail(u) \in Seq(S)
    BY HeadTailProperties
  <1>2. <<Head(u)>> \in Seq(S)
    BY <1>1
  <1>3. (s \o <<Head(u)>>) \o Tail(u) = s \o (<<Head(u)>> \o Tail(u))
    BY <1>1, <1>2, ConcatAssociative
  <1> QED
    BY <1>1, <1>3, HeadFirst, AppendIsConcat

\* What is in a sequence after its first element went, or one was added.
LEMMA SetOfTail ==
  ASSUME NEW S, NEW s \in Seq(S), s # <<>>
  PROVE  ToSet(s) = ToSet(Tail(s)) \cup {Head(s)}
  <1>1. /\ Len(s) \in Nat \ {0} /\ DOMAIN s = 1..Len(s)
        /\ Len(Tail(s)) = Len(s) - 1 /\ DOMAIN Tail(s) = 1..Len(Tail(s))
        /\ \A i \in 1..Len(Tail(s)) : Tail(s)[i] = s[i + 1]
    BY LenProperties, EmptySeq, HeadTailProperties
  <1>2. Head(s) = s[1]
    BY HeadFirst
  <1>3. ASSUME NEW i \in DOMAIN Tail(s) PROVE Tail(s)[i] \in ToSet(s)
    <2>1. i \in 1..Len(Tail(s)) /\ i + 1 \in DOMAIN s
      BY <1>1, <1>3
    <2> QED
      BY <2>1, <1>1 DEF ToSet
  <1>4. ASSUME NEW i \in DOMAIN s PROVE s[i] \in ToSet(Tail(s)) \cup {Head(s)}
    <2>1. CASE i = 1
      BY <2>1, <1>2
    <2>2. CASE i # 1
      <3>1. i - 1 \in DOMAIN Tail(s) /\ i - 1 \in 1..Len(Tail(s)) /\ (i - 1) + 1 = i
        BY <2>2, <1>1, <1>4
      <3>2. Tail(s)[i - 1] = s[i]
        BY <3>1, <1>1
      <3> QED
        BY <3>1, <3>2 DEF ToSet
    <2> QED
      BY <2>1, <2>2
  <1>5. 1 \in DOMAIN s
    BY <1>1
  <1> QED
    BY <1>2, <1>3, <1>4, <1>5 DEF ToSet

LEMMA SetOfAppend ==
  ASSUME NEW S, NEW s \in Seq(S), NEW e \in S
  PROVE  ToSet(Append(s, e)) = ToSet(s) \cup {e}
  <1>1. /\ Len(s) \in Nat /\ DOMAIN s = 1..Len(s)
        /\ DOMAIN Append(s, e) = 1..(Len(s) + 1)
        /\ \A i \in 1..Len(s) : Append(s, e)[i] = s[i]
        /\ Append(s, e)[Len(s) + 1] = e
    BY LenProperties, AppendProperties
  <1> QED
    BY <1>1 DEF ToSet

LEMMA SetOfConcat ==
  ASSUME NEW S, NEW s \in Seq(S), NEW u \in Seq(S)
  PROVE  ToSet(s \o u) = ToSet(s) \cup ToSet(u)
  <1>1. \A q : ToSet(q) = Range(q)
    BY DEF ToSet, Range
  <1> QED
    BY <1>1, RangeConcatenation

-----------------------------------------------------------------------------
\* The places a thread can be in.  A thread inside a call holds a connection and
\* has a key; it has a peer while it drains one, a ticket from the ticket to the
\* offer, and a push in hand only while it reads.

HeldInv ==
    /\ \A t \in Threads : holds[t] # None => status[holds[t]] # "none"
    /\ \A t, u \in Threads : holds[t] # None /\ holds[t] = holds[u] => t = u

Ticketed == {"check", "send", "await", "own2", "drain2", "offer"}
Answered == {"own2", "drain2", "offer"}

CallInv ==
    \A t \in Threads :
        /\ pc[t] # "out" => holds[t] # None /\ key[t] \in Keys
        /\ peer[t] # None <=> pc[t] = "peer"
        /\ pc[t] = "piped" => t \in Pipeliners
        /\ inHand[t] # None => Reading(t)
        /\ reading[t] = IF pc[t] \in Ticketed THEN key[t] ELSE None
        /\ pc[t] \in Answered => answer[t] \in 0..MaxWrites

\* What a connection that is closed or dead cannot have.
ClosedInv ==
    \A c \in Conns :
        /\ status[c] # "up" => wire[c] = <<>> /\ \A k \in Keys : c \notin tracking[k]
        /\ status[c] = "none" => inbox[c] = <<>> /\ request[c] = None
        /\ wire[c] = <<>> => ~cut[c]

\* Whoever drains a connection or waits in _roundtrip() holds its I/O lock.
LockInv ==
    \A t \in Threads : Draining(t) \/ pc[t] = "await" => ioLock[Socket(t)] = t

\* Nobody else's reply is on its way on a connection that is usable or on which
\* a command is about to be sent or has been sent: the only one is the reply to
\* the command the holder waits for.
Waiting(t) == pc[t] \in {"await", "piped"}
Awaited(c, k) == \E t \in Threads : holds[t] = c /\ Waiting(t) /\ key[t] = k
Quiet(c) == Usable(c) \/ \E t \in Threads : holds[t] = c /\ (Waiting(t) \/ pc[t] = "send")

Aligned(c, stream) ==
    /\ \A i \in DOMAIN stream : IsReply(stream[i]) =>
          /\ request[c] = None
          /\ \E k \in Keys : Awaited(c, k) /\ KeysOf(stream[i]) = {k}
          /\ \A j \in DOMAIN stream : IsReply(stream[j]) => i = j
    /\ request[c] # None => Awaited(c, request[c])

AlignInv == \A c \in Conns : Quiet(c) => Aligned(c, Unread(c))

Inv == TypeOK /\ HeldInv /\ CallInv /\ ClosedInv /\ LockInv /\ AlignInv

-----------------------------------------------------------------------------
\* Holding.

\* The steps that touch the pool's connections.
PoolStep ==
    \/ \E t \in Threads : Release(t) \/ \E c \in Conns : Borrow(t, c) \/ Open(t, c)
    \/ \E c \in Conns : Lose(c) \/ DiscardIdle(c)

\* cache_clear() changes nothing but the entries.
LEMMA ClearLeaves ==
  ClearCache =>
    /\ UNCHANGED <<version, tracking, request, wire, inbox, cut, status, poisoned, ioLock>>
    /\ UNCHANGED <<holds, pc, key, todo, swept, peer, inHand, answer, floor>>
    /\ UNCHANGED <<generation, epoch, reading, ticket, overtaken>>
    /\ UNCHANGED <<announced, lost, troubles>>
  BY DEF ClearCache, Cache!Clear, Cache!clockVars, Cache!readerVars, serverVars, netVars,
    connVars, callVars, ghostVars

LEMMA PoolStays == Next => PoolStep \/ UNCHANGED <<holds, status>>
  <1>1. ASSUME NEW t \in Threads, ReadStep(t) PROVE UNCHANGED <<holds, status>>
    BY <1>1 DEF ReadStep, ParsePush, HandlePush, DrainEnds, DrainMeetsReply,
      DrainMeetsEOF, DrainTorn, ReadReply, AwaitInVain, AwaitFails, PipeReply,
      connVars, netVars, serverVars
  <1>2. ASSUME NEW t \in Threads, CallStep(t) \/ LockStep(t)
        PROVE UNCHANGED <<holds, status>>
    BY <1>2 DEF CallStep, LockStep, SweepPeer, SweepDone, Hit, Missed, TakeTicket,
      CheckUsable, RefuseBroken, Offer, EnterDrain, Send, connVars
  <1>3. ASSUME NEW t \in Threads, ChoiceStep(t)
        PROVE PoolStep \/ UNCHANGED <<holds, status>>
    BY <1>3 DEF ChoiceStep, PoolStep, Call, PipeSend, ReplyWasError, DrainTimesOut,
      AwaitTimesOut, SendFails, AwaitFails, connVars
  <1>4. ASSUME Environment PROVE PoolStep \/ UNCHANGED <<holds, status>>
    BY <1>4, ClearLeaves
    DEF Environment, PoolStep, Serve, Deliver, Split, Write, FlushAll, Change,
      connVars
  <1> QED
    BY <1>1, <1>2, <1>3, <1>4 DEF Next

LEMMA NextHeld == ASSUME Inv, [Next]_vars PROVE HeldInv'
  <1> USE DEF Inv
  <1>1. CASE UNCHANGED <<holds, status>>
    BY <1>1 DEF HeldInv
  <1>2. ASSUME NEW t \in Threads, NEW c \in Conns, Borrow(t, c) PROVE HeldInv'
    BY <1>2, NoneAssumption DEF HeldInv, Borrow, Usable, connVars, TypeOK
  <1>3. ASSUME NEW t \in Threads, NEW c \in Conns, Open(t, c) PROVE HeldInv'
    BY <1>3, NoneAssumption DEF HeldInv, Open, TypeOK
  <1>4. ASSUME NEW t \in Threads, Release(t) PROVE HeldInv'
    BY <1>4, NoneAssumption DEF HeldInv, Release, Close, connVars, TypeOK
  <1>5. ASSUME NEW c \in Conns, Lose(c) PROVE HeldInv'
    BY <1>5, NoneAssumption DEF HeldInv, Lose, TypeOK
  <1>6. ASSUME NEW c \in Conns, DiscardIdle(c) PROVE HeldInv'
    BY <1>6, NoneAssumption DEF HeldInv, DiscardIdle, Close, TypeOK
  <1> QED
    BY <1>1, <1>2, <1>3, <1>4, <1>5, <1>6, PoolStays DEF PoolStep, vars, connVars

-----------------------------------------------------------------------------
\* What is unread on a connection, and what it has to do with who waits.

LEMMA UnreadType ==
  ASSUME TypeOK, NEW c \in Conns
  PROVE  /\ inbox[c] \in Seq(Frames) /\ wire[c] \in Seq(Frames)
         /\ Unread(c) \in Seq(Frames)
  <1>1. inbox[c] \in Seq(Frames) /\ wire[c] \in Seq(Frames)
    BY DEF TypeOK
  <1> QED
    BY <1>1, ConcatProperties DEF Unread

\* A reader that meets a reply in await or in a pipeline has met its own.
LEMMA OwnReply ==
  ASSUME Inv, NEW t \in Threads, Waiting(t), inbox[Socket(t)] # <<>>,
         IsReply(Head(inbox[Socket(t)]))
  PROVE  /\ Socket(t) = holds[t] /\ holds[t] \in Conns /\ key[t] \in Keys
         /\ Head(inbox[holds[t]]) \in Frames
         /\ KeysOf(Head(inbox[holds[t]])) = {key[t]}
  <1> USE DEF Inv
  <1>1. Socket(t) = holds[t] /\ holds[t] \in Conns /\ key[t] \in Keys
    BY DEF Socket, CallInv, Waiting, TypeOK
  <1>2. PICK c \in Conns : c = holds[t]
    BY <1>1
  <1>3. inbox[c] # <<>> /\ IsReply(Head(inbox[c]))
    BY <1>1, <1>2
  <1>4. Aligned(c, Unread(c))
    BY <1>2 DEF AlignInv, Quiet
  <1>5. Unread(c) # <<>> /\ Head(Unread(c)) = Head(inbox[c])
    BY <1>3, UnreadType, PopConcat DEF Unread
  <1>6. 1 \in DOMAIN Unread(c) /\ Unread(c)[1] = Head(inbox[c])
    BY <1>5, UnreadType, HeadFirst, LenProperties, EmptySeq
  <1>7. PICK k \in Keys : Awaited(c, k) /\ KeysOf(Head(inbox[c])) = {k}
    BY <1>3, <1>4, <1>6 DEF Aligned
  <1>8. k = key[t]
    BY <1>2, <1>7, <1>1, NoneAssumption DEF Awaited, HeldInv
  <1>9. Head(inbox[c]) \in Frames
    BY <1>3, UnreadType, HeadTailProperties
  <1> QED
    BY <1>1, <1>2, <1>7, <1>8, <1>9

\* No reply on its way and none asked for.
Silent(c, stream) ==
    request[c] = None /\ \A i \in DOMAIN stream : ~IsReply(stream[i])

LEMMA SilentAligned ==
  ASSUME NEW c, NEW u, Silent(c, u)
  PROVE  Aligned(c, u)
  BY DEF Silent, Aligned

LEMMA NobodyWaits ==
  ASSUME NEW c, NEW u, Aligned(c, u), request[c] \in Keys \cup {None},
         \A k \in Keys : ~Awaited(c, k)
  PROVE  Silent(c, u)
  BY DEF Silent, Aligned

LEMMA TailIndex ==
  ASSUME NEW u \in Seq(Frames), u # <<>>
  PROVE  /\ 1 \in DOMAIN u /\ Head(u) = u[1]
         /\ \A i \in DOMAIN Tail(u) :
               i + 1 \in DOMAIN u /\ Tail(u)[i] = u[i + 1] /\ i + 1 # 1 /\ i \in Nat
  <1>1. /\ Len(u) \in Nat \ {0} /\ DOMAIN u = 1..Len(u)
        /\ Len(Tail(u)) = Len(u) - 1 /\ DOMAIN Tail(u) = 1..Len(Tail(u))
        /\ \A i \in 1..Len(Tail(u)) : Tail(u)[i] = u[i + 1]
    BY LenProperties, EmptySeq, HeadTailProperties
  <1> QED
    BY <1>1, HeadFirst

LEMMA AlignedTail ==
  ASSUME NEW c, NEW u \in Seq(Frames), u # <<>>, Aligned(c, u)
  PROVE  Aligned(c, Tail(u)) /\ (IsReply(Head(u)) => Silent(c, Tail(u)))
  <1> DEFINE w == Tail(u)
  <1>1. \A i \in DOMAIN w : i + 1 \in DOMAIN u /\ w[i] = u[i + 1] /\ i + 1 # 1 /\ i \in Nat
    BY TailIndex
  <1>2. 1 \in DOMAIN u /\ Head(u) = u[1]
    BY TailIndex
  <1> HIDE DEF w
  <1>3. \A i, j \in DOMAIN w : IsReply(w[i]) /\ IsReply(w[j]) => i = j
    <2> SUFFICES ASSUME NEW i \in DOMAIN w, NEW j \in DOMAIN w, IsReply(w[i]), IsReply(w[j])
                 PROVE  i = j
      OBVIOUS
    <2>1. i + 1 = j + 1
      BY <1>1 DEF Aligned
    <2> QED
      BY <2>1, <1>1
  <1>4. Aligned(c, w)
    BY <1>1, <1>3 DEF Aligned
  <1>5. ASSUME IsReply(Head(u)) PROVE Silent(c, w)
    <2>1. ASSUME NEW i \in DOMAIN w, IsReply(w[i]) PROVE FALSE
      <3>1. i + 1 = 1
        BY <1>1, <1>2, <1>5, <2>1 DEF Aligned
      <3> QED
        BY <3>1, <2>1, <1>1
    <2>2. request[c] = None
      BY <1>2, <1>5 DEF Aligned
    <2> QED
      BY <2>1, <2>2 DEF Silent
  <1> QED
    BY <1>4, <1>5 DEF w

LEMMA AlignedPush ==
  ASSUME NEW c, NEW u \in Seq(Frames), NEW f \in Frames, ~IsReply(f), Aligned(c, u)
  PROVE  Aligned(c, Append(u, f))
  <1> DEFINE w == Append(u, f)
  <1>1. /\ Len(u) \in Nat /\ DOMAIN u = 1..Len(u) /\ DOMAIN w = 1..(Len(u) + 1)
        /\ \A i \in 1..Len(u) : w[i] = u[i]
        /\ w[Len(u) + 1] = f
    BY LenProperties, AppendProperties
  <1> HIDE DEF w
  <1>2. \A i \in DOMAIN w : IsReply(w[i]) => i \in DOMAIN u /\ w[i] = u[i]
    BY <1>1
  <1>3. Aligned(c, w)
    BY <1>2 DEF Aligned
  <1> QED
    BY <1>3 DEF w

LEMMA AlignedPrefix ==
  ASSUME NEW c, NEW u \in Seq(Frames), NEW v \in Seq(Frames), Aligned(c, u \o v)
  PROVE  Aligned(c, u)
  <1> DEFINE w == u \o v
  <1>1. /\ Len(u) \in Nat /\ DOMAIN u = 1..Len(u) /\ Len(v) \in Nat
        /\ DOMAIN w = 1..(Len(u) + Len(v))
        /\ \A i \in 1..(Len(u) + Len(v)) : w[i] = IF i <= Len(u) THEN u[i] ELSE v[i - Len(u)]
    BY LenProperties, ConcatProperties
  <1> HIDE DEF w
  <1>2. \A i \in DOMAIN u : i \in DOMAIN w /\ w[i] = u[i]
    BY <1>1
  <1>3. Aligned(c, w)
    BY DEF w
  <1> QED
    BY <1>2, <1>3 DEF Aligned

LEMMA AlignedStep ==
  ASSUME NEW c, NEW u, Aligned(c, u), request[c] \in Keys \cup {None},
         \A k \in Keys : Awaited(c, k) => Awaited(c, k)',
         request'[c] \in {request[c], None}
  PROVE  Aligned(c, u)'
  BY DEF Aligned

-----------------------------------------------------------------------------
\* The calls.

\* What leaving does to the thread that leaves, and to the others.
LEMMA LeaveCall ==
  ASSUME TypeOK, CallInv, NEW t \in Threads, Leave(t), UNCHANGED <<holds, inHand>>,
         reading' = [reading EXCEPT ![t] = None], inHand[t] = None
  PROVE  CallInv'
  BY DEF CallInv, TypeOK, Cache!TypeOK, Leave, Reading, Draining, Ticketed, Answered

\* The tickets: reading holds the key of whoever is between ticket and offer.
LEMMA Abandoned ==
  ASSUME TypeOK, CallInv, NEW t \in Threads, AbandonTicket(t)
  PROVE  reading' = [reading EXCEPT ![t] = None]
  BY DEF TypeOK, Cache!TypeOK, AbandonTicket, Cache!Abandon, cacheVars

LEMMA ReadCall == ASSUME Inv, NEW t \in Threads, ReadStep(t) PROVE CallInv'
  <1> USE DEF Inv
  <1>1. CASE ParsePush(t)
    BY <1>1 DEF ParsePush, CallInv, TypeOK, Cache!TypeOK, Reading, Draining, callVars,
      cacheVars
  <1>2. CASE HandlePush(t)
    <2>1. UNCHANGED reading
      BY <1>2 DEF HandlePush, Cache!DropAll, Cache!DropKeys
    <2> QED
      BY <1>2, <2>1 DEF HandlePush, CallInv, TypeOK, Reading, Draining, callVars
  <1>3. ASSUME Draining(t), inHand[t] = None, DrainOver(t), UNCHANGED <<holds, inHand>>
        PROVE CallInv'
    BY <1>3 DEF DrainOver, AfterDrain, CallInv, TypeOK, Reading, Draining, Ticketed,
      Answered, cacheVars
  <1>4. ASSUME Draining(t), inHand[t] = None, DrainFails(t), UNCHANGED <<holds, inHand>>
        PROVE CallInv'
    BY <1>3, <1>4, LeaveCall, Abandoned DEF DrainFails
  <1>5. CASE DrainEnds(t) \/ DrainMeetsReply(t) \/ DrainMeetsEOF(t)
    BY <1>3, <1>4, <1>5 DEF DrainEnds, DrainMeetsReply, DrainMeetsEOF
  <1>6. CASE DrainTorn(t)
    <2>1. CASE DrainOver(t)
      BY <1>3, <1>6, <2>1 DEF DrainTorn
    <2>2. CASE Leave(t) /\ UNCHANGED cacheVars
      <3>1. pc[t] = "peer"
        BY <1>6 DEF DrainTorn, Draining, Socket, HeldInv, CallInv
      <3>2. reading' = [reading EXCEPT ![t] = None]
        BY <2>2, <3>1 DEF CallInv, Ticketed, TypeOK, Cache!TypeOK, cacheVars
      <3> QED
        BY <1>6, <2>2, <3>2, LeaveCall DEF DrainTorn
    <2> QED
      BY <1>6, <2>1, <2>2 DEF DrainTorn
  <1>7. CASE ReadReply(t)
    <2>1. /\ Socket(t) = holds[t] /\ Head(inbox[holds[t]]) \in Frames
          /\ KeysOf(Head(inbox[holds[t]])) = {key[t]}
      BY <1>7, OwnReply DEF ReadReply, Waiting
    <2>2. Head(inbox[holds[t]]).at[key[t]] \in 0..MaxWrites
      BY <2>1, FrameParts
    <2> QED
      BY <1>7, <2>1, <2>2 DEF ReadReply, CallInv, TypeOK, Reading, Draining, Ticketed,
        Answered, cacheVars
  <1>8. CASE AwaitInVain(t)
    BY <1>8, LeaveCall, Abandoned DEF AwaitInVain, AwaitFails
  <1>9. CASE PipeReply(t)
    <2>1. reading' = [reading EXCEPT ![t] = None]
      BY <1>9 DEF PipeReply, CallInv, Ticketed, TypeOK, Cache!TypeOK, cacheVars
    <2> QED
      BY <1>9, <2>1, LeaveCall DEF PipeReply
  <1> QED
    BY <1>1, <1>2, <1>5, <1>6, <1>7, <1>8, <1>9 DEF ReadStep

LEMMA GoOnCall ==
  ASSUME Inv, NEW t \in Threads, CallStep(t) \/ LockStep(t)
  PROVE  CallInv'
  <1> USE DEF Inv
  <1>1. ASSUME NEW c \in Conns, SweepPeer(t, c) PROVE CallInv'
    BY <1>1, NoneAssumption DEF SweepPeer, CallInv, TypeOK, Reading, Draining, Ticketed,
      Answered, cacheVars
  <1>2. CASE SweepDone(t)
    BY <1>2 DEF SweepDone, CallInv, TypeOK, Reading, Draining, Ticketed, Answered,
      callVars, cacheVars
  <1>3. CASE Hit(t)
    <2>1. pc[t] = "lookup" /\ inHand[t] = None
      BY <1>3 DEF Hit, CallInv, Reading, Draining
    <2>2. reading' = [reading EXCEPT ![t] = None]
      BY <1>3, <2>1 DEF Hit, CallInv, Ticketed, TypeOK, Cache!TypeOK, cacheVars
    <2> QED
      BY <1>3, <2>1, <2>2, LeaveCall DEF Hit
  <1>4. CASE Missed(t)
    BY <1>4 DEF Missed, CallInv, TypeOK, Reading, Draining, Ticketed, Answered, cacheVars
  <1>5. CASE TakeTicket(t)
    BY <1>5 DEF TakeTicket, Cache!TakeGeneration, CallInv, TypeOK, Cache!TypeOK, Reading,
      Draining, Ticketed, Answered, callVars
  <1>6. CASE CheckUsable(t)
    BY <1>6 DEF CheckUsable, CallInv, TypeOK, Reading, Draining, Ticketed, Answered,
      callVars, cacheVars
  <1>7. CASE RefuseBroken(t)
    <2>1. inHand[t] = None
      BY <1>7 DEF RefuseBroken, CallInv, Reading, Draining
    <2> QED
      BY <1>7, <2>1, LeaveCall, Abandoned DEF RefuseBroken
  <1>8. CASE Offer(t)
    <2>1. inHand[t] = None
      BY <1>8 DEF Offer, CallInv, Reading, Draining
    <2>2. reading' = [reading EXCEPT ![t] = None]
      BY <1>8 DEF Offer, Cache!Offer
    <2> QED
      BY <1>8, <2>1, <2>2, LeaveCall DEF Offer
  <1>9. ASSUME EnterDrain(t, "own1", "drain1", "lookup")
               \/ EnterDrain(t, "own2", "drain2", "offer")
        PROVE  CallInv'
    BY <1>9 DEF EnterDrain, CallInv, TypeOK, Reading, Draining, Ticketed, Answered,
      callVars, cacheVars
  <1>10. CASE Send(t)
    BY <1>10 DEF Send, CallInv, TypeOK, Reading, Draining, Ticketed, Answered, callVars,
      cacheVars
  <1> QED
    BY <1>1, <1>2, <1>3, <1>4, <1>5, <1>6, <1>7, <1>8, <1>9, <1>10
    DEF CallStep, LockStep

LEMMA ChooseCall == ASSUME Inv, NEW t \in Threads, ChoiceStep(t) PROVE CallInv'
  <1> USE DEF Inv
  <1>1. ASSUME NEW c \in Conns, Borrow(t, c) \/ Open(t, c) PROVE CallInv'
    BY <1>1, NoneAssumption DEF Borrow, Open, CallInv, TypeOK, Reading, Draining, callVars,
      cacheVars
  <1>2. CASE Release(t)
    <2>1. UNCHANGED <<pc, key, peer, inHand, reading, answer>>
      BY <1>2 DEF Release, Close, callVars, cacheVars
    <2> QED
      BY <1>2, <2>1 DEF Release, CallInv, TypeOK, Reading, Draining
  <1>3. ASSUME NEW k \in Keys, Call(t, k) PROVE CallInv'
    BY <1>3 DEF Call, CallInv, TypeOK, Reading, Draining, Ticketed, Answered, cacheVars
  <1>4. ASSUME NEW k \in Keys, PipeSend(t, k) PROVE CallInv'
    BY <1>4 DEF PipeSend, CallInv, TypeOK, Reading, Draining, Ticketed, Answered, cacheVars
  <1>5. CASE ReplyWasError(t)
    <2>1. inHand[t] = None
      BY <1>5 DEF ReplyWasError, CallInv, Reading, Draining
    <2> QED
      BY <1>5, <2>1, LeaveCall, Abandoned DEF ReplyWasError
  <1>6. CASE DrainTimesOut(t)
    <2>1. CASE pc[t] = "peer"
      BY <1>6, <2>1 DEF DrainTimesOut, DrainFails, DrainOver, AfterDrain, CallInv, TypeOK,
        Reading, Draining, Ticketed, Answered, cacheVars
    <2>2. CASE pc[t] # "peer"
      BY <1>6, <2>2, LeaveCall, Abandoned DEF DrainTimesOut, DrainFails
    <2> QED
      BY <2>1, <2>2
  <1>7. CASE AwaitTimesOut(t)
    BY <1>7, LeaveCall, Abandoned DEF AwaitTimesOut, AwaitFails
  <1>8. CASE SendFails(t)
    <2>1. inHand[t] = None
      BY <1>8 DEF SendFails, CallInv, Reading, Draining
    <2> QED
      BY <1>8, <2>1, LeaveCall, Abandoned DEF SendFails
  <1> QED
    BY <1>1, <1>2, <1>3, <1>4, <1>5, <1>6, <1>7, <1>8 DEF ChoiceStep

LEMMA NextCall == ASSUME Inv, [Next]_vars PROVE CallInv'
  <1>1. CASE UNCHANGED <<holds, pc, key, peer, inHand, reading, answer>>
    BY <1>1 DEF Inv, CallInv, Reading, Draining
  <1>2. CASE Environment
    BY <1>1, <1>2, ClearLeaves
    DEF Environment, Serve, Deliver, Split, Lose, DiscardIdle, Close, Write,
      FlushAll, Change, callVars, cacheVars
  <1> QED
    BY <1>1, <1>2, ReadCall, GoOnCall, ChooseCall DEF Next, vars, callVars, cacheVars

-----------------------------------------------------------------------------
\* The I/O locks.

\* A reader gives up its lock; that of every other reader is another one.
LEMMA UnlockedByOwner ==
  ASSUME TypeOK, CallInv, LockInv, NEW t \in Threads,
         Draining(t) \/ pc[t] = "await", Unlock(Socket(t)),
         ~(pc'[t] \in {"peer", "drain1", "drain2", "await"}),
         \A u \in Threads : u # t => pc'[u] = pc[u] /\ peer'[u] = peer[u],
         UNCHANGED holds
  PROVE  LockInv'
  <1> SUFFICES ASSUME NEW u \in Threads, u # t, Draining(u) \/ pc[u] = "await"
               PROVE  ioLock'[Socket(u)'] = u
    BY DEF LockInv, Draining
  <1>1. Socket(u)' = Socket(u)
    BY DEF Socket
  <1>2. ioLock[Socket(u)] = u /\ ioLock[Socket(t)] = t
    BY DEF LockInv
  <1> QED
    BY <1>1, <1>2 DEF Unlock, TypeOK

\* A lock that was free is taken by a thread for the connection it turns to.
LEMMA LockedByReader ==
  ASSUME TypeOK, LockInv, NEW t \in Threads, NEW c \in Conns, ioLock[c] = None,
         ioLock' = [ioLock EXCEPT ![c] = t], Socket(t)' = c,
         \A u \in Threads : u # t => pc'[u] = pc[u] /\ Socket(u)' = Socket(u)
  PROVE  LockInv'
  <1> SUFFICES ASSUME NEW u \in Threads, Draining(u)' \/ pc'[u] = "await"
               PROVE  ioLock'[Socket(u)'] = u
    BY DEF LockInv
  <1>1. CASE u = t
    BY <1>1 DEF TypeOK
  <1>2. CASE u # t
    <2>1. ioLock[Socket(u)] = u /\ Socket(u)' = Socket(u)
      BY <1>2 DEF LockInv, Draining
    <2>2. Socket(u) # c
      BY <2>1, NoneAssumption
    <2> QED
      BY <2>1, <2>2 DEF TypeOK
  <1> QED
    BY <1>1, <1>2

LEMMA LockKept ==
  ASSUME LockInv, UNCHANGED ioLock,
         \A u \in Threads : pc'[u] \in {"peer", "drain1", "drain2", "await"} =>
            pc'[u] = pc[u] /\ holds'[u] = holds[u] /\ peer'[u] = peer[u]
  PROVE  LockInv'
  BY DEF LockInv, Draining, Socket

LEMMA ReadLock == ASSUME Inv, NEW t \in Threads, ReadStep(t) PROVE LockInv'
  <1> USE DEF Inv
  <1>1. CASE ParsePush(t) \/ HandlePush(t)
    BY <1>1, LockKept DEF ParsePush, HandlePush, connVars, callVars
  <1>2. ASSUME Draining(t) \/ pc[t] = "await", DrainOver(t), Draining(t), UNCHANGED holds
        PROVE  LockInv'
    BY <1>2, UnlockedByOwner DEF DrainOver, AfterDrain, TypeOK, Draining
  <1>3. ASSUME Draining(t) \/ pc[t] = "await", Unlock(Socket(t)), Leave(t), UNCHANGED holds
        PROVE  LockInv'
    BY <1>3, UnlockedByOwner DEF Leave, TypeOK
  <1>4. CASE DrainEnds(t) \/ DrainMeetsReply(t) \/ DrainMeetsEOF(t) \/ DrainTorn(t)
    BY <1>2, <1>3, <1>4 DEF DrainEnds, DrainMeetsReply, DrainMeetsEOF, DrainTorn, DrainFails
  <1>5. CASE ReadReply(t)
    BY <1>5, UnlockedByOwner DEF ReadReply, TypeOK
  <1>6. CASE AwaitInVain(t)
    <2>1. CASE pc[t] = "await"
      BY <1>3, <1>6, <2>1 DEF AwaitInVain, AwaitFails
    <2>2. CASE pc[t] # "await"
      BY <1>6, <2>2, LockKept DEF AwaitInVain, AwaitFails, Leave, TypeOK
    <2> QED
      BY <2>1, <2>2
  <1>7. CASE PipeReply(t)
    BY <1>7, LockKept DEF PipeReply, Leave, TypeOK, connVars
  <1> QED
    BY <1>1, <1>4, <1>5, <1>6, <1>7 DEF ReadStep

LEMMA GoOnLock ==
  ASSUME Inv, NEW t \in Threads, CallStep(t) \/ LockStep(t)
  PROVE  LockInv'
  <1> USE DEF Inv
  <1>1. ASSUME NEW c \in Conns, SweepPeer(t, c) PROVE LockInv'
    <2>1. CASE UNCHANGED <<pc, peer, ioLock>>
      BY <1>1, <2>1, LockKept DEF SweepPeer
    <2>2. CASE Usable(c) /\ ioLock[c] = None /\ ioLock' = [ioLock EXCEPT ![c] = t]
               /\ pc' = [pc EXCEPT ![t] = "peer"] /\ peer' = [peer EXCEPT ![t] = c]
      <3>1. Socket(t)' = c
        BY <2>2, NoneAssumption DEF Socket, TypeOK
      <3>2. \A u \in Threads : u # t => pc'[u] = pc[u] /\ Socket(u)' = Socket(u)
        BY <1>1, <2>2 DEF SweepPeer, Socket, TypeOK
      <3> QED
        BY <2>2, <3>1, <3>2, LockedByReader
    <2> QED
      BY <1>1, <2>1, <2>2 DEF SweepPeer
  <1>2. CASE \/ SweepDone(t) \/ Hit(t) \/ Missed(t) \/ TakeTicket(t)
             \/ CheckUsable(t) \/ RefuseBroken(t) \/ Offer(t)
    BY <1>2, LockKept DEF SweepDone, Hit, Missed, TakeTicket, CheckUsable, RefuseBroken,
      Offer, Leave, TypeOK, connVars, callVars
  <1>3. ASSUME pc[t] # "peer", NEW p \in {"drain1", "drain2", "await"},
               ioLock[Socket(t)] = None, ioLock' = [ioLock EXCEPT ![Socket(t)] = t],
               pc' = [pc EXCEPT ![t] = p], pc[t] # "out", UNCHANGED <<holds, peer>>
        PROVE  LockInv'
    <2>1. PICK c \in Conns : c = Socket(t)
      BY <1>3 DEF Socket, CallInv, TypeOK
    <2>2. Socket(t)' = c /\ \A u \in Threads : u # t => pc'[u] = pc[u] /\ Socket(u)' = Socket(u)
      BY <1>3, <2>1 DEF Socket, TypeOK
    <2> QED
      BY <1>3, <2>1, <2>2, LockedByReader
  <1>4. ASSUME NEW from \in {"own1", "own2"}, NEW during \in {"drain1", "drain2"},
               NEW after \in {"lookup", "offer"}, EnterDrain(t, from, during, after)
        PROVE  LockInv'
    <2>1. CASE UNCHANGED ioLock /\ pc' = [pc EXCEPT ![t] = after]
      BY <1>4, <2>1, LockKept DEF EnterDrain, TypeOK, callVars
    <2> QED
      BY <1>3, <1>4, <2>1 DEF EnterDrain, callVars
  <1>5. CASE Send(t)
    BY <1>3, <1>5 DEF Send, callVars
  <1> QED
    BY <1>1, <1>2, <1>4, <1>5 DEF CallStep, LockStep

LEMMA ChooseLock == ASSUME Inv, NEW t \in Threads, ChoiceStep(t) PROVE LockInv'
  <1> USE DEF Inv
  <1>1. ASSUME NEW c \in Conns, Borrow(t, c) \/ Open(t, c) PROVE LockInv'
    BY <1>1, LockKept DEF Borrow, Open, TypeOK, connVars, callVars
  <1>2. CASE Release(t)
    BY <1>2, LockKept DEF Release, Close, TypeOK, connVars, callVars
  <1>3. ASSUME NEW k \in Keys, Call(t, k) \/ PipeSend(t, k) PROVE LockInv'
    BY <1>3, LockKept DEF Call, PipeSend, TypeOK, connVars
  <1>4. CASE ReplyWasError(t)
    BY <1>4, LockKept DEF ReplyWasError, Leave, TypeOK, connVars
  <1>5. ASSUME Draining(t) \/ pc[t] = "await", Unlock(Socket(t)), Leave(t), UNCHANGED holds
        PROVE  LockInv'
    BY <1>5, UnlockedByOwner DEF Leave, TypeOK
  <1>6. CASE DrainTimesOut(t)
    BY <1>5, <1>6, UnlockedByOwner DEF DrainTimesOut, DrainFails, DrainOver, AfterDrain, TypeOK
  <1>7. CASE AwaitTimesOut(t)
    <2>1. CASE pc[t] = "await"
      BY <1>5, <1>7, <2>1 DEF AwaitTimesOut, AwaitFails
    <2>2. CASE pc[t] # "await"
      BY <1>7, <2>2, LockKept DEF AwaitTimesOut, AwaitFails, Leave, TypeOK
    <2> QED
      BY <2>1, <2>2
  <1>8. CASE SendFails(t)
    BY <1>8, LockKept DEF SendFails, Leave, TypeOK
  <1> QED
    BY <1>1, <1>2, <1>3, <1>4, <1>6, <1>7, <1>8 DEF ChoiceStep

LEMMA NextLock == ASSUME Inv, [Next]_vars PROVE LockInv'
  <1>1. CASE UNCHANGED <<ioLock, pc, holds, peer>>
    BY <1>1, LockKept DEF Inv
  <1>2. CASE Environment
    BY <1>1, <1>2, ClearLeaves
    DEF Environment, Serve, Deliver, Split, Lose, DiscardIdle, Close, Write,
      FlushAll, Change, callVars, connVars
  <1> QED
    BY <1>1, <1>2, ReadLock, GoOnLock, ChooseLock DEF Next, vars, callVars, connVars

-----------------------------------------------------------------------------
\* Nobody waits for an I/O lock with another in hand.

\* A lock that is taken is held by a thread that is reading that very connection.  So a
\* holder has one lock, waits for no other, and leaves none behind when its call ends.
LocksServed ==
    \A c \in Conns, t \in Threads :
        ioLock[c] = t => (Draining(t) \/ pc[t] = "await") /\ Socket(t) = c

\* A reader gives its lock up, the only one it had.
LEMMA ServedUnlocking ==
  ASSUME TypeOK, LocksServed, NEW t \in Threads, Unlock(Socket(t)),
         \A u \in Threads : u # t => pc'[u] = pc[u] /\ Socket(u)' = Socket(u)
  PROVE  LocksServed'
  <1> SUFFICES ASSUME NEW c \in Conns, NEW u \in Threads, ioLock'[c] = u
               PROVE  (Draining(u)' \/ pc'[u] = "await") /\ Socket(u)' = c
    BY DEF LocksServed
  <1>1. c # Socket(t) /\ ioLock[c] = u
    BY NoneAssumption DEF Unlock, TypeOK
  <1>2. (Draining(u) \/ pc[u] = "await") /\ Socket(u) = c
    BY <1>1 DEF LocksServed
  <1> QED
    BY <1>1, <1>2 DEF Draining

\* A thread that has no lock takes one.
LEMMA ServedLocking ==
  ASSUME TypeOK, LocksServed, NEW t \in Threads, NEW c \in Conns,
         ~(Draining(t) \/ pc[t] = "await"), ioLock' = [ioLock EXCEPT ![c] = t],
         pc'[t] \in {"peer", "drain1", "drain2", "await"}, Socket(t)' = c,
         \A u \in Threads : u # t => pc'[u] = pc[u] /\ Socket(u)' = Socket(u)
  PROVE  LocksServed'
  <1> SUFFICES ASSUME NEW d \in Conns, NEW u \in Threads, ioLock'[d] = u
               PROVE  (Draining(u)' \/ pc'[u] = "await") /\ Socket(u)' = d
    BY DEF LocksServed
  <1>1. CASE d = c
    BY <1>1 DEF TypeOK, Draining
  <1>2. CASE d # c
    <2>1. ioLock[d] = u
      BY <1>2 DEF TypeOK
    <2>2. (Draining(u) \/ pc[u] = "await") /\ Socket(u) = d
      BY <2>1 DEF LocksServed
    <2> QED
      BY <2>2 DEF Draining
  <1> QED
    BY <1>1, <1>2

LEMMA ServedKept ==
  ASSUME LocksServed, UNCHANGED ioLock,
         \A u \in Threads : pc[u] \in {"peer", "drain1", "drain2", "await"} =>
            pc'[u] = pc[u] /\ holds'[u] = holds[u] /\ peer'[u] = peer[u]
  PROVE  LocksServed'
  BY DEF LocksServed, Draining, Socket

LEMMA ReadServed ==
  ASSUME Inv, LocksServed, NEW t \in Threads, ReadStep(t)
  PROVE  LocksServed'
  <1> USE DEF Inv
  <1>1. CASE ParsePush(t) \/ HandlePush(t)
    BY <1>1, ServedKept DEF ParsePush, HandlePush, connVars, callVars
  <1>2. ASSUME DrainOver(t), UNCHANGED holds PROVE LocksServed'
    BY <1>2, ServedUnlocking DEF DrainOver, Socket, TypeOK
  <1>3. ASSUME Unlock(Socket(t)), Leave(t), UNCHANGED holds PROVE LocksServed'
    BY <1>3, ServedUnlocking DEF Leave, Socket, TypeOK
  <1>4. CASE DrainEnds(t) \/ DrainMeetsReply(t) \/ DrainMeetsEOF(t) \/ DrainTorn(t)
    BY <1>2, <1>3, <1>4 DEF DrainEnds, DrainMeetsReply, DrainMeetsEOF, DrainTorn, DrainFails
  <1>5. CASE ReadReply(t)
    BY <1>5, ServedUnlocking DEF ReadReply, Socket, TypeOK
  <1>6. CASE AwaitInVain(t)
    <2>1. CASE pc[t] = "await"
      BY <1>3, <1>6, <2>1 DEF AwaitInVain, AwaitFails
    <2>2. CASE pc[t] # "await"
      BY <1>6, <2>2, ServedKept DEF AwaitInVain, AwaitFails, Leave, TypeOK
    <2> QED
      BY <2>1, <2>2
  <1>7. CASE PipeReply(t)
    BY <1>7, ServedKept DEF PipeReply, Leave, TypeOK, connVars
  <1> QED
    BY <1>1, <1>4, <1>5, <1>6, <1>7 DEF ReadStep

LEMMA GoOnServed ==
  ASSUME Inv, LocksServed, NEW t \in Threads, CallStep(t) \/ LockStep(t)
  PROVE  LocksServed'
  <1> USE DEF Inv
  <1>1. ASSUME NEW c \in Conns, SweepPeer(t, c) PROVE LocksServed'
    <2>1. CASE UNCHANGED <<pc, peer, ioLock>>
      BY <1>1, <2>1, ServedKept DEF SweepPeer
    <2>2. CASE ioLock' = [ioLock EXCEPT ![c] = t] /\ pc' = [pc EXCEPT ![t] = "peer"]
               /\ peer' = [peer EXCEPT ![t] = c]
      <3>1. Socket(t)' = c /\ pc'[t] = "peer" /\ ~(Draining(t) \/ pc[t] = "await")
        BY <1>1, <2>2, NoneAssumption DEF SweepPeer, Socket, Draining, TypeOK
      <3>2. \A u \in Threads : u # t => pc'[u] = pc[u] /\ Socket(u)' = Socket(u)
        BY <1>1, <2>2 DEF SweepPeer, Socket, TypeOK
      <3> QED
        BY <2>2, <3>1, <3>2, ServedLocking
    <2> QED
      BY <1>1, <2>1, <2>2 DEF SweepPeer
  <1>2. CASE \/ SweepDone(t) \/ Hit(t) \/ Missed(t) \/ TakeTicket(t)
             \/ CheckUsable(t) \/ RefuseBroken(t) \/ Offer(t)
    BY <1>2, ServedKept DEF SweepDone, Hit, Missed, TakeTicket, CheckUsable, RefuseBroken,
      Offer, Leave, TypeOK, connVars, callVars
  <1>3. ASSUME pc[t] \in {"own1", "own2", "send"}, NEW p \in {"drain1", "drain2", "await"},
               ioLock' = [ioLock EXCEPT ![Socket(t)] = t], pc' = [pc EXCEPT ![t] = p],
               UNCHANGED <<holds, peer>>
        PROVE  LocksServed'
    <2>1. PICK c \in Conns : c = Socket(t)
      BY <1>3 DEF Socket, CallInv, TypeOK
    <2>2. /\ Socket(t)' = c /\ pc'[t] = p /\ ~(Draining(t) \/ pc[t] = "await")
          /\ \A u \in Threads : u # t => pc'[u] = pc[u] /\ Socket(u)' = Socket(u)
      BY <1>3, <2>1 DEF Socket, Draining, TypeOK
    <2> QED
      BY <1>3, <2>1, <2>2, ServedLocking
  <1>4. ASSUME NEW from \in {"own1", "own2"}, NEW during \in {"drain1", "drain2"},
               NEW after \in {"lookup", "offer"}, EnterDrain(t, from, during, after)
        PROVE  LocksServed'
    <2>1. CASE UNCHANGED ioLock /\ pc' = [pc EXCEPT ![t] = after]
      BY <1>4, <2>1, ServedKept DEF EnterDrain, TypeOK, callVars
    <2> QED
      BY <1>3, <1>4, <2>1 DEF EnterDrain, callVars
  <1>5. CASE Send(t)
    BY <1>3, <1>5 DEF Send, callVars
  <1> QED
    BY <1>1, <1>2, <1>4, <1>5 DEF CallStep, LockStep

LEMMA ChooseServed ==
  ASSUME Inv, LocksServed, NEW t \in Threads, ChoiceStep(t)
  PROVE  LocksServed'
  <1> USE DEF Inv
  <1>1. ASSUME NEW c \in Conns, Borrow(t, c) \/ Open(t, c) PROVE LocksServed'
    BY <1>1, ServedKept DEF Borrow, Open, TypeOK, connVars, callVars
  <1>2. CASE Release(t)
    BY <1>2, ServedKept DEF Release, Close, TypeOK, connVars, callVars
  <1>3. ASSUME NEW k \in Keys, Call(t, k) \/ PipeSend(t, k) PROVE LocksServed'
    BY <1>3, ServedKept DEF Call, PipeSend, TypeOK, connVars
  <1>4. CASE ReplyWasError(t)
    BY <1>4, ServedKept DEF ReplyWasError, Leave, TypeOK, connVars
  <1>5. ASSUME Unlock(Socket(t)), Leave(t), UNCHANGED holds PROVE LocksServed'
    BY <1>5, ServedUnlocking DEF Leave, Socket, TypeOK
  <1>6. CASE DrainTimesOut(t)
    BY <1>5, <1>6, ServedUnlocking DEF DrainTimesOut, DrainFails, DrainOver, Socket, TypeOK
  <1>7. CASE AwaitTimesOut(t)
    <2>1. CASE pc[t] = "await"
      BY <1>5, <1>7, <2>1 DEF AwaitTimesOut, AwaitFails
    <2>2. CASE pc[t] # "await"
      BY <1>7, <2>2, ServedKept DEF AwaitTimesOut, AwaitFails, Leave, TypeOK
    <2> QED
      BY <2>1, <2>2
  <1>8. CASE SendFails(t)
    BY <1>8, ServedKept DEF SendFails, Leave, TypeOK
  <1> QED
    BY <1>1, <1>2, <1>3, <1>4, <1>6, <1>7, <1>8 DEF ChoiceStep

LEMMA NextServed == ASSUME Inv, LocksServed, [Next]_vars PROVE LocksServed'
  <1>1. CASE UNCHANGED <<ioLock, pc, holds, peer>>
    BY <1>1, ServedKept
  <1>2. CASE Environment
    BY <1>1, <1>2, ClearLeaves
    DEF Environment, Serve, Deliver, Split, Lose, DiscardIdle, Close, Write,
      FlushAll, Change, callVars, connVars
  <1> QED
    BY <1>1, <1>2, ReadServed, GoOnServed, ChooseServed DEF Next, vars, callVars, connVars

-----------------------------------------------------------------------------
\* The streams.

\* The steps that touch what is on its way on a connection.
StreamStep ==
    \/ \E t \in Threads : \/ ParsePush(t) \/ DrainMeetsReply(t) \/ ReadReply(t)
                          \/ PipeReply(t) \/ Send(t) \/ Release(t)
                          \/ \E c \in Conns : Open(t, c)
                          \/ \E k \in Keys : PipeSend(t, k)
    \/ Environment

LEMMA StreamsStay ==
  Next => StreamStep \/ UNCHANGED <<serverVars, netVars, status>>
  <1>1. ASSUME NEW t \in Threads, ReadStep(t)
        PROVE  StreamStep \/ UNCHANGED <<serverVars, netVars, status>>
    BY <1>1 DEF ReadStep, StreamStep, HandlePush, DrainEnds, DrainMeetsEOF, DrainTorn,
      AwaitInVain, AwaitFails, connVars
  <1>2. ASSUME NEW t \in Threads, CallStep(t) \/ LockStep(t)
        PROVE  StreamStep \/ UNCHANGED <<serverVars, netVars, status>>
    BY <1>2 DEF CallStep, LockStep, StreamStep, SweepPeer, SweepDone, Hit, Missed,
      TakeTicket, CheckUsable, RefuseBroken, Offer, EnterDrain, connVars
  <1>3. ASSUME NEW t \in Threads, ChoiceStep(t)
        PROVE  StreamStep \/ UNCHANGED <<serverVars, netVars, status>>
    BY <1>3 DEF ChoiceStep, StreamStep, Borrow, Call, ReplyWasError, DrainTimesOut,
      AwaitTimesOut, SendFails, AwaitFails, connVars
  <1> QED
    BY <1>1, <1>2, <1>3 DEF Next, StreamStep

\* The frame the server answers with.
LEMMA ServeFrame ==
  ASSUME TypeOK, NEW c \in Conns, Serve(c)
  PROVE  /\ request[c] \in Keys
         /\ \E f \in Frames : /\ IsReply(f) /\ KeysOf(f) = {request[c]}
                              /\ f.at[request[c]] = version[request[c]]
                              /\ wire' = [wire EXCEPT ![c] = Append(@, f)]
  <1>1. request[c] \in Keys
    BY DEF Serve, TypeOK
  <1>2. version \in [Keys -> 0..MaxWrites]
    BY DEF TypeOK
  <1>3. PICK v \in [Keys -> 0..MaxWrites], ks \in SUBSET Keys :
             v = version /\ ks = {request[c]}
    BY <1>1, <1>2
  <1>4. /\ Frame("reply", ks, v) \in Frames /\ Frame("reply", ks, v).kind = "reply"
        /\ KeysOf(Frame("reply", ks, v)) = ks
        /\ \A k \in ks : Frame("reply", ks, v).at[k] = v[k]
    BY FrameMade
  <1>5. wire' = [wire EXCEPT ![c] = Append(@, Frame("reply", ks, v))]
    BY <1>3 DEF Serve
  <1> QED
    BY <1>1, <1>3, <1>4, <1>5 DEF IsReply

\* The frame it announces a change with, sent to the connections in told.
Sent(f, told) ==
    \A c \in Conns : wire'[c] = IF c \in told THEN Append(wire[c], f) ELSE wire[c]

LEMMA ChangeFrame ==
  ASSUME TypeOK, NEW ks \in SUBSET Keys, NEW kind \in {"invalidate", "flush"},
         NEW told \in SUBSET Conns, Change(ks, kind, told)
  PROVE  /\ version' \in [Keys -> 0..MaxWrites]
         /\ \A k \in Keys : version'[k] = IF k \in ks THEN version[k] + 1 ELSE version[k]
         /\ \E f \in Frames : /\ ~IsReply(f) /\ KeysOf(f) = ks /\ f.kind = kind
                              /\ \A k \in ks : f.at[k] = version'[k]
                              /\ Sent(f, told)
  <1>1. version \in [Keys -> 0..MaxWrites] /\ \A k \in ks : version[k] < MaxWrites
    BY DEF Change, TypeOK
  <1>2. /\ version' \in [Keys -> 0..MaxWrites]
        /\ \A k \in Keys : version'[k] = IF k \in ks THEN version[k] + 1 ELSE version[k]
    BY <1>1, BoundsAssumption DEF Change
  <1>3. PICK v \in [Keys -> 0..MaxWrites] : v = version'
    BY <1>2
  <1>4. /\ Frame(kind, ks, v) \in Frames /\ Frame(kind, ks, v).kind = kind
        /\ KeysOf(Frame(kind, ks, v)) = ks
        /\ \A k \in ks : Frame(kind, ks, v).at[k] = v[k]
    BY FrameMade
  <1>5. Sent(Frame(kind, ks, v), told)
    BY <1>3 DEF Change, Frame, Sent
  <1> QED
    BY <1>2, <1>3, <1>4, <1>5 DEF IsReply

LEMMA NextClosed == ASSUME Inv, [Next]_vars PROVE ClosedInv'
  <1> USE DEF Inv
  <1>1. CASE UNCHANGED <<serverVars, netVars, status>>
    BY <1>1 DEF ClosedInv, serverVars, netVars
  <1>2. ASSUME NEW c \in Conns, inbox' = [inbox EXCEPT ![c] = Tail(@)], inbox[c] # <<>>,
               UNCHANGED <<serverVars, wire, cut, status>>
        PROVE  ClosedInv'
    BY <1>2 DEF ClosedInv, TypeOK, serverVars
  <1>3. ASSUME NEW t \in Threads,
               ParsePush(t) \/ DrainMeetsReply(t) \/ ReadReply(t) \/ PipeReply(t)
        PROVE  ClosedInv'
    <2>1. Socket(t) \in Conns
      BY <1>3 DEF ParsePush, DrainMeetsReply, ReadReply, PipeReply, Reading, Draining,
        Socket, CallInv, TypeOK
    <2> QED
      BY <1>2, <1>3, <2>1 DEF ParsePush, DrainMeetsReply, ReadReply, PipeReply, connVars
  <1>4. ASSUME NEW t \in Threads, Send(t) PROVE ClosedInv'
    <2>1. Socket(t) = holds[t] /\ status[holds[t]] # "none"
      BY <1>4 DEF Send, Socket, CallInv, HeldInv
    <2> QED
      BY <1>4, <2>1 DEF Send, ClosedInv, TypeOK, netVars
  <1>5. ASSUME NEW t \in Threads, NEW k \in Keys, PipeSend(t, k) PROVE ClosedInv'
    <2>1. status[holds[t]] # "none"
      BY <1>5 DEF PipeSend, HeldInv
    <2> QED
      BY <1>5, <2>1 DEF PipeSend, ClosedInv, TypeOK, netVars, connVars
  <1>6. ASSUME NEW t \in Threads, NEW c \in Conns, Open(t, c) PROVE ClosedInv'
    BY <1>6 DEF Open, ClosedInv, TypeOK, netVars, serverVars
  <1>7. ASSUME NEW c \in Conns, Close(c) PROVE ClosedInv'
    BY <1>7 DEF Close, ClosedInv, TypeOK
  <1>8. ASSUME NEW t \in Threads, Release(t) PROVE ClosedInv'
    <2>1. holds[t] \in Conns
      BY <1>8 DEF Release, TypeOK
    <2> QED
      BY <1>1, <1>7, <1>8, <2>1 DEF Release, connVars
  <1>9. ASSUME NEW c \in Conns, Serve(c) PROVE ClosedInv'
    <2>1. wire'[c] # <<>>
      <3>1. PICK f \in Frames : wire' = [wire EXCEPT ![c] = Append(@, f)]
        BY <1>9, ServeFrame
      <3>2. wire[c] \in Seq(Frames)
        BY UnreadType
      <3>3. Append(wire[c], f) # <<>>
        BY <3>2, AppendProperties
      <3> QED
        BY <3>1, <3>3 DEF TypeOK
    <2> QED
      BY <1>9, <2>1 DEF Serve, ClosedInv, TypeOK, connVars
  <1>10. ASSUME NEW c \in Conns, Deliver(c) PROVE ClosedInv'
    BY <1>10 DEF Deliver, ClosedInv, TypeOK, serverVars, connVars
  <1>11. ASSUME NEW c \in Conns, Split(c) PROVE ClosedInv'
    BY <1>11 DEF Split, ClosedInv, TypeOK, serverVars, connVars
  <1>12. ASSUME NEW c \in Conns, Lose(c) PROVE ClosedInv'
    BY <1>12 DEF Lose, ClosedInv, TypeOK
  <1>13. ASSUME NEW ks \in SUBSET Keys, NEW kind \in {"invalidate", "flush"},
                NEW told \in SUBSET Conns, Change(ks, kind, told),
                \A c \in told : status[c] = "up"
         PROVE  ClosedInv'
    <2>1. \A c \in Conns : wire'[c] = <<>> => wire[c] = <<>>
      <3>1. PICK f \in Frames : Sent(f, told)
        BY <1>13, ChangeFrame
      <3>2. \A c \in Conns : wire[c] \in Seq(Frames)
        BY UnreadType
      <3>3. \A u \in Seq(Frames) : Append(u, f) # <<>>
        BY AppendProperties
      <3> QED
        BY <3>1, <3>2, <3>3 DEF Sent
    <2>2. \A c \in Conns : c \notin told => wire'[c] = wire[c]
      BY <1>13 DEF Change
    <2> QED
      BY <1>13, <2>1, <2>2 DEF Change, ClosedInv, TypeOK, connVars
  <1>14. ASSUME NEW k \in Keys, Write(k) PROVE ClosedInv'
    BY <1>13, <1>14 DEF Write, ClosedInv, TypeOK
  <1>15. CASE FlushAll
    BY <1>13, <1>15 DEF FlushAll
  <1>17. CASE ClearCache
    BY <1>1, <1>17, ClearLeaves DEF serverVars, netVars
  <1>16. CASE Environment
    BY <1>7, <1>9, <1>10, <1>11, <1>12, <1>14, <1>15, <1>16, <1>17 DEF Environment, DiscardIdle
  <1> QED
    BY <1>1, <1>3, <1>4, <1>5, <1>6, <1>8, <1>16, StreamsStay DEF StreamStep, vars, connVars

-----------------------------------------------------------------------------
\* Whose reply is on its way.

\* A connection stays aligned when its stream does and nobody stops waiting.
LEMMA AlignKept ==
  ASSUME TypeOK, NEW c \in Conns, NEW u, u = inbox'[c] \o wire'[c], Aligned(c, u),
         \A k \in Keys : Awaited(c, k) => Awaited(c, k)',
         request'[c] \in {request[c], None}
  PROVE  Aligned(c, Unread(c))'
  <1>1. request[c] \in Keys \cup {None}
    BY DEF TypeOK
  <1>2. Aligned(c, u)'
    BY <1>1, AlignedStep
  <1> QED
    BY <1>2 DEF Aligned, Unread

LEMMA SilenceKept ==
  ASSUME NEW c, NEW u, u = inbox'[c] \o wire'[c], Silent(c, u), request'[c] = request[c]
  PROVE  Aligned(c, Unread(c))'
  <1>1. Silent(c, u)'
    BY DEF Silent
  <1>2. Aligned(c, u)'
    BY <1>1 DEF Silent, Aligned
  <1> QED
    BY <1>2 DEF Aligned, Unread

\* A closed or opened connection has nothing on its way.
LEMMA EmptyAligned ==
  ASSUME NEW c, inbox'[c] = <<>>, wire'[c] = <<>>, request'[c] = None
  PROVE  Aligned(c, Unread(c))'
  <1>1. <<>> \o <<>> = <<>>
    BY ConcatEmptySeq, EmptySeq
  <1>2. DOMAIN <<>> = {}
    OBVIOUS
  <1> QED
    BY <1>1, <1>2 DEF Aligned, Unread

\* Steps of a thread inside a call: it goes on, it takes a frame from some
\* socket, it reads its reply, or it poisons its connection and leaves.
LEMMA ReaderAligns ==
  ASSUME Inv, NEW t \in Threads, UNCHANGED <<request, wire, holds, status>>,
         poisoned \subseteq poisoned',
         \A u \in Threads : u # t => pc'[u] = pc[u] /\ key'[u] = key[u],
         \A c \in Conns : inbox'[c] # inbox[c] => inbox[c] # <<>> /\ inbox'[c] = Tail(inbox[c]),
         \/ /\ ~Waiting(t) /\ pc[t] # "send" /\ pc'[t] \notin {"await", "piped"}
            /\ pc'[t] = "send" => Usable(holds[t])
         \/ pc'[t] = pc[t] /\ key'[t] = key[t]
         \/ pc'[t] = "out" /\ holds[t] \in poisoned'
         \/ /\ pc'[t] \notin {"send", "await", "piped"} /\ Waiting(t)
            /\ inbox[holds[t]] # <<>> /\ IsReply(Head(inbox[holds[t]]))
            /\ inbox'[holds[t]] = Tail(inbox[holds[t]])
  PROVE  AlignInv'
  <1> USE DEF Inv
  <1> SUFFICES ASSUME NEW c \in Conns, Quiet(c)' PROVE Aligned(c, Unread(c))'
    BY DEF AlignInv
  <1> DEFINE Served == /\ c = holds[t] /\ inbox[c] # <<>> /\ IsReply(Head(inbox[c]))
                       /\ Waiting(t) /\ inbox'[c] = Tail(inbox[c])
  <1>1. Quiet(c)
    BY DEF Quiet, Usable, Waiting
  <1>2. Served \/ \A k \in Keys : Awaited(c, k) => Awaited(c, k)'
    BY NoneAssumption DEF HeldInv, Quiet, Usable, Waiting, Awaited
  <1>3. PICK u \in Seq(Frames) : u = Unread(c)
    BY UnreadType
  <1>4. Aligned(c, u)
    BY <1>1, <1>3 DEF AlignInv
  <1>5. inbox[c] \in Seq(Frames) /\ wire[c] \in Seq(Frames)
    BY UnreadType
  <1>6. CASE inbox'[c] = Tail(inbox[c]) /\ inbox[c] # <<>>
    <2>1. Tail(u) = inbox'[c] \o wire'[c] /\ u # <<>> /\ Head(u) = Head(inbox[c])
      <3>1. /\ Tail(inbox[c]) \o wire[c] = Tail(inbox[c] \o wire[c])
            /\ inbox[c] \o wire[c] # <<>> /\ Head(inbox[c] \o wire[c]) = Head(inbox[c])
        BY <1>5, <1>6, PopConcat
      <3>2. u = inbox[c] \o wire[c]
        BY <1>3 DEF Unread
      <3> QED
        BY <3>1, <3>2, <1>6
    <2>2. Aligned(c, Tail(u)) /\ (IsReply(Head(u)) => Silent(c, Tail(u)))
      BY <1>4, <2>1, AlignedTail
    <2>3. CASE Served
      BY <2>1, <2>2, <2>3, SilenceKept
    <2> QED
      BY <1>2, <2>1, <2>2, <2>3, AlignKept
  <1>7. CASE inbox'[c] = inbox[c] /\ ~(inbox'[c] = Tail(inbox[c]) /\ inbox[c] # <<>>)
    <2>1. u = inbox'[c] \o wire'[c]
      BY <1>3, <1>7 DEF Unread
    <2> QED
      BY <1>2, <1>4, <1>7, <2>1, AlignKept
  <1> QED
    BY <1>6, <1>7

\* A command is sent where nothing was on its way.
LEMMA SenderAligns ==
  ASSUME Inv, NEW t \in Threads, NEW k \in Keys, holds[t] \in Conns,
         \/ pc[t] = "send" /\ pc'[t] = "await"
         \/ pc[t] = "out" /\ pc'[t] = "piped" /\ Usable(holds[t]),
         key'[t] = k, request' = [request EXCEPT ![holds[t]] = k],
         \A u \in Threads : u # t => pc'[u] = pc[u] /\ key'[u] = key[u],
         UNCHANGED <<inbox, wire, holds, status, poisoned>>
  PROVE  AlignInv'
  <1> USE DEF Inv
  <1> SUFFICES ASSUME NEW c \in Conns, Quiet(c)' PROVE Aligned(c, Unread(c))'
    BY DEF AlignInv
  <1>1. Quiet(c)
    BY DEF Quiet, Usable, Waiting
  <1>2. PICK u \in Seq(Frames) : u = Unread(c)
    BY UnreadType
  <1>3. Aligned(c, u) /\ u = inbox'[c] \o wire'[c]
    BY <1>1, <1>2 DEF AlignInv, Unread
  <1>4. CASE c = holds[t]
    <2>1. \A j \in Keys : ~Awaited(c, j)
      BY <1>4, NoneAssumption DEF HeldInv, Awaited, Waiting
    <2>2. request[c] \in Keys \cup {None}
      BY DEF TypeOK
    <2>3. Silent(c, u)
      BY <1>3, <2>1, <2>2, NobodyWaits
    <2>4. request'[c] = k /\ Awaited(c, k)'
      BY <1>4 DEF TypeOK, Awaited, Waiting
    <2>5. Aligned(c, u)'
      BY <2>3, <2>4 DEF Silent, Aligned
    <2> QED
      BY <1>3, <2>5 DEF Aligned, Unread
  <1>5. CASE c # holds[t]
    <2>1. request'[c] = request[c] /\ \A j \in Keys : Awaited(c, j) => Awaited(c, j)'
      BY <1>5 DEF TypeOK, Awaited, Waiting
    <2> QED
      BY <1>3, <2>1, AlignKept
  <1> QED
    BY <1>4, <1>5

\* Readers and callers.
LEMMA ReadAlign == ASSUME Inv, NEW t \in Threads, ReadStep(t) PROVE AlignInv'
  <1> USE DEF Inv
  <1>1. Reading(t) => Socket(t) \in Conns
    BY DEF Reading, Draining, Socket, CallInv, TypeOK
  <1>2. CASE ParsePush(t)
    BY <1>1, <1>2, ReaderAligns DEF ParsePush, TypeOK, serverVars, connVars, callVars
  <1>3. CASE HandlePush(t)
    BY <1>3, ReaderAligns DEF HandlePush, serverVars, netVars, connVars, callVars
  <1>4. ASSUME Draining(t), inHand[t] = None, DrainOver(t) \/ DrainFails(t) \/ Leave(t),
               UNCHANGED <<request, wire, holds, status>>, poisoned \subseteq poisoned',
               \/ UNCHANGED inbox
               \/ inbox[Socket(t)] # <<>> /\ inbox' = [inbox EXCEPT ![Socket(t)] = Tail(@)]
        PROVE  AlignInv'
    <2>1. \A u \in Threads : u # t => pc'[u] = pc[u] /\ key'[u] = key[u]
      BY <1>4 DEF DrainOver, DrainFails, Leave, TypeOK
    <2>2. /\ ~Waiting(t) /\ pc[t] # "send"
          /\ pc'[t] \notin {"send", "await", "piped"}
      BY <1>4 DEF DrainOver, DrainFails, Leave, AfterDrain, Draining, Waiting, TypeOK
    <2>3. \A c \in Conns :
             inbox'[c] # inbox[c] => inbox[c] # <<>> /\ inbox'[c] = Tail(inbox[c])
      BY <1>4 DEF TypeOK
    <2> QED
      BY <1>4, <2>1, <2>2, <2>3, ReaderAligns
  <1>5. CASE DrainEnds(t)
    BY <1>4, <1>5 DEF DrainEnds, serverVars, netVars
  <1>6. CASE DrainMeetsReply(t)
    BY <1>4, <1>6 DEF DrainMeetsReply, Poison, serverVars
  <1>7. CASE DrainMeetsEOF(t)
    BY <1>4, <1>7 DEF DrainMeetsEOF, Poison, serverVars, netVars
  <1>8. CASE DrainTorn(t)
    BY <1>4, <1>8 DEF DrainTorn, serverVars, netVars
  <1>9. CASE ReadReply(t) \/ PipeReply(t)
    <2>1. Waiting(t) /\ inbox[Socket(t)] # <<>> /\ IsReply(Head(inbox[Socket(t)]))
      BY <1>9 DEF ReadReply, PipeReply, Waiting
    <2>2. Socket(t) = holds[t] /\ holds[t] \in Conns
      BY <2>1, OwnReply
    <2>3. inbox' = [inbox EXCEPT ![Socket(t)] = Tail(@)]
      BY <1>9 DEF ReadReply, PipeReply
    <2>4. /\ \A u \in Threads : u # t => pc'[u] = pc[u] /\ key'[u] = key[u]
          /\ pc'[t] \notin {"send", "await", "piped"}
      BY <1>9 DEF ReadReply, PipeReply, Leave, TypeOK
    <2>5. \A c \in Conns :
             inbox'[c] # inbox[c] => inbox[c] # <<>> /\ inbox'[c] = Tail(inbox[c])
      BY <2>1, <2>3 DEF TypeOK
    <2>6. inbox'[holds[t]] = Tail(inbox[holds[t]])
      BY <2>2, <2>3 DEF TypeOK
    <2>7. UNCHANGED <<request, wire, holds, status, poisoned>>
      BY <1>9 DEF ReadReply, PipeReply, serverVars, connVars
    <2> QED
      BY <2>1, <2>2, <2>4, <2>5, <2>6, <2>7, ReaderAligns
  <1>10. CASE AwaitInVain(t)
    <2>1. Socket(t) = holds[t]
      BY <1>10 DEF AwaitInVain, AwaitFails, Socket, CallInv
    <2> QED
      BY <1>10, <2>1, ReaderAligns DEF AwaitInVain, AwaitFails, Poison, Leave, TypeOK,
        serverVars, netVars
  <1> QED
    BY <1>2, <1>3, <1>5, <1>6, <1>7, <1>8, <1>9, <1>10 DEF ReadStep

LEMMA GoOnAlign ==
  ASSUME Inv, NEW t \in Threads, CallStep(t) \/ LockStep(t)
  PROVE  AlignInv'
  <1> USE DEF Inv
  <1>1. ASSUME NEW c \in Conns, SweepPeer(t, c) PROVE AlignInv'
    BY <1>1, ReaderAligns DEF SweepPeer, Waiting, TypeOK, serverVars, netVars
  <1>2. CASE SweepDone(t) \/ Missed(t) \/ TakeTicket(t) \/ CheckUsable(t)
    <2>1. pc[t] # "out" /\ pc[t] # "peer" => Socket(t) = holds[t]
      BY DEF Socket, CallInv
    <2> QED
      BY <1>2, <2>1, ReaderAligns DEF SweepDone, Missed, TakeTicket, CheckUsable, Waiting,
        TypeOK, serverVars, netVars, connVars, callVars
  <1>3. CASE Hit(t) \/ RefuseBroken(t) \/ Offer(t)
    BY <1>3, ReaderAligns DEF Hit, RefuseBroken, Offer, Leave, Waiting, TypeOK, serverVars,
      netVars, connVars
  <1>4. CASE EnterDrain(t, "own1", "drain1", "lookup") \/ EnterDrain(t, "own2", "drain2", "offer")
    BY <1>4, ReaderAligns DEF EnterDrain, Waiting, TypeOK, serverVars, netVars, callVars
  <1>5. CASE Send(t)
    <2>1. Socket(t) = holds[t] /\ holds[t] \in Conns /\ key[t] \in Keys
      BY <1>5 DEF Send, Socket, CallInv, TypeOK
    <2>2. PICK k \in Keys : k = key[t]
      BY <2>1
    <2> QED
      BY <1>5, <2>1, <2>2, SenderAligns DEF Send, TypeOK, netVars, callVars
  <1> QED
    BY <1>1, <1>2, <1>3, <1>4, <1>5 DEF CallStep, LockStep

\* A step that nobody inside a call takes: for each connection either nothing
\* has changed, or a push has come, or frames are gone, or all of it is.
LEMMA StreamAligns ==
  ASSUME Inv, \A u \in Threads : Waiting(u) \/ pc[u] = "send" =>
                 pc'[u] = pc[u] /\ key'[u] = key[u] /\ holds'[u] = holds[u],
         \A c \in Conns : Quiet(c)' =>
            \/ inbox'[c] = <<>> /\ wire'[c] = <<>> /\ request'[c] = None
            \/ /\ Quiet(c) /\ request'[c] \in {request[c], None}
               /\ \/ inbox'[c] \o wire'[c] = Unread(c)
                  \/ \E f \in Frames :
                        ~IsReply(f) /\ inbox'[c] \o wire'[c] = Append(Unread(c), f)
                  \/ inbox'[c] = inbox[c] /\ wire'[c] = <<>>
  PROVE  AlignInv'
  <1> USE DEF Inv
  <1> SUFFICES ASSUME NEW c \in Conns, Quiet(c)' PROVE Aligned(c, Unread(c))'
    BY DEF AlignInv
  <1>1. CASE inbox'[c] = <<>> /\ wire'[c] = <<>> /\ request'[c] = None
    BY <1>1, EmptyAligned
  <1>2. CASE Quiet(c) /\ request'[c] \in {request[c], None}
    <2>1. \A k \in Keys : Awaited(c, k) => Awaited(c, k)'
      BY DEF Awaited, Waiting
    <2>2. Aligned(c, Unread(c)) /\ Unread(c) \in Seq(Frames)
      BY <1>2, UnreadType DEF AlignInv
    <2>3. PICK u \in Seq(Frames) : u = Unread(c)
      BY <2>2
    <2>4. CASE inbox'[c] \o wire'[c] = Unread(c)
      BY <1>2, <2>1, <2>2, <2>3, <2>4, AlignKept
    <2>5. CASE \E f \in Frames : ~IsReply(f) /\ inbox'[c] \o wire'[c] = Append(Unread(c), f)
      <3>1. PICK f \in Frames : ~IsReply(f) /\ inbox'[c] \o wire'[c] = Append(Unread(c), f)
        BY <2>5
      <3>2. Aligned(c, Append(u, f))
        BY <2>2, <2>3, <3>1, AlignedPush
      <3> QED
        BY <1>2, <2>1, <2>3, <3>1, <3>2, AlignKept
    <2>6. CASE inbox'[c] = inbox[c] /\ wire'[c] = <<>>
      <3>1. PICK v \in Seq(Frames), w \in Seq(Frames) : v = inbox[c] /\ w = wire[c]
        BY UnreadType
      <3>2. Aligned(c, v \o w)
        BY <2>2, <3>1 DEF Unread
      <3>3. Aligned(c, v) /\ v \o <<>> = v
        BY <3>2, AlignedPrefix, ConcatEmptySeq
      <3> QED
        BY <1>2, <2>1, <2>6, <3>1, <3>3, AlignKept
    <2>7. \/ inbox'[c] = <<>> /\ wire'[c] = <<>> /\ request'[c] = None
          \/ inbox'[c] \o wire'[c] = Unread(c)
          \/ \E f \in Frames : ~IsReply(f) /\ inbox'[c] \o wire'[c] = Append(Unread(c), f)
          \/ inbox'[c] = inbox[c] /\ wire'[c] = <<>>
      OBVIOUS
    <2> QED
      BY <1>1, <2>4, <2>5, <2>6, <2>7
  <1> QED
    BY <1>1, <1>2

\* The pool.
LEMMA PoolAlign ==
  ASSUME Inv, NEW t \in Threads, \/ Release(t)
                                 \/ \E c \in Conns : Borrow(t, c) \/ Open(t, c)
  PROVE  AlignInv'
  <1> USE DEF Inv
  <1>1. /\ UNCHANGED <<pc, key>> /\ pc[t] = "out"
        /\ \A u \in Threads : u # t => holds'[u] = holds[u]
    BY DEF Release, Close, Borrow, Open, connVars, callVars, TypeOK
  <1>2. \A u \in Threads : Waiting(u) \/ pc[u] = "send" =>
           pc'[u] = pc[u] /\ key'[u] = key[u] /\ holds'[u] = holds[u]
    BY <1>1 DEF Waiting
  <1>3. ASSUME NEW c \in Conns, Quiet(c)', ~Quiet(c), Borrow(t, c) \/ Release(t)
        PROVE  FALSE
    BY <1>1, <1>3 DEF Quiet, Waiting, Borrow, Release, Close, Usable, connVars, TypeOK
  <1>4. ASSUME NEW c \in Conns, Borrow(t, c) PROVE AlignInv'
    <2>1. \A d \in Conns : /\ Quiet(d)' => Quiet(d)
                           /\ request'[d] = request[d] /\ inbox'[d] \o wire'[d] = Unread(d)
      BY <1>1, <1>4 DEF Borrow, Quiet, Waiting, Usable, Unread, serverVars, netVars, connVars
    <2> QED
      BY <1>2, <2>1, StreamAligns
  <1>5. ASSUME NEW c \in Conns, Open(t, c) PROVE AlignInv'
    <2>1. inbox'[c] = <<>> /\ wire'[c] = <<>> /\ request'[c] = None
      BY <1>5 DEF Open, ClosedInv, serverVars, netVars
    <2>2. \A d \in Conns : d # c =>
             /\ Quiet(d)' => Quiet(d)
             /\ request'[d] = request[d] /\ inbox'[d] \o wire'[d] = Unread(d)
      BY <1>1, <1>5 DEF Open, Quiet, Waiting, Usable, Unread, serverVars, netVars, TypeOK
    <2> QED
      BY <1>2, <2>1, <2>2, StreamAligns
  <1>6. CASE Release(t)
    <2>1. \A d \in Conns :
             \/ inbox'[d] = <<>> /\ wire'[d] = <<>> /\ request'[d] = None
             \/ /\ Quiet(d)' => Quiet(d)
                /\ request'[d] = request[d] /\ inbox'[d] \o wire'[d] = Unread(d)
      <3>1. CASE UNCHANGED <<serverVars, netVars, connVars>>
        BY <1>1, <1>6, <3>1
        DEF Release, Quiet, Waiting, Usable, Unread, serverVars, netVars, connVars
      <3>2. CASE Close(holds[t])
        BY <1>1, <1>6, <3>2 DEF Close, Release, Quiet, Waiting, Usable, Unread, TypeOK
      <3> QED
        BY <1>6, <3>1, <3>2 DEF Release
    <2> QED
      BY <1>2, <2>1, StreamAligns
  <1> QED
    BY <1>4, <1>5, <1>6

LEMMA ChooseAlign == ASSUME Inv, NEW t \in Threads, ChoiceStep(t) PROVE AlignInv'
  <1> USE DEF Inv
  <1>1. ASSUME NEW k \in Keys, Call(t, k) PROVE AlignInv'
    BY <1>1, ReaderAligns DEF Call, Waiting, TypeOK, serverVars, netVars, connVars
  <1>2. ASSUME NEW k \in Keys, PipeSend(t, k) PROVE AlignInv'
    <2>1. holds[t] \in Conns
      BY <1>2 DEF PipeSend, TypeOK
    <2> QED
      BY <1>2, <2>1, SenderAligns DEF PipeSend, TypeOK, netVars, connVars
  <1>3. CASE ReplyWasError(t)
    BY <1>3, ReaderAligns DEF ReplyWasError, Leave, Waiting, TypeOK, serverVars, netVars, connVars
  <1>4. CASE DrainTimesOut(t)
    <2>1. \A u \in Threads : u # t => pc'[u] = pc[u] /\ key'[u] = key[u]
      BY <1>4 DEF DrainTimesOut, DrainOver, DrainFails, Leave, TypeOK
    <2>2. /\ ~Waiting(t) /\ pc[t] # "send"
          /\ pc'[t] \notin {"send", "await", "piped"}
      BY <1>4 DEF DrainTimesOut, DrainOver, DrainFails, Leave, AfterDrain, Draining, Waiting,
        TypeOK
    <2> QED
      BY <1>4, <2>1, <2>2, ReaderAligns DEF DrainTimesOut, Poison, serverVars, netVars
  <1>5. CASE AwaitTimesOut(t)
    <2>1. Socket(t) = holds[t]
      BY <1>5 DEF AwaitTimesOut, AwaitFails, Socket, CallInv
    <2> QED
      BY <1>5, <2>1, ReaderAligns DEF AwaitTimesOut, AwaitFails, Poison, Leave, TypeOK,
        serverVars, netVars
  <1>6. CASE SendFails(t)
    <2>1. Socket(t) = holds[t]
      BY <1>6 DEF SendFails, Socket, CallInv
    <2> QED
      BY <1>6, <2>1, ReaderAligns DEF SendFails, Poison, Leave, TypeOK, serverVars, netVars
  <1> QED
    BY <1>1, <1>2, <1>3, <1>4, <1>5, <1>6, PoolAlign DEF ChoiceStep

-----------------------------------------------------------------------------
\* The server and the network.

LEMMA ServeAlign == ASSUME Inv, NEW c \in Conns, Serve(c) PROVE AlignInv'
  <1> USE DEF Inv
  <1>1. PICK f \in Frames : /\ IsReply(f) /\ KeysOf(f) = {request[c]}
                            /\ wire' = [wire EXCEPT ![c] = Append(@, f)]
    BY ServeFrame
  <1>2. /\ request[c] \in Keys /\ request' = [request EXCEPT ![c] = None]
        /\ UNCHANGED <<inbox, status, poisoned, holds, pc, key>>
    BY ServeFrame DEF Serve, connVars, callVars
  <1> SUFFICES ASSUME NEW d \in Conns, Quiet(d)' PROVE Aligned(d, Unread(d))'
    BY DEF AlignInv
  <1>3. PICK u \in Seq(Frames) : u = Unread(d)
    BY UnreadType
  <1>4. Quiet(d) /\ Aligned(d, u) /\ \A k \in Keys : Awaited(d, k) => Awaited(d, k)'
    BY <1>2, <1>3 DEF Quiet, Usable, Waiting, Awaited, AlignInv
  <1>5. CASE d # c
    <2>1. u = inbox'[d] \o wire'[d] /\ request'[d] = request[d]
      BY <1>1, <1>2, <1>3, <1>5 DEF Unread, TypeOK
    <2> QED
      BY <1>4, <2>1, AlignKept
  <1>6. CASE d = c
    <2>1. PICK k \in Keys : k = request[c]
      BY <1>2
    <2> k # None
      BY NoneAssumption
    <2> /\ \A i \in DOMAIN u : ~IsReply(u[i])
        /\ Awaited(c, k) /\ Awaited(c, k)'
      BY <1>4, <1>6, <2>1 DEF Aligned
    <2>2. inbox[c] \in Seq(Frames) /\ wire[c] \in Seq(Frames)
      BY UnreadType
    <2>3. inbox[c] \o Append(wire[c], f) = Append(inbox[c] \o wire[c], f)
      <3>1. f \in Frames
        BY <1>1
      <3>2. \A v, w \in Seq(Frames) : v \o Append(w, f) = Append(v \o w, f)
        BY <3>1, PushConcat
      <3> QED
        BY <3>2, <2>2
    <2>4. inbox'[c] \o wire'[c] = Append(u, f)
      BY <1>1, <1>2, <1>3, <1>6, <2>3 DEF Unread, TypeOK
    <2> DEFINE w == Append(u, f)
    <2>5. /\ Len(u) \in Nat /\ DOMAIN u = 1..Len(u) /\ DOMAIN w = 1..(Len(u) + 1)
          /\ \A i \in 1..Len(u) : w[i] = u[i]
          /\ w[Len(u) + 1] = f
      BY LenProperties, AppendProperties
    <2> HIDE DEF w
    <2>6. \A i \in DOMAIN w : IsReply(w[i]) => i = Len(u) + 1 /\ w[i] = f
      BY <2>5
    <2>7. request'[c] = None
      BY <1>2 DEF TypeOK
    <2>8. Aligned(c, w)'
      BY <1>1, <2>1, <2>6, <2>7 DEF Aligned
    <2> QED
      BY <1>6, <2>4, <2>8 DEF Aligned, Unread, w
  <1> QED
    BY <1>5, <1>6

LEMMA EnvironmentAlign == ASSUME Inv, Environment PROVE AlignInv'
  <1> USE DEF Inv
  <1>1. UNCHANGED <<pc, key, holds>>
    BY ClearLeaves
    DEF Environment, Serve, Deliver, Split, Lose, DiscardIdle, Close, Write, FlushAll,
      Change, callVars
  <1>2. \A u \in Threads : pc'[u] = pc[u] /\ key'[u] = key[u] /\ holds'[u] = holds[u]
    BY <1>1
  <1>3. ASSUME UNCHANGED <<status, poisoned>>, NEW c \in Conns PROVE Quiet(c)' => Quiet(c)
    BY <1>1, <1>3 DEF Quiet, Usable, Waiting
  <1>4. ASSUME NEW c \in Conns, Deliver(c) PROVE AlignInv'
    <2>1. inbox[c] \in Seq(Frames) /\ wire[c] \in Seq(Frames)
      BY UnreadType
    <2>2. Append(inbox[c], Head(wire[c])) \o Tail(wire[c]) = inbox[c] \o wire[c]
      BY <1>4, <2>1, MoveConcat DEF Deliver
    <2>3. \A d \in Conns : request'[d] = request[d] /\ inbox'[d] \o wire'[d] = Unread(d)
      BY <1>4, <2>2 DEF Deliver, Unread, serverVars, TypeOK
    <2>4. UNCHANGED <<status, poisoned>>
      BY <1>4 DEF Deliver, connVars
    <2> QED
      BY <1>2, <1>3, <2>3, <2>4, StreamAligns
  <1>5. ASSUME NEW c \in Conns, Split(c) PROVE AlignInv'
    <2>1. \A d \in Conns : request'[d] = request[d] /\ inbox'[d] \o wire'[d] = Unread(d)
      BY <1>5 DEF Split, Unread, serverVars
    <2>2. UNCHANGED <<status, poisoned>>
      BY <1>5 DEF Split, connVars
    <2> QED
      BY <1>2, <1>3, <2>1, <2>2, StreamAligns
  <1>6. ASSUME NEW c \in Conns, Lose(c) PROVE AlignInv'
    <2>1. \A d \in Conns :
             /\ Quiet(d)' => Quiet(d)
             /\ request'[d] \in {request[d], None}
             /\ \/ inbox'[d] \o wire'[d] = Unread(d)
                \/ inbox'[d] = inbox[d] /\ wire'[d] = <<>>
      BY <1>1, <1>6 DEF Lose, Unread, Quiet, Usable, Waiting, TypeOK
    <2> QED
      BY <1>2, <2>1, StreamAligns
  <1>7. ASSUME NEW c \in Conns, DiscardIdle(c) PROVE AlignInv'
    <2>1. \A d \in Conns :
             \/ inbox'[d] = <<>> /\ wire'[d] = <<>> /\ request'[d] = None
             \/ /\ Quiet(d)' => Quiet(d)
                /\ request'[d] = request[d] /\ inbox'[d] \o wire'[d] = Unread(d)
      BY <1>1, <1>7 DEF DiscardIdle, Close, Unread, Quiet, Usable, Waiting, TypeOK
    <2> QED
      BY <1>2, <2>1, StreamAligns
  <1>8. ASSUME NEW ks \in SUBSET Keys, NEW kind \in {"invalidate", "flush"},
               NEW told \in SUBSET Conns, Change(ks, kind, told)
        PROVE  AlignInv'
    <2>1. PICK f \in Frames : ~IsReply(f) /\ Sent(f, told)
      BY <1>8, ChangeFrame
    <2>2. UNCHANGED <<status, poisoned, request, inbox>>
      BY <1>8 DEF Change, connVars
    <2>3. ASSUME NEW d \in Conns
          PROVE  \/ inbox'[d] \o wire'[d] = Unread(d)
                 \/ inbox'[d] \o wire'[d] = Append(Unread(d), f)
      <3>1. inbox[d] \in Seq(Frames) /\ wire[d] \in Seq(Frames)
        BY UnreadType
      <3>2. inbox[d] \o Append(wire[d], f) = Append(inbox[d] \o wire[d], f)
        <4>1. f \in Frames
          BY <2>1
        <4>2. \A v, w \in Seq(Frames) : v \o Append(w, f) = Append(v \o w, f)
          BY <4>1, PushConcat
        <4> QED
          BY <4>2, <3>1
      <3> QED
        BY <2>1, <2>2, <3>2 DEF Sent, Unread
    <2> QED
      BY <1>2, <1>3, <2>1, <2>2, <2>3, StreamAligns
  <1>9. ASSUME NEW k \in Keys, Write(k) PROVE AlignInv'
    <2>1. PICK told \in SUBSET Conns : told = tracking[k]
      BY DEF TypeOK
    <2>2. Change({k}, "invalidate", told)
      BY <1>9, <2>1 DEF Write
    <2> QED
      BY <1>8, <2>2
  <1>10. CASE FlushAll
    BY <1>8, <1>10 DEF FlushAll
  <1>11. CASE ClearCache
    <2>1. \A d \in Conns : request'[d] = request[d] /\ inbox'[d] \o wire'[d] = Unread(d)
      BY <1>11, ClearLeaves DEF Unread
    <2>2. UNCHANGED <<status, poisoned>>
      BY <1>11, ClearLeaves
    <2> QED
      BY <1>2, <1>3, <2>1, <2>2, StreamAligns
  <1> QED
    BY <1>4, <1>5, <1>6, <1>7, <1>9, <1>10, <1>11, ServeAlign DEF Environment

LEMMA NextAlign == ASSUME Inv, [Next]_vars PROVE AlignInv'
  <1>1. CASE UNCHANGED vars
    <2>1. UNCHANGED <<request, inbox, wire, holds, status, poisoned, pc, key>>
      BY <1>1 DEF vars, serverVars, netVars, connVars, callVars
    <2>2. \A c \in Conns : Quiet(c)' => Quiet(c)
      BY <2>1 DEF Quiet, Usable, Waiting
    <2> QED
      BY <2>1, <2>2, StreamAligns DEF Unread
  <1> QED
    BY <1>1, ReadAlign, GoOnAlign, ChooseAlign, EnvironmentAlign DEF Next

-----------------------------------------------------------------------------
\* The types.

\* The connection a thread is dealing with, and what it takes from it.
LEMMA SocketHeld ==
  ASSUME TypeOK, CallInv, NEW t \in Threads, pc[t] # "out"
  PROVE  Socket(t) \in Conns
  BY DEF Socket, CallInv, TypeOK

LEMMA TakenType ==
  ASSUME TypeOK, NEW c \in Conns, inbox[c] # <<>>
  PROVE  /\ Head(inbox[c]) \in Frames
         /\ [inbox EXCEPT ![c] = Tail(@)] \in [Conns -> Seq(Frames)]
  <1>1. inbox[c] \in Seq(Frames)
    BY UnreadType
  <1>2. Head(inbox[c]) \in Frames /\ Tail(inbox[c]) \in Seq(Frames)
    BY <1>1, HeadTailProperties
  <1> QED
    BY <1>2 DEF TypeOK

\* The locals of execute().
CallType ==
    /\ pc \in [Threads -> Places] /\ key \in [Threads -> Keys \cup {None}]
    /\ todo \in [Threads -> SUBSET Conns] /\ swept \in [Threads -> BOOLEAN]
    /\ peer \in [Threads -> Conns \cup {None}]
    /\ answer \in [Threads -> 0..MaxWrites \cup {Miss}]
    /\ floor \in [Threads -> 0..MaxWrites]

LEMMA LeaveType == ASSUME TypeOK, NEW t \in Threads, Leave(t) PROVE CallType'
  BY BoundsAssumption DEF CallType, TypeOK, Leave, Places

LEMMA ReadCallType == ASSUME Inv, NEW t \in Threads, ReadStep(t) PROVE CallType'
  <1> USE DEF Inv
  <1>1. CASE UNCHANGED <<pc, callVars>>
    BY <1>1 DEF CallType, TypeOK, callVars
  <1>2. ASSUME Draining(t), DrainOver(t) PROVE CallType'
    BY <1>2 DEF DrainOver, AfterDrain, Draining, CallType, TypeOK, Places
  <1>3. CASE DrainEnds(t) \/ DrainMeetsReply(t) \/ DrainMeetsEOF(t) \/ DrainTorn(t)
    BY <1>2, <1>3, LeaveType
    DEF DrainEnds, DrainMeetsReply, DrainMeetsEOF, DrainTorn, DrainFails
  <1>4. CASE ReadReply(t)
    <2>1. /\ Socket(t) = holds[t] /\ holds[t] \in Conns /\ key[t] \in Keys
          /\ Head(inbox[holds[t]]) \in Frames
          /\ KeysOf(Head(inbox[holds[t]])) = {key[t]}
      BY <1>4, OwnReply DEF ReadReply, Waiting
    <2>2. Head(inbox[holds[t]]).at[key[t]] \in 0..MaxWrites
      BY <2>1, FrameParts
    <2> QED
      BY <1>4, <2>1, <2>2 DEF ReadReply, CallType, TypeOK, Places
  <1> QED
    BY <1>1, <1>3, <1>4, LeaveType
    DEF ReadStep, ParsePush, HandlePush, AwaitInVain, AwaitFails, PipeReply

LEMMA GoOnCallType ==
  ASSUME Inv, NEW t \in Threads, CallStep(t) \/ LockStep(t)
  PROVE  CallType'
  <1> USE DEF Inv
  <1>1. ASSUME NEW c \in Conns, SweepPeer(t, c) PROVE CallType'
    <2>1. todo' \in [Threads -> SUBSET Conns]
      <3>1. todo[t] \ {c} \in SUBSET Conns
        BY DEF TypeOK
      <3> QED
        BY <1>1, <3>1 DEF SweepPeer, TypeOK
    <2>2. UNCHANGED <<key, answer, floor>>
      BY <1>1 DEF SweepPeer
    <2>3. pc' \in [Threads -> Places]
      <3>1. pc \in [Threads -> Places] /\ "peer" \in Places
        BY DEF TypeOK, Places
      <3>2. pc' = pc \/ pc' = [pc EXCEPT ![t] = "peer"]
        BY <1>1 DEF SweepPeer
      <3> QED
        BY <3>1, <3>2
    <2>4. swept' \in [Threads -> BOOLEAN]
      BY <1>1 DEF SweepPeer, TypeOK
    <2>5. peer' \in [Threads -> Conns \cup {None}]
      BY <1>1 DEF SweepPeer, TypeOK
    <2> QED
      BY <2>1, <2>2, <2>3, <2>4, <2>5 DEF CallType, TypeOK
  <1>2. CASE SweepDone(t) \/ TakeTicket(t) \/ CheckUsable(t) \/ Send(t)
    BY <1>2 DEF SweepDone, TakeTicket, CheckUsable, Send, CallType, TypeOK, Places, callVars
  <1>3. CASE Missed(t)
    BY <1>3 DEF Missed, CallType, TypeOK, Places
  <1>4. ASSUME NEW from \in {"own1", "own2"}, NEW during \in {"drain1", "drain2"},
               NEW after \in {"lookup", "offer"}, EnterDrain(t, from, during, after)
        PROVE  CallType'
    BY <1>4 DEF EnterDrain, CallType, TypeOK, Places, callVars
  <1> QED
    BY <1>1, <1>2, <1>3, <1>4, LeaveType
    DEF CallStep, LockStep, Hit, RefuseBroken, Offer

LEMMA NextCallType == ASSUME Inv, [Next]_vars PROVE CallType'
  <1> USE DEF Inv
  <1>1. CASE UNCHANGED <<pc, callVars>>
    BY <1>1 DEF CallType, TypeOK, callVars
  <1>2. ASSUME NEW t \in Threads, NEW k \in Keys, Call(t, k) \/ PipeSend(t, k) PROVE CallType'
    <2>1. todo' \in [Threads -> SUBSET Conns]
      <3>1. Owned \ {holds[t]} \in SUBSET Conns
        BY DEF Owned
      <3> QED
        BY <1>2, <3>1 DEF Call, PipeSend, TypeOK
    <2>2. UNCHANGED <<swept, peer, answer>>
      BY <1>2 DEF Call, PipeSend
    <2>3. pc' \in [Threads -> Places]
      <3>1. pc \in [Threads -> Places] /\ {"sweep", "piped"} \subseteq Places
        BY DEF TypeOK, Places
      <3>2. pc' = [pc EXCEPT ![t] = "sweep"] \/ pc' = [pc EXCEPT ![t] = "piped"]
        BY <1>2 DEF Call, PipeSend
      <3> QED
        BY <3>1, <3>2
    <2>4. key' \in [Threads -> Keys \cup {None}]
      BY <1>2 DEF Call, PipeSend, TypeOK
    <2>5. floor' \in [Threads -> 0..MaxWrites]
      <3>1. floor \in [Threads -> 0..MaxWrites] /\ announced[k] \in 0..MaxWrites
        BY DEF TypeOK
      <3>2. floor' = floor \/ floor' = [floor EXCEPT ![t] = announced[k]]
        BY <1>2 DEF Call, PipeSend
      <3> QED
        BY <3>1, <3>2
    <2> QED
      BY <2>1, <2>2, <2>3, <2>4, <2>5 DEF CallType, TypeOK
  <1>3. ASSUME NEW t \in Threads, DrainTimesOut(t) PROVE CallType'
    BY <1>3, LeaveType DEF DrainTimesOut, DrainFails, DrainOver, AfterDrain, Draining,
      CallType, TypeOK, Places
  <1>4. ASSUME NEW t \in Threads, ChoiceStep(t) PROVE CallType'
    BY <1>1, <1>2, <1>3, <1>4, LeaveType
    DEF ChoiceStep, Borrow, Open, Release, Close, ReplyWasError, AwaitTimesOut, SendFails,
      AwaitFails
  <1>5. CASE Environment
    BY <1>1, <1>5, ClearLeaves DEF Environment, Serve, Deliver, Split, Lose, DiscardIdle, Close,
      Write, FlushAll, Change, callVars
  <1> QED
    BY <1>1, <1>4, <1>5, ReadCallType, GoOnCallType DEF Next, vars

\* What is in a reader's hand.
LEMMA NextInHand ==
  ASSUME Inv, [Next]_vars
  PROVE  inHand' \in [Threads -> Frames \cup {None}]
  <1> USE DEF Inv
  <1>1. CASE UNCHANGED inHand
    BY <1>1 DEF TypeOK
  <1>2. ASSUME NEW t \in Threads, ParsePush(t)
        PROVE  inHand' \in [Threads -> Frames \cup {None}]
    <2>1. PICK c \in Conns : c = Socket(t)
      BY <1>2, SocketHeld DEF ParsePush, Reading, Draining
    <2>2. Head(inbox[c]) \in Frames
      BY <1>2, <2>1, TakenType DEF ParsePush
    <2> QED
      BY <1>2, <2>1, <2>2 DEF ParsePush, TypeOK
  <1>3. ASSUME NEW t \in Threads, HandlePush(t)
        PROVE  inHand' \in [Threads -> Frames \cup {None}]
    BY <1>3 DEF HandlePush, TypeOK
  <1>4. ASSUME NEW t \in Threads, ReadStep(t) \/ CallStep(t)
        PROVE  inHand' \in [Threads -> Frames \cup {None}]
    BY <1>1, <1>2, <1>3, <1>4 DEF ReadStep, DrainEnds, DrainMeetsReply, DrainMeetsEOF,
      DrainTorn, ReadReply, AwaitInVain, AwaitFails, PipeReply, CallStep, SweepPeer,
      SweepDone, Hit, Missed, TakeTicket, CheckUsable, RefuseBroken, Offer
  <1>5. ASSUME NEW t \in Threads, LockStep(t) \/ ChoiceStep(t) PROVE UNCHANGED inHand
    BY <1>5 DEF LockStep, EnterDrain, Send, ChoiceStep, Borrow, Open, Release, Close, Call,
      PipeSend, ReplyWasError, DrainTimesOut, AwaitTimesOut, SendFails, AwaitFails
  <1>6. CASE Environment
    BY <1>1, <1>6, ClearLeaves
    DEF Environment, Serve, Deliver, Split, Lose, DiscardIdle, Close, Write,
      FlushAll, Change
  <1> QED
    BY <1>1, <1>4, <1>5, <1>6 DEF Next, vars

\* The server and the network.
NetType ==
    /\ version \in [Keys -> 0..MaxWrites]
    /\ tracking \in [Keys -> SUBSET Conns]
    /\ request \in [Conns -> Keys \cup {None}]
    /\ wire \in [Conns -> Seq(Frames)] /\ inbox \in [Conns -> Seq(Frames)]
    /\ cut \in [Conns -> BOOLEAN]
    /\ status \in [Conns -> {"none", "up", "dead"}]

LEMMA TakeNetType ==
  ASSUME Inv, NEW t \in Threads,
         ParsePush(t) \/ DrainMeetsReply(t) \/ ReadReply(t) \/ PipeReply(t)
  PROVE  NetType'
  <1> USE DEF Inv
  <1>1. PICK c \in Conns : c = Socket(t)
    BY SocketHeld DEF ParsePush, DrainMeetsReply, ReadReply, PipeReply, Reading, Draining
  <1>2. inbox[c] # <<>> /\ inbox' = [inbox EXCEPT ![c] = Tail(@)]
    BY <1>1 DEF ParsePush, DrainMeetsReply, ReadReply, PipeReply
  <1>3. inbox' \in [Conns -> Seq(Frames)]
    BY <1>2, TakenType
  <1> QED
    BY <1>3 DEF ParsePush, DrainMeetsReply, ReadReply, PipeReply, NetType, TypeOK,
      serverVars, connVars

LEMMA CloseNetType == ASSUME TypeOK, NEW c \in Conns, Close(c) PROVE NetType'
  <1>1. wire' \in [Conns -> Seq(Frames)] /\ inbox' \in [Conns -> Seq(Frames)]
    <2>1. <<>> \in Seq(Frames)
      BY EmptySeq
    <2> QED
      BY <2>1 DEF Close, TypeOK
  <1> QED
    BY <1>1 DEF Close, NetType, TypeOK

LEMMA ServeNetType == ASSUME TypeOK, NEW c \in Conns, Serve(c) PROVE NetType'
  <1>1. PICK f \in Frames : wire' = [wire EXCEPT ![c] = Append(@, f)]
    BY ServeFrame
  <1>2. request[c] \in Keys
    BY ServeFrame
  <1>3. Append(wire[c], f) \in Seq(Frames)
    <2>1. f \in Frames /\ wire[c] \in Seq(Frames)
      BY <1>1, UnreadType
    <2> QED
      BY <2>1, AppendProperties
  <1>4. wire' \in [Conns -> Seq(Frames)]
    BY <1>1, <1>3 DEF TypeOK
  <1>5. tracking' \in [Keys -> SUBSET Conns]
    <2>1. tracking[request[c]] \cup {c} \in SUBSET Conns
      BY <1>2 DEF TypeOK
    <2> QED
      BY <1>2, <2>1 DEF Serve, TypeOK
  <1> QED
    BY <1>2, <1>4, <1>5 DEF Serve, NetType, TypeOK, connVars

LEMMA DeliverNetType == ASSUME TypeOK, NEW c \in Conns, Deliver(c) PROVE NetType'
  <1>1. PICK v \in Seq(Frames), w \in Seq(Frames) : v = inbox[c] /\ w = wire[c]
    BY UnreadType
  <1>2. w # <<>>
    BY <1>1 DEF Deliver
  <1>3. Append(v, Head(w)) \in Seq(Frames) /\ Tail(w) \in Seq(Frames)
    BY <1>2, HeadTailProperties, AppendProperties
  <1>4. wire' \in [Conns -> Seq(Frames)] /\ inbox' \in [Conns -> Seq(Frames)]
    BY <1>1, <1>3 DEF Deliver, TypeOK
  <1> QED
    BY <1>4 DEF Deliver, NetType, TypeOK, serverVars, connVars

LEMMA LoseNetType == ASSUME TypeOK, NEW c \in Conns, Lose(c) PROVE NetType'
  <1>1. <<>> \in Seq(Frames)
    BY EmptySeq
  <1>2. wire' \in [Conns -> Seq(Frames)]
    BY <1>1 DEF Lose, TypeOK
  <1> QED
    BY <1>2 DEF Lose, NetType, TypeOK

LEMMA ChangeNetType ==
  ASSUME TypeOK, NEW ks \in SUBSET Keys, NEW kind \in {"invalidate", "flush"},
         NEW told \in SUBSET Conns, Change(ks, kind, told)
  PROVE  NetType'
  <1>1. PICK f \in Frames : Sent(f, told)
    BY ChangeFrame
  <1>2. version' \in [Keys -> 0..MaxWrites]
    BY ChangeFrame
  <1>3. \A c \in Conns : wire'[c] \in Seq(Frames)
    <2>1. f \in Frames
      BY <1>1
    <2>2. \A w \in Seq(Frames) : Append(w, f) \in Seq(Frames)
      BY <2>1, AppendProperties
    <2> QED
      BY <1>1, <2>2 DEF Sent, TypeOK
  <1>4. wire' \in [Conns -> Seq(Frames)]
    BY <1>3 DEF Change
  <1> QED
    BY <1>2, <1>4 DEF Change, NetType, TypeOK, connVars

LEMMA NextNetType == ASSUME Inv, [Next]_vars PROVE NetType'
  <1> USE DEF Inv
  <1>1. CASE UNCHANGED <<serverVars, netVars, status>>
    BY <1>1 DEF NetType, TypeOK, serverVars, netVars
  <1>2. ASSUME NEW t \in Threads, Send(t) PROVE NetType'
    <2>1. Socket(t) = holds[t] /\ holds[t] \in Conns /\ key[t] \in Keys
      BY <1>2 DEF Send, Socket, CallInv, TypeOK
    <2> QED
      BY <1>2, <2>1 DEF Send, NetType, TypeOK, netVars
  <1>3. ASSUME NEW t \in Threads, NEW k \in Keys, PipeSend(t, k) PROVE NetType'
    BY <1>3 DEF PipeSend, NetType, TypeOK, netVars, connVars
  <1>4. ASSUME NEW t \in Threads, Release(t) PROVE NetType'
    <2>1. holds[t] \in Conns
      BY <1>4 DEF Release, TypeOK
    <2> QED
      BY <1>1, <1>4, <2>1, CloseNetType DEF Release, connVars
  <1>5. ASSUME NEW t \in Threads, NEW c \in Conns, Open(t, c) PROVE NetType'
    BY <1>5 DEF Open, NetType, TypeOK, serverVars, netVars
  <1>6. ASSUME NEW c \in Conns, Split(c) PROVE NetType'
    BY <1>6 DEF Split, NetType, TypeOK, serverVars, connVars
  <1>7. ASSUME NEW k \in Keys, Write(k) PROVE NetType'
    <2>1. PICK told \in SUBSET Conns : told = tracking[k]
      BY DEF TypeOK
    <2>2. Change({k}, "invalidate", told)
      BY <1>7, <2>1 DEF Write
    <2> QED
      BY <2>2, ChangeNetType
  <1>8. CASE FlushAll
    BY <1>8, ChangeNetType DEF FlushAll
  <1>10. CASE ClearCache
    BY <1>1, <1>10, ClearLeaves DEF serverVars, netVars
  <1>9. CASE Environment
    BY <1>6, <1>7, <1>8, <1>9, <1>10, CloseNetType, ServeNetType, DeliverNetType, LoseNetType
    DEF Environment, DiscardIdle
  <1> QED
    BY <1>1, <1>2, <1>3, <1>4, <1>5, <1>9, TakeNetType, StreamsStay
    DEF StreamStep, vars, connVars

\* The pool's connections and their I/O locks.
PoolType ==
    /\ poisoned \subseteq Owned
    /\ ioLock \in [Conns -> Threads \cup {None}]
    /\ holds \in [Threads -> Conns \cup {None}]

LEMMA NextHolds ==
  ASSUME Inv, [Next]_vars
  PROVE  holds' \in [Threads -> Conns \cup {None}]
  <1> USE DEF Inv
  <1>1. CASE UNCHANGED <<holds, status>>
    BY <1>1 DEF TypeOK
  <1>2. ASSUME NEW t \in Threads, NEW c \in Conns \cup {None},
               holds' = [holds EXCEPT ![t] = c]
        PROVE  holds' \in [Threads -> Conns \cup {None}]
    BY <1>2 DEF TypeOK
  <1>3. CASE PoolStep
    BY <1>1, <1>2, <1>3 DEF PoolStep, Borrow, Open, Release, Lose, DiscardIdle, TypeOK
  <1> QED
    BY <1>1, <1>3, PoolStays DEF vars, connVars

LEMMA NextLockType ==
  ASSUME Inv, [Next]_vars
  PROVE  ioLock' \in [Conns -> Threads \cup {None}]
  <1> USE DEF Inv
  <1>1. CASE UNCHANGED ioLock
    BY <1>1 DEF TypeOK
  <1>2. ASSUME NEW c, NEW u \in Threads \cup {None}, ioLock' = [ioLock EXCEPT ![c] = u]
        PROVE  ioLock' \in [Conns -> Threads \cup {None}]
    BY <1>2 DEF TypeOK
  <1>3. ASSUME NEW t \in Threads, ReadStep(t)
        PROVE  ioLock' \in [Conns -> Threads \cup {None}]
    BY <1>1, <1>2, <1>3 DEF ReadStep, ParsePush, HandlePush, DrainEnds, DrainMeetsReply,
      DrainMeetsEOF, DrainTorn, DrainFails, DrainOver, Unlock, ReadReply, AwaitInVain,
      AwaitFails, PipeReply, connVars
  <1>4. ASSUME NEW t \in Threads, CallStep(t) \/ LockStep(t)
        PROVE  ioLock' \in [Conns -> Threads \cup {None}]
    BY <1>1, <1>2, <1>4 DEF CallStep, SweepPeer, SweepDone, Hit, Missed, TakeTicket,
      CheckUsable, RefuseBroken, Offer, LockStep, EnterDrain, Send, connVars
  <1>5. ASSUME NEW t \in Threads, ChoiceStep(t)
        PROVE  ioLock' \in [Conns -> Threads \cup {None}]
    BY <1>1, <1>2, <1>5 DEF ChoiceStep, Borrow, Open, Release, Close, Call, PipeSend,
      ReplyWasError, DrainTimesOut, DrainFails, DrainOver, Unlock, AwaitTimesOut, SendFails,
      AwaitFails, connVars
  <1>6. CASE Environment
    BY <1>1, <1>6, ClearLeaves
    DEF Environment, Serve, Deliver, Split, Lose, DiscardIdle, Close, Write,
      FlushAll, Change, connVars
  <1> QED
    BY <1>1, <1>3, <1>4, <1>5, <1>6 DEF Next, vars, connVars

\* A thread writes its command to the connection it borrowed, and the pool owns it.
LEMMA WriterHolds ==
  ASSUME Inv, NEW t \in Threads, SendFails(t)
  PROVE  /\ Socket(t) = holds[t] /\ holds[t] \in Conns
         /\ status[Socket(t)] # "none"
  BY DEF Inv, SendFails, Socket, CallInv, TypeOK

\* Only a connection the pool owns is poisoned.
LEMMA NextPoisoned == ASSUME Inv, [Next]_vars PROVE (poisoned \subseteq Owned)'
  <1> USE DEF Inv
  <1>1. CASE UNCHANGED <<poisoned, status>>
    BY <1>1 DEF TypeOK, Owned
  <1>2. ASSUME NEW c, status[c] # "none", c \in Conns, poisoned' = poisoned \cup {c},
               UNCHANGED status
        PROVE  (poisoned \subseteq Owned)'
    BY <1>2 DEF TypeOK, Owned
  <1>3. ASSUME NEW t \in Threads, pc[t] # "out", status[Socket(t)] # "none",
               Poison(Socket(t)), UNCHANGED status
        PROVE  (poisoned \subseteq Owned)'
    BY <1>2, <1>3, SocketHeld DEF Poison
  <1>4. ASSUME NEW t \in Threads, AwaitFails(t) PROVE (poisoned \subseteq Owned)'
    <2>1. pc[t] # "out" /\ status[Socket(t)] # "none"
      BY <1>4 DEF AwaitFails, Socket, CallInv, HeldInv
    <2> QED
      BY <1>3, <1>4, <2>1 DEF AwaitFails
  <1>5. ASSUME NEW t \in Threads, ReadStep(t) PROVE (poisoned \subseteq Owned)'
    BY <1>1, <1>3, <1>4, <1>5 DEF ReadStep, ParsePush, HandlePush, DrainEnds, DrainMeetsReply,
      DrainMeetsEOF, DrainTorn, Draining, ReadReply, AwaitInVain, PipeReply, connVars
  <1>6. ASSUME NEW t \in Threads, CallStep(t) \/ LockStep(t) PROVE (poisoned \subseteq Owned)'
    BY <1>1, <1>6 DEF CallStep, SweepPeer, SweepDone, Hit, Missed, TakeTicket,
      CheckUsable, RefuseBroken, Offer, LockStep, EnterDrain, Send, connVars
  <1>7. ASSUME NEW c \in Conns, Close(c) PROVE (poisoned \subseteq Owned)'
    BY <1>7 DEF Close, TypeOK, Owned
  <1>8. ASSUME NEW t \in Threads, Release(t) PROVE (poisoned \subseteq Owned)'
    <2>1. holds[t] \in Conns
      BY <1>8 DEF Release, TypeOK
    <2> QED
      BY <1>1, <1>7, <1>8, <2>1 DEF Release, connVars
  <1>9. ASSUME NEW t \in Threads, NEW c \in Conns, Open(t, c)
        PROVE  (poisoned \subseteq Owned)'
    BY <1>9 DEF Open, TypeOK, Owned
  <1>10. ASSUME NEW t \in Threads, ChoiceStep(t) PROVE (poisoned \subseteq Owned)'
    <2>1. CASE SendFails(t)
      BY <1>2, <2>1, WriterHolds DEF SendFails, Poison
    <2> QED
      BY <1>1, <1>3, <1>4, <1>8, <1>9, <1>10, <2>1 DEF ChoiceStep, Borrow, Call, PipeSend,
        ReplyWasError, DrainTimesOut, Draining, AwaitTimesOut, connVars
  <1>11. ASSUME NEW c \in Conns, Lose(c) PROVE (poisoned \subseteq Owned)'
    BY <1>11 DEF Lose, TypeOK, Owned
  <1>12. CASE Environment
    BY <1>1, <1>7, <1>11, <1>12, ClearLeaves
    DEF Environment, Serve, Deliver, Split, DiscardIdle, Write,
      FlushAll, Change, connVars
  <1> QED
    BY <1>1, <1>5, <1>6, <1>10, <1>12 DEF Next, vars, connVars

\* The history.
GhostType ==
    /\ announced \in [Keys -> 0..MaxWrites]
    /\ lost \subseteq Keys /\ troubles \in 0..MaxTroubles

LEMMA FramesOf ==
  ASSUME NEW u \in Seq(Frames)
  PROVE  /\ ToSet(u) \subseteq Frames
         /\ UNION {KeysOf(f) : f \in {g \in ToSet(u) : ~IsReply(g)}} \subseteq Keys
  <1>1. \A i \in DOMAIN u : u[i] \in Frames
    BY ElementOfSeq, LenProperties
  <1>2. ToSet(u) \subseteq Frames
    BY <1>1 DEF ToSet
  <1>3. \A f \in Frames : KeysOf(f) \subseteq Keys
    BY FrameParts
  <1> QED
    BY <1>2, <1>3

LEMMA WatchedKeys == ASSUME TypeOK, NEW c \in Conns PROVE Watched(c) \subseteq Keys
  BY UnreadType, FramesOf DEF Watched

LEMMA NextAnnounced ==
  ASSUME Inv, [Next]_vars
  PROVE  announced' \in [Keys -> 0..MaxWrites]
  <1> USE DEF Inv
  <1>1. CASE UNCHANGED announced
    BY <1>1 DEF TypeOK
  <1>2. ASSUME NEW c \in Conns, wire[c] # <<>>, Announce(c)
        PROVE  announced' \in [Keys -> 0..MaxWrites]
    <2>1. PICK f \in Frames : f = Head(wire[c])
      BY <1>2, UnreadType, HeadTailProperties
    <2>2. \A k \in KeysOf(f) : f.at[k] \in 0..MaxWrites
      BY FrameParts
    <2>3. announced \in [Keys -> 0..MaxWrites]
      BY DEF TypeOK
    <2> DEFINE told == [k \in Keys |-> IF k \in {j \in KeysOf(f) : f.at[j] > announced[j]}
                                        THEN f.at[k] ELSE announced[k]]
    <2>4. told \in [Keys -> 0..MaxWrites]
      BY <2>2, <2>3
    <2>5. announced' = announced \/ announced' = told
      BY <1>2, <2>1, <2>3 DEF Announce
    <2> QED
      BY <2>3, <2>4, <2>5
  <1>3. ASSUME NEW t \in Threads, ReadStep(t) \/ ChoiceStep(t) PROVE UNCHANGED announced
    BY <1>3 DEF ReadStep, ParsePush, HandlePush, DrainEnds, DrainMeetsReply, DrainMeetsEOF,
      DrainTorn, ReadReply, AwaitInVain, AwaitFails, PipeReply, ChoiceStep, Borrow, Open,
      Release, Close, Call, PipeSend, ReplyWasError, DrainTimesOut, AwaitTimesOut, SendFails,
      ghostVars
  <1>4. ASSUME NEW t \in Threads, CallStep(t) \/ LockStep(t) PROVE UNCHANGED announced
    BY <1>4 DEF CallStep, SweepPeer, SweepDone, Hit, Missed, TakeTicket, CheckUsable,
      RefuseBroken, Offer, LockStep, EnterDrain, Send, ghostVars
  <1>5. CASE Environment
    BY <1>1, <1>2, <1>5, ClearLeaves
    DEF Environment, Serve, Deliver, Split, Lose, DiscardIdle, Close,
      Write, FlushAll, Change, ghostVars
  <1> QED
    BY <1>1, <1>3, <1>4, <1>5 DEF Next, vars, ghostVars

LEMMA NextLost == ASSUME Inv, [Next]_vars PROVE lost' \subseteq Keys
  <1> USE DEF Inv
  <1>1. CASE lost' \subseteq lost
    BY <1>1 DEF TypeOK
  <1>2. ASSUME NEW c \in Conns, lost' = lost \cup Watched(c) PROVE lost' \subseteq Keys
    BY <1>2, WatchedKeys DEF TypeOK
  <1>3. ASSUME NEW t \in Threads, pc[t] # "out", Poison(Socket(t)) PROVE lost' \subseteq Keys
    BY <1>2, <1>3, SocketHeld DEF Poison
  <1>4. ASSUME NEW t \in Threads, ReadStep(t) PROVE lost' \subseteq Keys
    BY <1>1, <1>3, <1>4 DEF ReadStep, ParsePush, HandlePush, DrainEnds, DrainMeetsReply,
      DrainMeetsEOF, DrainTorn, Draining, ReadReply, AwaitInVain, AwaitFails, PipeReply,
      ghostVars
  <1>5. ASSUME NEW t \in Threads, CallStep(t) \/ LockStep(t) PROVE UNCHANGED lost
    BY <1>5 DEF CallStep, SweepPeer, SweepDone, Hit, Missed, TakeTicket, CheckUsable,
      RefuseBroken, Offer, LockStep, EnterDrain, Send, ghostVars
  <1>6. ASSUME NEW t \in Threads, ChoiceStep(t) PROVE lost' \subseteq Keys
    <2>1. holds[t] # None => holds[t] \in Conns
      BY DEF TypeOK
    <2>2. CASE SendFails(t)
      BY <1>2, <2>2, WriterHolds DEF SendFails, Poison
    <2> QED
      BY <1>1, <1>2, <1>3, <1>6, <2>1, <2>2 DEF ChoiceStep, Borrow, Open, Release, Close,
        Call, PipeSend, ReplyWasError, DrainTimesOut, Draining, AwaitTimesOut, AwaitFails,
        ghostVars
  <1>7. ASSUME NEW c \in Conns, Serve(c) PROVE lost' \subseteq Keys
    BY <1>7, ServeFrame DEF Serve, TypeOK
  <1>8. ASSUME NEW c \in Conns, Lose(c) PROVE lost' \subseteq Keys
    BY <1>8, UnreadType, FramesOf DEF Lose, TypeOK
  <1>9. CASE Environment
    BY <1>1, <1>2, <1>7, <1>8, <1>9, ClearLeaves
    DEF Environment, Deliver, Split, DiscardIdle, Close,
      Write, FlushAll, Change, ghostVars
  <1> QED
    BY <1>1, <1>4, <1>5, <1>6, <1>9 DEF Next, vars, ghostVars

LEMMA NextTroubles == ASSUME Inv, [Next]_vars PROVE troubles' \in 0..MaxTroubles
  <1> USE DEF Inv
  <1>1. CASE UNCHANGED troubles
    BY <1>1 DEF TypeOK
  <1>2. CASE troubles < MaxTroubles /\ troubles' = troubles + 1
    BY <1>2, BoundsAssumption DEF TypeOK
  <1>3. ASSUME NEW t \in Threads, ReadStep(t) PROVE UNCHANGED troubles
    BY <1>3 DEF ReadStep, ParsePush, HandlePush, DrainEnds, DrainMeetsReply, DrainMeetsEOF,
      DrainTorn, ReadReply, AwaitInVain, PipeReply, ghostVars
  <1>4. ASSUME NEW t \in Threads, CallStep(t) \/ LockStep(t) PROVE UNCHANGED troubles
    BY <1>4 DEF CallStep, SweepPeer, SweepDone, Hit, Missed, TakeTicket, CheckUsable,
      RefuseBroken, Offer, LockStep, EnterDrain, Send, ghostVars
  <1>5. ASSUME NEW t \in Threads, ChoiceStep(t)
        PROVE  UNCHANGED troubles \/ (troubles < MaxTroubles /\ troubles' = troubles + 1)
    BY <1>5 DEF ChoiceStep, Borrow, Open, Release, Close, Call, PipeSend, ReplyWasError,
      DrainTimesOut, AwaitTimesOut, SendFails, ghostVars
  <1>6. CASE Environment
    BY <1>1, <1>2, <1>6, ClearLeaves
    DEF Environment, Serve, Deliver, Split, Lose, DiscardIdle, Close,
      Write, FlushAll, Change, ghostVars
  <1> QED
    BY <1>1, <1>2, <1>3, <1>4, <1>5, <1>6 DEF Next, vars, ghostVars

\* The cache.
LEMMA CacheTypeKept == ASSUME TypeOK, UNCHANGED cacheVars PROVE Cache!TypeOK'
  BY DEF TypeOK, Cache!TypeOK, cacheVars

LEMMA DropType ==
  ASSUME TypeOK, Cache!DropAll \/ Cache!Clear \/ \E ks \in SUBSET Keys : Cache!DropKeys(ks)
  PROVE  Cache!TypeOK'
  <1> USE DEF TypeOK, Cache!TypeOK
  <1>1. CASE Cache!DropAll
    BY <1>1 DEF Cache!DropAll, Cache!Forget, Cache!Overtake
  <1>2. ASSUME NEW ks \in SUBSET Keys, Cache!DropKeys(ks) PROVE Cache!TypeOK'
    BY <1>2 DEF Cache!DropKeys, Cache!Forget, Cache!Overtake
  <1>3. CASE Cache!Clear
    BY <1>3 DEF Cache!Clear, Cache!Forget, Cache!clockVars, Cache!readerVars
  <1> QED
    BY <1>1, <1>2, <1>3

LEMMA TicketType ==
  ASSUME TypeOK, NEW t \in Threads, NEW k \in Keys, Cache!TakeGeneration(t, k)
  PROVE  Cache!TypeOK'
  BY DEF TypeOK, Cache!TypeOK, Cache!TakeGeneration, Cache!GenerationOf, Cache!cacheVars,
    Cache!clockVars, Cache!statVars

LEMMA AbandonType == ASSUME TypeOK, NEW t \in Threads, AbandonTicket(t) PROVE Cache!TypeOK'
  <1>1. CASE UNCHANGED cacheVars
    BY <1>1, CacheTypeKept
  <1>2. CASE Cache!Abandon(t)
    BY <1>2 DEF TypeOK, Cache!TypeOK, Cache!Abandon, Cache!NoTicket, Cache!cacheVars,
      Cache!clockVars, Cache!statVars
  <1> QED
    BY <1>1, <1>2 DEF AbandonTicket

LEMMA OfferType ==
  ASSUME TypeOK, NEW t \in Threads, NEW v \in 0..MaxWrites, Cache!Offer(t, v)
  PROVE  Cache!TypeOK'
  <1> USE DEF TypeOK, Cache!TypeOK
  <1>1. PICK k \in Keys : k = reading[t]
    BY DEF Cache!Offer
  <1>2. ASSUME NEW gone \in SUBSET Keys, Cache!Put(k, v, gone)
        PROVE  /\ entries' \in [Keys -> 0..MaxWrites \cup {Miss}]
               /\ before' \subseteq Keys \X Keys
               /\ byKey' \in [Keys -> SUBSET Keys]
    BY <1>2 DEF Cache!Put, Cache!Cached
  <1>3. /\ entries' \in [Keys -> 0..MaxWrites \cup {Miss}]
        /\ before' \subseteq Keys \X Keys
        /\ byKey' \in [Keys -> SUBSET Keys]
    BY <1>1, <1>2 DEF Cache!Offer, Cache!OfferRefused, Cache!OfferStored, Cache!OfferEvicting,
      Cache!cacheVars
  <1> QED
    BY <1>3 DEF Cache!Offer, Cache!NoTicket, Cache!clockVars, Cache!statVars

LEMMA NextCacheType == ASSUME Inv, [Next]_vars PROVE Cache!TypeOK'
  <1> USE DEF Inv
  <1>1. CASE UNCHANGED cacheVars
    BY <1>1, CacheTypeKept
  <1>2. ASSUME NEW t \in Threads, HandlePush(t) PROVE Cache!TypeOK'
    <2>1. KeysOf(inHand[t]) \in SUBSET Keys
      BY <1>2, FrameParts DEF HandlePush, TypeOK
    <2> QED
      BY <1>2, <2>1, DropType DEF HandlePush
  <1>3. ASSUME NEW t \in Threads, TakeTicket(t) PROVE Cache!TypeOK'
    BY <1>3, TicketType DEF TakeTicket, CallInv
  <1>4. ASSUME NEW t \in Threads, Offer(t) PROVE Cache!TypeOK'
    BY <1>4, OfferType DEF Offer, CallInv, Answered
  <1>5. ASSUME NEW t \in Threads, DrainFails(t) PROVE Cache!TypeOK'
    BY <1>1, <1>5, AbandonType DEF DrainFails, DrainOver
  <1>6. ASSUME NEW t \in Threads, ReadStep(t) PROVE Cache!TypeOK'
    BY <1>1, <1>2, <1>5, <1>6, AbandonType DEF ReadStep, ParsePush, DrainEnds,
      DrainMeetsReply, DrainMeetsEOF, DrainTorn, DrainOver, ReadReply, AwaitInVain,
      AwaitFails, PipeReply
  <1>7. ASSUME NEW t \in Threads, CallStep(t) \/ LockStep(t) PROVE Cache!TypeOK'
    BY <1>1, <1>3, <1>4, <1>7, AbandonType DEF CallStep, SweepPeer, SweepDone, Hit, Missed,
      CheckUsable, RefuseBroken, LockStep, EnterDrain, Send
  <1>8. ASSUME NEW t \in Threads, ChoiceStep(t) PROVE Cache!TypeOK'
    BY <1>1, <1>5, <1>8, AbandonType DEF ChoiceStep, Borrow, Open, Release, Close, Call,
      PipeSend, ReplyWasError, DrainTimesOut, AwaitTimesOut, SendFails, AwaitFails
  <1>10. CASE ClearCache
    BY <1>10, DropType DEF ClearCache
  <1>9. CASE Environment
    BY <1>1, <1>9, <1>10 DEF Environment, Serve, Deliver, Split, Lose, DiscardIdle, Close, Write,
      FlushAll, Change
  <1> QED
    BY <1>1, <1>6, <1>7, <1>8, <1>9 DEF Next, vars

LEMMA NextTypeOK == ASSUME Inv, [Next]_vars PROVE TypeOK'
  BY NextCallType, NextInHand, NextNetType, NextHolds, NextLockType, NextPoisoned,
    NextAnnounced, NextLost, NextTroubles, NextCacheType DEF TypeOK, CallType, NetType

-----------------------------------------------------------------------------
\* The invariant holds.

LEMMA InitInv == Init => Inv
  <1> SUFFICES ASSUME Init PROVE Inv
    OBVIOUS
  <1> USE DEF Init
  <1>1. TypeOK
    <2>1. Cache!TypeOK
      BY DEF Cache!Init, Cache!TypeOK, Cache!NoTicket
    <2>2. <<>> \in Seq(Frames)
      BY EmptySeq
    <2> QED
      BY <2>1, <2>2, BoundsAssumption DEF TypeOK, Places, Owned
  <1>2. HeldInv /\ LockInv
    BY DEF HeldInv, LockInv, Draining
  <1>3. CallInv
    BY DEF CallInv, Cache!Init, Reading, Draining, Ticketed, Answered
  <1>4. ClosedInv
    BY DEF ClosedInv
  <1>5. AlignInv
    BY DEF AlignInv, Quiet, Usable, Waiting
  <1> QED
    BY <1>1, <1>2, <1>3, <1>4, <1>5 DEF Inv

LEMMA NextInv == Inv /\ [Next]_vars => Inv'
  BY NextTypeOK, NextHeld, NextCall, NextClosed, NextLock, NextAlign DEF Inv

LEMMA SpecInv == Spec => []Inv
  BY InitInv, NextInv, PTL DEF Spec

\* Every variable keeps its type: what a reply tells of the key a thread waits
\* for is one of its versions, and only an owned connection is ever poisoned.
THEOREM TypeCorrect == Spec => []TypeOK
  <1>1. Inv => TypeOK
    BY DEF Inv
  <1> QED
    BY <1>1, SpecInv, PTL

\* Every I/O lock that is taken is held by one thread, which reads the lock's connection
\* (connection.py drain_invalidations, _roundtrip): no thread waits for a lock, its own
\* connection's or a peer's, while it has one, so that sweeps and round trips never wait on
\* each other in a circle, and no path of a call, errors and closed peers included, leaves
\* a lock behind.
THEOREM LocksAreServed == Spec => []LocksServed
  <1>1. Init => LocksServed
    BY NoneAssumption DEF Init, LocksServed
  <1>2. LocksServed /\ Inv /\ [Next]_vars => LocksServed'
    BY NextServed
  <1> QED
    BY <1>1, <1>2, SpecInv, PTL DEF Spec

\* A usable connection has at most one command unanswered, and it is that of the
\* thread that borrowed it and is waiting: what _roundtrip() and a pipeline read
\* is never the reply to somebody else's command, or to an earlier one.
LEMMA InvAwaited == Inv => RepliesAwaited
  <1> USE DEF Inv
  <1> SUFFICES ASSUME Inv, NEW c \in Conns, Usable(c)
               PROVE  LET replies == {i \in DOMAIN Unread(c) : IsReply(Unread(c)[i])}
                          waiting == {t \in Threads : holds[t] = c /\ pc[t] \in {"await", "piped"}}
                      IN /\ Cardinality(replies) + (IF request[c] = None THEN 0 ELSE 1)
                              <= Cardinality(waiting)
                         /\ \A t \in waiting, i \in replies : KeysOf(Unread(c)[i]) = {key[t]}
    BY DEF RepliesAwaited
  <1> DEFINE replies == {i \in DOMAIN Unread(c) : IsReply(Unread(c)[i])}
             waiting == {t \in Threads : holds[t] = c /\ pc[t] \in {"await", "piped"}}
  <1>1. Aligned(c, Unread(c))
    BY DEF AlignInv, Quiet
  <1>2. \A k \in Keys : Awaited(c, k) => \E t \in Threads : waiting = {t} /\ key[t] = k
    BY NoneAssumption DEF Awaited, Waiting, HeldInv
  <1>3. request[c] \in Keys \cup {None}
    BY DEF TypeOK
  <1>4. Cardinality({}) = 0 /\ \A e : Cardinality({e}) = 1
    BY FS_EmptySet, FS_Singleton
  <1>5. Cardinality(waiting) \in {0, 1}
    <2>1. waiting = {} \/ \E t \in Threads : waiting = {t}
      BY NoneAssumption DEF HeldInv
    <2> QED
      BY <1>4, <2>1
  <1>6. \A i \in replies :
           /\ request[c] = None /\ replies = {i}
           /\ \E k \in Keys : Awaited(c, k) /\ KeysOf(Unread(c)[i]) = {k}
    BY <1>1 DEF Aligned
  <1> HIDE DEF replies, waiting
  <1>7. Cardinality(replies) + (IF request[c] = None THEN 0 ELSE 1) <= Cardinality(waiting)
    <2>1. CASE request[c] # None
      <3>1. replies = {}
        BY <1>6, <2>1
      <3>2. \E t \in Threads : waiting = {t}
        BY <1>1, <1>2, <1>3, <2>1 DEF Aligned
      <3> QED
        BY <1>4, <2>1, <3>1, <3>2
    <2>2. CASE request[c] = None /\ replies = {}
      BY <1>4, <1>5, <2>2
    <2>3. ASSUME NEW i \in replies
          PROVE  Cardinality(replies) + (IF request[c] = None THEN 0 ELSE 1)
                    <= Cardinality(waiting)
      <3>1. request[c] = None /\ replies = {i}
        BY <1>6, <2>3
      <3>2. \E t \in Threads : waiting = {t}
        BY <1>2, <1>6, <2>3
      <3>3. Cardinality(replies) = 1
        BY <1>4, <3>1
      <3>4. Cardinality(waiting) = 1
        BY <1>4, <3>2
      <3> QED
        BY <3>1, <3>3, <3>4
    <2> QED
      BY <2>1, <2>2, <2>3
  <1>8. \A t \in waiting, i \in replies : KeysOf(Unread(c)[i]) = {key[t]}
    <2> TAKE t \in waiting, i \in replies
    <2>1. PICK k \in Keys : Awaited(c, k) /\ KeysOf(Unread(c)[i]) = {k}
      BY <1>6
    <2>2. key[t] = k
      BY <1>2, <2>1
    <2> QED
      BY <2>1, <2>2
  <1> QED
    BY <1>7, <1>8 DEF replies, waiting

\* Whatever the threads do, pipelines included, a usable connection has at most
\* one reply on its way, and it is for the thread that borrowed the connection.
THEOREM RepliesAreAwaited == Spec => []RepliesAwaited
  BY InvAwaited, SpecInv, PTL

\* A reply that a drain meets would be for a thread that waits under the lock
\* the drain itself holds.
LEMMA InvDrains == ASSUME Pipeliners = {}, Inv PROVE DrainsMeetNoReply
  <1> USE DEF Inv
  <1> SUFFICES ASSUME NEW t \in Threads, Draining(t), Socket(t) \notin poisoned,
                      NEW f \in ToSet(inbox[Socket(t)]), IsReply(f)
               PROVE  FALSE
    BY DEF DrainsMeetNoReply
  <1>1. PICK c \in Conns : c = Socket(t)
    BY SocketHeld DEF Draining
  <1>2. PICK v \in Seq(Frames), w \in Seq(Frames) : v = inbox[c] /\ w = wire[c]
    BY UnreadType
  <1>3. PICK i \in DOMAIN v : f = v[i]
    BY <1>1, <1>2 DEF ToSet
  <1>4. i \in DOMAIN (v \o w) /\ (v \o w)[i] = f
    <2>1. /\ DOMAIN v = 1..Len(v) /\ Len(v) \in Nat /\ Len(w) \in Nat
          /\ DOMAIN (v \o w) = 1..(Len(v) + Len(w))
          /\ \A j \in 1..(Len(v) + Len(w)) :
                (v \o w)[j] = IF j <= Len(v) THEN v[j] ELSE w[j - Len(v)]
      BY LenProperties, ConcatProperties
    <2> QED
      BY <1>3, <2>1
  <1>5. status[c] # "none"
    <2>1. v # <<>>
      BY <1>3
    <2> QED
      BY <1>2, <2>1 DEF ClosedInv
  <1>6. Aligned(c, v \o w)
    BY <1>1, <1>2, <1>5 DEF AlignInv, Quiet, Usable, Unread
  <1>7. PICK u \in Threads : holds[u] = c /\ Waiting(u)
    BY <1>4, <1>6 DEF Aligned, Awaited
  <1>8. pc[u] = "await" /\ Socket(u) = c
    BY <1>7 DEF Waiting, CallInv, Socket
  <1>9. u = t
    BY <1>1, <1>8 DEF LockInv
  <1> QED
    BY <1>8, <1>9 DEF Draining

\* Where no thread runs a pipeline, what a drain reads is out of band: the I/O
\* lock a drain takes is the one _roundtrip() keeps until its reply is read.  (A
\* pipeline writes and reads without it, and then a drain can meet its reply.)
THEOREM DrainsMeetOnlyPushes ==
  ASSUME Pipeliners = {}
  PROVE  Spec => []DrainsMeetNoReply
  <1>1. Inv => DrainsMeetNoReply
    BY InvDrains
  <1> QED
    BY <1>1, SpecInv, PTL

=============================================================================
