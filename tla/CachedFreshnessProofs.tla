------------------------ MODULE CachedFreshnessProofs ------------------------
(***************************************************************************)
(* Theorems about what CachedExecute may return, for any number of         *)
(* threads, connections and keys: a stale entry is always one whose        *)
(* invalidation is under way, and no call returns a value older than the   *)
(* invalidations that had begun to arrive before it.                       *)
(***************************************************************************)
EXTENDS CachedExecuteProofs

-----------------------------------------------------------------------------
\* The values a call may return for a key.

\* A reader whose ticket no invalidation has overtaken.
Live(t) == reading[t] # None /\ t \notin overtaken

\* The value is cached, or a reader that may store it has it or will read it.
Servable(k, x) ==
    \/ entries[k] # Miss /\ x = entries[k]
    \/ \E t \in Threads : /\ Live(t) /\ key[t] = k
                          /\ \/ pc[t] \in Answered /\ x = answer[t]
                             \/ /\ pc[t] = "await"
                                /\ \E f \in ToSet(Unread(holds[t])) :
                                      IsReply(f) /\ x = f.at[k]

\* An overtaken reader has a ticket that offer() will refuse.
TicketInv ==
    \A t \in Threads :
        /\ reading[t] = None => t \notin overtaken
        /\ reading[t] # None =>
              /\ ticket[t][1] <= epoch /\ ticket[t][2] <= generation[reading[t]]
              /\ t \in overtaken => ticket[t] # Cache!GenerationOf(reading[t])

\* The index finds every cached entry.
IndexInv == \A k \in Keys : entries[k] # Miss => k \in byKey[k]

\* An invalidation of the key is applied.
Handled(k) == \E t \in Threads : HandlePush(t) /\ k \in KeysOf(inHand[t])

ServeInv == Inv /\ TicketInv /\ IndexInv

-----------------------------------------------------------------------------
\* Frame conditions.

\* A step of one thread leaves the others where they are.
LEMMA OthersStay ==
  ASSUME TypeOK, NEW u \in Threads, NEW t \in Threads, t # u,
         ReadStep(u) \/ CallStep(u) \/ LockStep(u) \/ ChoiceStep(u)
  PROVE  /\ pc'[t] = pc[t] /\ key'[t] = key[t] /\ holds'[t] = holds[t]
         /\ peer'[t] = peer[t] /\ answer'[t] = answer[t] /\ todo'[t] = todo[t]
         /\ swept'[t] = swept[t] /\ floor'[t] = floor[t]
         /\ inHand'[t] = inHand[t]
  <1>1. CASE ReadStep(u)
    BY <1>1 DEF ReadStep, ParsePush, HandlePush, DrainEnds, DrainMeetsReply, DrainMeetsEOF,
      DrainTorn, DrainFails, DrainOver, ReadReply, AwaitInVain, AwaitFails, PipeReply,
      Leave, callVars, TypeOK
  <1>2. CASE CallStep(u)
    BY <1>2 DEF CallStep, SweepPeer, SweepDone, Hit, Missed, TakeTicket, CheckUsable,
      RefuseBroken, Offer, Leave, callVars, TypeOK
  <1>3. CASE LockStep(u)
    BY <1>3 DEF LockStep, EnterDrain, Send, callVars, TypeOK
  <1>4. CASE ChoiceStep(u)
    BY <1>4 DEF ChoiceStep, Borrow, Open, Release, Close, Call, PipeSend, ReplyWasError,
      DrainTimesOut, DrainFails, DrainOver, AwaitTimesOut, SendFails, AwaitFails, Leave,
      callVars, TypeOK
  <1> QED
    BY <1>1, <1>2, <1>3, <1>4

\* What only the cache's own operations change.
CacheStep(t) ==
    \/ HandlePush(t) \/ TakeTicket(t) \/ Offer(t) \/ AbandonTicket(t)

LEMMA CacheStays ==
  ASSUME Next
  PROVE  UNCHANGED cacheVars \/ ClearCache \/ \E t \in Threads : CacheStep(t)
  <1>1. ASSUME NEW t \in Threads, ReadStep(t) PROVE UNCHANGED cacheVars \/ CacheStep(t)
    BY <1>1 DEF ReadStep, CacheStep, ParsePush, DrainEnds, DrainMeetsReply, DrainMeetsEOF,
      DrainTorn, DrainFails, DrainOver, ReadReply, AwaitInVain, AwaitFails, PipeReply
  <1>2. ASSUME NEW t \in Threads, CallStep(t) \/ LockStep(t)
        PROVE  UNCHANGED cacheVars \/ CacheStep(t)
    BY <1>2 DEF CallStep, CacheStep, SweepPeer, SweepDone, Hit, Missed, CheckUsable,
      RefuseBroken, LockStep, EnterDrain, Send
  <1>3. ASSUME NEW t \in Threads, ChoiceStep(t) PROVE UNCHANGED cacheVars \/ CacheStep(t)
    BY <1>3 DEF ChoiceStep, CacheStep, Borrow, Open, Release, Close, Call, PipeSend,
      ReplyWasError, DrainTimesOut, DrainFails, DrainOver, AwaitTimesOut, SendFails, AwaitFails
  <1>4. CASE Environment
    BY <1>4 DEF Environment, Serve, Deliver, Split, Lose, DiscardIdle, Close, Write,
      FlushAll, Change
  <1> QED
    BY <1>1, <1>2, <1>3, <1>4 DEF Next

LEMMA EnvironmentStays ==
  Environment =>
    /\ UNCHANGED <<pc, callVars, inHand, holds>>
    /\ UNCHANGED cacheVars \/ ClearCache
  BY ClearLeaves
  DEF Environment, Serve, Deliver, Split, Lose, DiscardIdle, Close, Write, FlushAll,
    Change, callVars

LEMMA ClearedParts ==
  ASSUME ClearCache
  PROVE  \A k \in Keys : entries'[k] = Miss /\ byKey'[k] = {}
  BY DEF ClearCache, Cache!Clear, Cache!Forget

-----------------------------------------------------------------------------
\* Tickets and the index.

LEMMA AbandonedParts ==
  ASSUME TypeOK, NEW t \in Threads, AbandonTicket(t)
  PROVE  \/ UNCHANGED cacheVars
         \/ /\ reading' = [reading EXCEPT ![t] = None]
            /\ overtaken' = overtaken \ {t}
            /\ ticket' = [ticket EXCEPT ![t] = <<0, 0>>]
            /\ UNCHANGED <<entries, before, byKey, generation, epoch>>
  BY DEF AbandonTicket, Cache!Abandon, Cache!NoTicket, Cache!cacheVars, Cache!clockVars

\* What an applied push does to the cache.
LEMMA HandledParts ==
  ASSUME Inv, IndexInv, NEW t \in Threads, HandlePush(t)
  PROVE  /\ inHand[t] \in Frames /\ KeysOf(inHand[t]) \subseteq Keys
         /\ \A k \in Keys : k \in KeysOf(inHand[t]) => entries'[k] = Miss
         /\ \A k \in Keys : entries'[k] \in {entries[k], Miss}
         /\ UNCHANGED <<reading, ticket>>
         /\ overtaken \subseteq overtaken'
         /\ \A u \in Threads : reading[u] \in KeysOf(inHand[t]) => u \in overtaken'
  <1> USE DEF Inv
  <1>1. inHand[t] \in Frames
    BY DEF HandlePush, TypeOK
  <1>2. KeysOf(inHand[t]) \subseteq Keys
    BY <1>1, FrameParts
  <1>3. CASE Cache!DropAll
    BY <1>1, <1>2, <1>3, NoneAssumption
    DEF Cache!DropAll, Cache!Forget, Cache!Overtake, TypeOK, Cache!TypeOK
  <1>4. CASE Cache!DropKeys(KeysOf(inHand[t]))
    BY <1>1, <1>2, <1>4, NoneAssumption
    DEF Cache!DropKeys, Cache!Forget, Cache!Overtake, IndexInv, TypeOK, Cache!TypeOK
  <1> QED
    BY <1>3, <1>4 DEF HandlePush

LEMMA OfferParts ==
  ASSUME Inv, NEW t \in Threads, Offer(t)
  PROVE  /\ pc[t] = "offer" /\ key[t] \in Keys /\ reading[t] = key[t]
         /\ answer[t] \in 0..MaxWrites
         /\ reading' = [reading EXCEPT ![t] = None]
         /\ overtaken' = overtaken \ {t}
         /\ ticket' = [ticket EXCEPT ![t] = <<0, 0>>]
         /\ UNCHANGED <<generation, epoch>>
         /\ \/ UNCHANGED <<entries, byKey>>
            \/ /\ ticket[t] = Cache!GenerationOf(key[t])
               /\ \E gone \in SUBSET Keys : Cache!Put(key[t], answer[t], gone)
  <1> USE DEF Inv
  <1>1. /\ pc[t] = "offer" /\ key[t] \in Keys /\ reading[t] = key[t]
        /\ answer[t] \in 0..MaxWrites
    BY DEF Offer, CallInv, Ticketed, Answered
  <1>2. Cache!Current(t) => ticket[t] = Cache!GenerationOf(key[t])
    BY <1>1 DEF Cache!Current
  <1>3. Cache!Offer(t, answer[t])
    BY DEF Offer
  <1>4. CASE Cache!OfferRefused(t)
    BY <1>1, <1>3, <1>4
    DEF Cache!Offer, Cache!OfferRefused, Cache!NoTicket, Cache!clockVars, Cache!cacheVars
  <1>5. CASE Cache!OfferStored(t, answer[t])
    BY <1>1, <1>2, <1>3, <1>5 DEF Cache!Offer, Cache!OfferStored, Cache!NoTicket, Cache!clockVars
  <1>6. CASE Cache!OfferEvicting(t, answer[t])
    <2>1. \E gone \in SUBSET Keys : Cache!Put(key[t], answer[t], gone)
      BY <1>1, <1>6 DEF Cache!OfferEvicting
    <2> QED
      BY <1>1, <1>2, <1>3, <1>6, <2>1
      DEF Cache!Offer, Cache!OfferEvicting, Cache!NoTicket, Cache!clockVars
  <1> QED
    BY <1>3, <1>4, <1>5, <1>6 DEF Cache!Offer

LEMMA PutParts ==
  ASSUME TypeOK, NEW k \in Keys, NEW v \in 0..MaxWrites, NEW gone \in SUBSET Keys,
         Cache!Put(k, v, gone), IndexInv
  PROVE  /\ entries'[k] = v
         /\ \A j \in Keys : j # k => entries'[j] \in {entries[j], Miss}
         /\ IndexInv'
  BY DEF TypeOK, Cache!TypeOK, Cache!Put, IndexInv

LEMMA NextIndex == ASSUME ServeInv, [Next]_vars PROVE IndexInv'
  <1> USE DEF ServeInv
  <1>1. CASE UNCHANGED <<entries, byKey>>
    BY <1>1 DEF IndexInv
  <1>2. ASSUME NEW t \in Threads, HandlePush(t) PROVE IndexInv'
    <2>1. CASE Cache!DropAll
      BY <2>1 DEF Cache!DropAll, Cache!Forget, IndexInv
    <2>2. CASE Cache!DropKeys(KeysOf(inHand[t]))
      BY <2>2 DEF Cache!DropKeys, Cache!Forget, IndexInv
    <2> QED
      BY <1>2, <2>1, <2>2 DEF HandlePush
  <1>3. ASSUME NEW t \in Threads, Offer(t) PROVE IndexInv'
    <2>1. CASE UNCHANGED <<entries, byKey>>
      BY <1>1, <2>1
    <2>2. ASSUME NEW gone \in SUBSET Keys, Cache!Put(key[t], answer[t], gone) PROVE IndexInv'
      BY <1>3, <2>2, OfferParts, PutParts DEF Inv
    <2> QED
      BY <1>3, <2>1, <2>2, OfferParts
  <1>4. ASSUME NEW t \in Threads, TakeTicket(t) PROVE UNCHANGED <<entries, byKey>>
    BY <1>4 DEF TakeTicket, Cache!TakeGeneration, Cache!cacheVars
  <1>5. ASSUME NEW t \in Threads, AbandonTicket(t) PROVE UNCHANGED <<entries, byKey>>
    BY <1>5, AbandonedParts DEF Inv, cacheVars
  <1>6. CASE ClearCache
    BY <1>6, ClearedParts DEF IndexInv
  <1> QED
    BY <1>1, <1>2, <1>3, <1>4, <1>5, <1>6, CacheStays DEF CacheStep, vars, cacheVars

LEMMA NextTicket == ASSUME ServeInv, [Next]_vars PROVE TicketInv'
  <1> USE DEF ServeInv
  <1>1. CASE UNCHANGED <<reading, ticket, overtaken, generation, epoch>>
    BY <1>1 DEF TicketInv, Cache!GenerationOf
  <1>2. /\ epoch \in Nat /\ generation \in [Keys -> Nat]
        /\ reading \in [Threads -> Keys \cup {None}]
        /\ ticket \in [Threads -> Nat \X Nat]
    BY DEF Inv, TypeOK, Cache!TypeOK
  <1>3. ASSUME NEW t \in Threads, reading' = [reading EXCEPT ![t] = None],
               overtaken' = overtaken \ {t}, ticket' = [ticket EXCEPT ![t] = <<0, 0>>],
               UNCHANGED <<generation, epoch>>
        PROVE  TicketInv'
    BY <1>2, <1>3 DEF TicketInv, Cache!GenerationOf
  <1>4. ASSUME NEW t \in Threads, Offer(t) \/ AbandonTicket(t) PROVE TicketInv'
    BY <1>1, <1>3, <1>4, OfferParts, AbandonedParts DEF Inv, cacheVars
  <1>5. ASSUME NEW t \in Threads, TakeTicket(t) PROVE TicketInv'
    <2>1. PICK k \in Keys : k = key[t]
      BY <1>5 DEF TakeTicket, Inv, CallInv
    <2>2. /\ reading[t] = None
          /\ reading' = [reading EXCEPT ![t] = k]
          /\ ticket' = [ticket EXCEPT ![t] = <<epoch, generation[k]>>]
          /\ UNCHANGED <<generation, epoch, overtaken>>
      BY <1>5, <2>1 DEF TakeTicket, Cache!TakeGeneration, Cache!GenerationOf, Cache!clockVars
    <2> QED
      BY <1>2, <2>2, NoneAssumption DEF TicketInv, Cache!GenerationOf
  <1>6. ASSUME NEW ks \in SUBSET Keys, UNCHANGED <<reading, ticket>>,
               overtaken' = overtaken \cup {t \in Threads : reading[t] # None /\ reading[t] \in ks},
               \/ /\ ks = Keys /\ epoch' = epoch + 1 /\ UNCHANGED generation
               \/ /\ UNCHANGED epoch
                  /\ generation' = [k \in Keys |->
                                      IF k \in ks THEN generation[k] + 1 ELSE generation[k]]
        PROVE  TicketInv'
    <2> SUFFICES ASSUME NEW t \in Threads
                 PROVE  /\ reading[t] = None => t \notin overtaken'
                        /\ reading[t] # None =>
                              /\ ticket[t][1] <= epoch' /\ ticket[t][2] <= generation'[reading[t]]
                              /\ t \in overtaken' => ticket[t] # <<epoch', generation'[reading[t]]>>
      BY <1>6 DEF TicketInv, Cache!GenerationOf
    <2>1. CASE reading[t] = None
      BY <1>6, <2>1 DEF TicketInv
    <2>2. CASE reading[t] # None
      <3>1. PICK k \in Keys : k = reading[t]
        BY <1>2, <2>2
      <3>2. PICK a \in Nat, b \in Nat : ticket[t] = <<a, b>>
        BY <1>2
      <3>3. /\ a <= epoch /\ b <= generation[k]
            /\ t \in overtaken => <<a, b>> # <<epoch, generation[k]>>
        BY <2>2, <3>1, <3>2 DEF TicketInv, Cache!GenerationOf
      <3>4. /\ epoch \in Nat /\ generation[k] \in Nat /\ epoch' \in Nat /\ generation'[k] \in Nat
            /\ epoch' >= epoch /\ generation'[k] >= generation[k]
            /\ k \in ks => epoch' > epoch \/ generation'[k] > generation[k]
        BY <1>2, <1>6
      <3>5. t \in overtaken' => t \in overtaken \/ k \in ks
        BY <1>6, <3>1
      <3>6. a <= epoch' /\ b <= generation'[k]
        BY <3>3, <3>4
      <3>7. t \in overtaken' => <<a, b>> # <<epoch', generation'[k]>>
        BY <3>3, <3>4, <3>5
      <3> QED
        BY <2>2, <3>1, <3>2, <3>6, <3>7
    <2> QED
      BY <2>1, <2>2
  <1>7. ASSUME NEW t \in Threads, HandlePush(t) PROVE TicketInv'
    <2>1. PICK ks \in SUBSET Keys : ks = KeysOf(inHand[t])
      BY <1>7, HandledParts
    <2>2. CASE Cache!DropAll
      BY <1>2, <1>6, <2>2 DEF Cache!DropAll, Cache!Overtake
    <2>3. CASE Cache!DropKeys(ks)
      <3>1. overtaken' = overtaken \cup {u \in Threads : reading[u] # None /\ reading[u] \in ks}
        BY <1>2, <2>3 DEF Cache!DropKeys, Cache!Overtake
      <3>2. /\ UNCHANGED <<epoch, reading, ticket>>
            /\ generation' = [k \in Keys |->
                                IF k \in ks THEN generation[k] + 1 ELSE generation[k]]
        BY <2>3 DEF Cache!DropKeys
      <3> QED
        BY <1>6, <3>1, <3>2
    <2> QED
      BY <1>7, <2>1, <2>2, <2>3 DEF HandlePush
  <1> QED
    BY <1>1, <1>4, <1>5, <1>7, CacheStays, ClearLeaves DEF CacheStep, vars, cacheVars

-----------------------------------------------------------------------------
\* What is unread after a step.

LEMMA UnreadSet ==
  ASSUME NEW v \in [Conns -> Seq(Frames)], NEW w \in [Conns -> Seq(Frames)], NEW c \in Conns
  PROVE  ToSet(v[c] \o w[c]) = ToSet(v[c]) \cup ToSet(w[c])
  BY SetOfConcat

LEMMA UnreadNow ==
  ASSUME TypeOK, NEW c \in Conns
  PROVE  ToSet(Unread(c)) = ToSet(inbox[c]) \cup ToSet(wire[c])
  BY UnreadSet DEF Unread, TypeOK

LEMMA UnreadNext ==
  ASSUME Inv, [Next]_vars, NEW c \in Conns
  PROVE  ToSet(inbox'[c] \o wire'[c]) = ToSet(inbox'[c]) \cup ToSet(wire'[c])
  BY NextNetType, UnreadSet DEF NetType

\* A thread that takes a frame takes the first of its socket.
Takes(t) == ParsePush(t) \/ DrainMeetsReply(t) \/ ReadReply(t) \/ PipeReply(t)

LEMMA TakenFrame ==
  ASSUME Inv, NEW t \in Threads, Takes(t)
  PROVE  /\ Socket(t) \in Conns /\ inbox[Socket(t)] # <<>>
         /\ ToSet(inbox[Socket(t)]) = ToSet(inbox'[Socket(t)]) \cup {Head(inbox[Socket(t)])}
         /\ \A c \in Conns : c # Socket(t) => inbox'[c] = inbox[c]
         /\ UNCHANGED <<wire, cut>>
  <1>1. PICK c \in Conns : c = Socket(t)
    BY SocketHeld DEF Inv, Takes, ParsePush, DrainMeetsReply, ReadReply, PipeReply, Reading,
      Draining
  <1>2. /\ inbox[c] # <<>> /\ inbox' = [inbox EXCEPT ![c] = Tail(@)]
        /\ UNCHANGED <<wire, cut>>
    BY <1>1 DEF Takes, ParsePush, DrainMeetsReply, ReadReply, PipeReply
  <1>3. PICK v \in Seq(Frames) : v = inbox[c]
    BY UnreadType DEF Inv
  <1>4. ToSet(v) = ToSet(Tail(v)) \cup {Head(v)}
    BY <1>2, <1>3, SetOfTail
  <1>5. inbox'[c] = Tail(v) /\ \A d \in Conns : d # c => inbox'[d] = inbox[d]
    BY <1>2, <1>3 DEF Inv, TypeOK
  <1> QED
    BY <1>1, <1>2, <1>3, <1>4, <1>5

LEMMA DeliveredFrame ==
  ASSUME TypeOK, NEW c \in Conns, Deliver(c)
  PROVE  /\ Head(wire[c]) \in Frames
         /\ ToSet(inbox'[c]) = ToSet(inbox[c]) \cup {Head(wire[c])}
         /\ ToSet(wire[c]) = ToSet(wire'[c]) \cup {Head(wire[c])}
         /\ \A d \in Conns : d # c => inbox'[d] = inbox[d] /\ wire'[d] = wire[d]
  <1>1. PICK v \in Seq(Frames), w \in Seq(Frames) : v = inbox[c] /\ w = wire[c]
    BY UnreadType
  <1>2. w # <<>> /\ Head(w) \in Frames
    BY <1>1, HeadTailProperties DEF Deliver
  <1>3. /\ ToSet(w) = ToSet(Tail(w)) \cup {Head(w)}
        /\ ToSet(Append(v, Head(w))) = ToSet(v) \cup {Head(w)}
    BY <1>2, SetOfTail, SetOfAppend
  <1>4. /\ inbox'[c] = Append(v, Head(w)) /\ wire'[c] = Tail(w)
        /\ \A d \in Conns : d # c => inbox'[d] = inbox[d] /\ wire'[d] = wire[d]
    BY <1>1 DEF Deliver, TypeOK
  <1> QED
    BY <1>1, <1>2, <1>3, <1>4

LEMMA AppendedSet ==
  ASSUME NEW w \in Seq(Frames), NEW f \in Frames
  PROVE  ToSet(Append(w, f)) = ToSet(w) \cup {f}
  BY SetOfAppend

LEMMA ServedFrame ==
  ASSUME TypeOK, NEW c \in Conns, Serve(c)
  PROVE  /\ request[c] \in Keys
         /\ \E f \in Frames : /\ IsReply(f) /\ KeysOf(f) = {request[c]}
                              /\ f.at[request[c]] = version[request[c]]
                              /\ ToSet(wire'[c]) = ToSet(wire[c]) \cup {f}
                              /\ wire[c] # <<>> => Head(wire'[c]) = Head(wire[c])
                              /\ wire[c] = <<>> => Head(wire'[c]) = f
         /\ \A d \in Conns : d # c => wire'[d] = wire[d]
  <1>1. PICK f \in Frames : /\ IsReply(f) /\ KeysOf(f) = {request[c]}
                            /\ f.at[request[c]] = version[request[c]]
                            /\ wire' = [wire EXCEPT ![c] = Append(@, f)]
    BY ServeFrame
  <1>2. f \in Frames
    BY <1>1
  <1>3. PICK w \in Seq(Frames) : w = wire[c]
    BY UnreadType
  <1>4. ToSet(Append(w, f)) = ToSet(w) \cup {f}
    BY <1>2, AppendedSet
  <1>5. /\ w # <<>> => Head(Append(w, f)) = Head(w)
        /\ w = <<>> => Head(Append(w, f)) = f
    BY <1>2, AppendProperties, EmptySeq
  <1> QED
    BY <1>1, <1>3, <1>4, <1>5, ServeFrame DEF TypeOK

\* A write or a flush adds one push to the wire of those it is told.
TellsOf(f, told) ==
    \A c \in Conns :
        /\ ToSet(wire'[c]) = IF c \in told THEN ToSet(wire[c]) \cup {f} ELSE ToSet(wire[c])
        /\ wire[c] # <<>> => wire'[c] # <<>> /\ Head(wire'[c]) = Head(wire[c])

LEMMA ChangedFrame ==
  ASSUME TypeOK, NEW ks \in SUBSET Keys, NEW kind \in {"invalidate", "flush"},
         NEW told \in SUBSET Conns, Change(ks, kind, told)
  PROVE  \E f \in Frames :
            /\ ~IsReply(f) /\ KeysOf(f) = ks /\ \A k \in ks : f.at[k] = version'[k]
            /\ TellsOf(f, told)
  <1>1. PICK f \in Frames : /\ ~IsReply(f) /\ KeysOf(f) = ks /\ \A k \in ks : f.at[k] = version'[k]
                            /\ Sent(f, told)
    BY ChangeFrame
  <1>2. f \in Frames
    BY <1>1
  <1>3. ASSUME NEW c \in Conns
        PROVE  /\ ToSet(wire'[c]) = IF c \in told THEN ToSet(wire[c]) \cup {f} ELSE ToSet(wire[c])
               /\ wire[c] # <<>> => wire'[c] # <<>> /\ Head(wire'[c]) = Head(wire[c])
    <2>1. PICK w \in Seq(Frames) : w = wire[c]
      BY UnreadType
    <2>2. ToSet(Append(w, f)) = ToSet(w) \cup {f}
      BY <1>2, AppendedSet
    <2>3. w # <<>> => Append(w, f) # <<>> /\ Head(Append(w, f)) = Head(w)
      BY <1>2, AppendProperties
    <2> QED
      BY <1>1, <2>1, <2>2, <2>3 DEF Sent
  <1>4. TellsOf(f, told)
    BY <1>3 DEF TellsOf
  <1> QED
    BY <1>1, <1>4

LEMMA WriteChanges ==
  ASSUME TypeOK, (\E k \in Keys : Write(k)) \/ FlushAll
  PROVE  \E ks \in SUBSET Keys, kind \in {"invalidate", "flush"}, told \in SUBSET Conns :
            /\ Change(ks, kind, told)
            /\ \A k \in ks : \A c \in tracking[k] : status[c] = "up" => c \in told
  <1>1. ASSUME NEW ks \in SUBSET Keys, NEW kind \in {"invalidate", "flush"},
               NEW told \in SUBSET Conns, Change(ks, kind, told),
               \A k \in ks : \A c \in tracking[k] : status[c] = "up" => c \in told
        PROVE  \E js \in SUBSET Keys, d \in {"invalidate", "flush"}, cs \in SUBSET Conns :
                  /\ Change(js, d, cs)
                  /\ \A k \in js : \A c \in tracking[k] : status[c] = "up" => c \in cs
    BY <1>1
  <1>2. ASSUME NEW k \in Keys, Write(k)
        PROVE  /\ Change({k}, "invalidate", tracking[k]) /\ tracking[k] \in SUBSET Conns
               /\ {k} \in SUBSET Keys
               /\ \A j \in {k} : \A c \in tracking[j] : status[c] = "up" => c \in tracking[k]
    BY <1>2 DEF Write, TypeOK
  <1>3. ASSUME FlushAll
        PROVE  /\ Change(Keys, "flush", {c \in Conns : status[c] = "up"})
               /\ Keys \in SUBSET Keys /\ {c \in Conns : status[c] = "up"} \in SUBSET Conns
               /\ \A k \in Keys : \A c \in tracking[k] :
                     status[c] = "up" => c \in {d \in Conns : status[d] = "up"}
    BY <1>3 DEF FlushAll, TypeOK
  <1>4. ASSUME NEW k \in Keys, Write(k)
        PROVE  \E js \in SUBSET Keys, d \in {"invalidate", "flush"}, cs \in SUBSET Conns :
                  /\ Change(js, d, cs)
                  /\ \A j \in js : \A c \in tracking[j] : status[c] = "up" => c \in cs
    <2>1. PICK ks \in SUBSET Keys, told \in SUBSET Conns : ks = {k} /\ told = tracking[k]
      BY <1>2, <1>4
    <2>2. Change(ks, "invalidate", told)
      BY <1>2, <1>4, <2>1
    <2>3. \A j \in ks : \A c \in tracking[j] : status[c] = "up" => c \in told
      BY <2>1
    <2> QED
      BY <2>2, <2>3
  <1>5. ASSUME FlushAll
        PROVE  \E js \in SUBSET Keys, d \in {"invalidate", "flush"}, cs \in SUBSET Conns :
                  /\ Change(js, d, cs)
                  /\ \A j \in js : \A c \in tracking[j] : status[c] = "up" => c \in cs
    BY <1>1, <1>3, <1>5
  <1> QED
    BY <1>4, <1>5

\* Where a frame that is unread came from.
LEMMA UnreadBack ==
  ASSUME Inv, [Next]_vars, NEW c \in Conns, NEW f \in ToSet(inbox'[c] \o wire'[c])
  PROVE  \/ f \in ToSet(Unread(c))
         \/ /\ Serve(c) /\ IsReply(f) /\ request[c] \in Keys /\ KeysOf(f) = {request[c]}
            /\ f.at[request[c]] = version[request[c]]
         \/ ~IsReply(f) /\ \A k \in KeysOf(f) : k \in Keys /\ f.at[k] = version'[k]
  <1> USE DEF Inv
  <1> DEFINE Known == \/ f \in ToSet(inbox[c]) \cup ToSet(wire[c])
                      \/ /\ Serve(c) /\ IsReply(f) /\ request[c] \in Keys /\ KeysOf(f) = {request[c]}
                         /\ f.at[request[c]] = version[request[c]]
                      \/ ~IsReply(f) /\ \A k \in KeysOf(f) : k \in Keys /\ f.at[k] = version'[k]
  <1>1. f \in ToSet(inbox'[c]) \cup ToSet(wire'[c])
    BY UnreadNext
  <1> SUFFICES Known
    BY UnreadNow
  <1>2. CASE inbox'[c] = inbox[c] /\ wire'[c] = wire[c]
    BY <1>1, <1>2
  <1>3. ASSUME NEW t \in Threads, Takes(t) PROVE Known
    <2>1. wire'[c] = wire[c] /\ ToSet(inbox'[c]) \subseteq ToSet(inbox[c])
      BY <1>3, TakenFrame
    <2> QED
      BY <1>1, <2>1
  <1>4. ASSUME NEW d \in Conns, Close(d) PROVE Known
    <2>1. CASE c = d
      <3>1. inbox'[c] = <<>> /\ wire'[c] = <<>>
        BY <1>4, <2>1 DEF Close, TypeOK
      <3>2. ToSet(<<>>) = {}
        BY DEF ToSet
      <3> QED
        BY <1>1, <3>1, <3>2
    <2>2. CASE c # d
      BY <1>2, <1>4, <2>2 DEF Close, TypeOK
    <2> QED
      BY <2>1, <2>2
  <1>5. ASSUME NEW t \in Threads, Release(t) PROVE Known
    <2>1. holds[t] \in Conns
      BY <1>5 DEF Release, TypeOK
    <2> QED
      BY <1>2, <1>4, <1>5, <2>1 DEF Release, netVars
  <1>6. ASSUME NEW d \in Conns, Serve(d) PROVE Known
    <2>1. CASE c # d
      BY <1>2, <1>6, <2>1, ServedFrame DEF Serve
    <2>2. CASE c = d
      <3>1. PICK g \in Frames : /\ IsReply(g) /\ KeysOf(g) = {request[c]}
                               /\ g.at[request[c]] = version[request[c]]
                               /\ ToSet(wire'[c]) = ToSet(wire[c]) \cup {g}
        BY <1>6, <2>2, ServedFrame
      <3>2. request[c] \in Keys /\ inbox'[c] = inbox[c]
        BY <1>6, <2>2, ServedFrame DEF Serve
      <3>3. f = g \/ f \in ToSet(inbox[c]) \cup ToSet(wire[c])
        BY <1>1, <3>1, <3>2
      <3> QED
        BY <1>6, <2>2, <3>1, <3>2, <3>3
    <2> QED
      BY <2>1, <2>2
  <1>7. ASSUME NEW d \in Conns, Deliver(d) PROVE Known
    BY <1>1, <1>7, DeliveredFrame
  <1>8. ASSUME NEW d \in Conns, Lose(d) PROVE Known
    <2>1. inbox'[c] = inbox[c] /\ (wire'[c] = wire[c] \/ wire'[c] = <<>>)
      BY <1>8 DEF Lose, TypeOK
    <2>2. ToSet(<<>>) = {}
      BY DEF ToSet
    <2> QED
      BY <1>1, <2>1, <2>2
  <1>9. ASSUME NEW ks \in SUBSET Keys, NEW kind \in {"invalidate", "flush"},
               NEW told \in SUBSET Conns, Change(ks, kind, told)
        PROVE  Known
    <2>1. PICK g \in Frames :
            /\ ~IsReply(g) /\ KeysOf(g) = ks /\ \A k \in ks : g.at[k] = version'[k]
            /\ TellsOf(g, told)
      BY <1>9, ChangedFrame
    <2>2. inbox'[c] = inbox[c]
      BY <1>9 DEF Change
    <2> QED
      BY <1>1, <2>1, <2>2 DEF TellsOf
  <1>10. CASE Environment
    <2>1. ASSUME (\E k \in Keys : Write(k)) \/ FlushAll PROVE Known
      BY <1>9, <2>1, WriteChanges
    <2> QED
      BY <1>2, <1>4, <1>6, <1>7, <1>8, <1>10, <2>1, ClearLeaves
      DEF Environment, Split, DiscardIdle, netVars
  <1>11. CASE UNCHANGED <<serverVars, netVars, status>>
    BY <1>2, <1>11 DEF netVars
  <1>12. ASSUME NEW t \in Threads, \/ Send(t) \/ \E d \in Conns : Open(t, d)
                                   \/ \E k \in Keys : PipeSend(t, k)
         PROVE  Known
    BY <1>2, <1>12 DEF Send, Open, PipeSend, netVars
  <1> QED
    BY <1>3, <1>5, <1>10, <1>11, <1>12, StreamsStay DEF StreamStep, Takes, vars, connVars

-----------------------------------------------------------------------------
\* Where a value that may be served came from.

\* A live reader was live before, or has just taken its ticket.
LEMMA LiveBack ==
  ASSUME ServeInv, [Next]_vars, NEW t \in Threads, Live(t)', ~TakeTicket(t)
  PROVE  Live(t) /\ reading'[t] = reading[t]
  <1> USE DEF ServeInv
  <1>1. CASE UNCHANGED cacheVars
    BY <1>1 DEF Live, cacheVars
  <1>2. reading \in [Threads -> Keys \cup {None}]
    BY DEF Inv, TypeOK, Cache!TypeOK
  <1>3. ASSUME NEW u \in Threads, HandlePush(u) PROVE Live(t) /\ reading'[t] = reading[t]
    BY <1>3, HandledParts DEF Live
  <1>4. ASSUME NEW u \in Threads, TakeTicket(u) PROVE Live(t) /\ reading'[t] = reading[t]
    <2>1. u # t /\ reading' = [reading EXCEPT ![u] = key[u]] /\ UNCHANGED overtaken
      BY <1>4 DEF TakeTicket, Cache!TakeGeneration
    <2> QED
      BY <1>2, <2>1 DEF Live
  <1>5. ASSUME NEW u \in Threads, Offer(u) \/ AbandonTicket(u)
        PROVE  Live(t) /\ reading'[t] = reading[t]
    <2>1. CASE reading' = [reading EXCEPT ![u] = None] /\ overtaken' = overtaken \ {u}
      BY <1>2, <2>1 DEF Live
    <2> QED
      BY <1>1, <1>5, <2>1, OfferParts, AbandonedParts DEF Inv
  <1> QED
    BY <1>1, <1>3, <1>4, <1>5, CacheStays, ClearLeaves DEF CacheStep, Live, vars

\* A thread between its command and its offer has gone on from there.
LEMMA AnswerStep ==
  ASSUME Inv, [Next]_vars, NEW t \in Threads, pc'[t] \in Answered \cup {"await"}
  PROVE  /\ key'[t] = key[t] /\ holds'[t] = holds[t] /\ floor'[t] = floor[t]
         /\ key[t] \in Keys /\ holds[t] \in Conns
         /\ \/ pc'[t] \in Answered /\ pc[t] \in Answered /\ answer'[t] = answer[t]
            \/ pc'[t] = "await" /\ pc[t] = "await"
            \/ ReadReply(t)
            \/ Send(t)
  <1> USE DEF Inv
  <1> DEFINE Same == key'[t] = key[t] /\ holds'[t] = holds[t] /\ floor'[t] = floor[t]
             Goes == \/ pc'[t] \in Answered /\ pc[t] \in Answered /\ answer'[t] = answer[t]
                     \/ pc'[t] = "await" /\ pc[t] = "await"
             Still == Same /\ pc[t] # "out" /\ Goes
  <1>1. pc'[t] \in {"await", "own2", "drain2", "offer"} /\ ~Leave(t)
    BY DEF Answered, Leave, TypeOK
  <1>2. ASSUME UNCHANGED <<pc, callVars, holds>> PROVE Still
    BY <1>1, <1>2 DEF callVars, Answered
  <1>3. ASSUME NEW u \in Threads, u # t, ReadStep(u) \/ CallStep(u) \/ LockStep(u) \/ ChoiceStep(u)
        PROVE  Still
    <2>1. Same /\ pc'[t] = pc[t] /\ answer'[t] = answer[t]
      BY <1>3, OthersStay
    <2> QED
      BY <1>1, <2>1 DEF Answered
  <1>4. ASSUME DrainOver(t), Draining(t), UNCHANGED holds PROVE Still
    <2>1. key' = key /\ answer' = answer /\ floor' = floor /\ pc'[t] = AfterDrain(t)
      BY <1>4 DEF DrainOver, TypeOK
    <2>2. pc[t] = "drain2" /\ pc'[t] = "offer"
      BY <1>1, <1>4, <2>1 DEF AfterDrain, Draining
    <2> QED
      BY <1>4, <2>1, <2>2 DEF Answered
  <1>5. ASSUME ReadStep(t) PROVE Still \/ (ReadReply(t) /\ Same /\ pc[t] # "out")
    <2>1. ASSUME ParsePush(t) \/ HandlePush(t) PROVE Still
      BY <1>2, <2>1 DEF ParsePush, HandlePush
    <2>2. ASSUME ReadReply(t) PROVE Same /\ pc[t] # "out"
      BY <2>2 DEF ReadReply
    <2>3. ASSUME DrainEnds(t) \/ DrainMeetsReply(t) \/ DrainMeetsEOF(t) \/ DrainTorn(t)
          PROVE  Still
      BY <1>1, <1>4, <2>3 DEF DrainEnds, DrainMeetsReply, DrainMeetsEOF, DrainTorn, DrainFails
    <2>4. ~AwaitInVain(t) /\ ~PipeReply(t)
      BY <1>1 DEF AwaitInVain, AwaitFails, PipeReply
    <2> QED
      BY <1>5, <2>1, <2>2, <2>3, <2>4 DEF ReadStep
  <1>6. ~CallStep(t)
    <2>1. ASSUME NEW c \in Conns PROVE ~SweepPeer(t, c)
      BY <1>1 DEF SweepPeer, TypeOK
    <2>2. ~SweepDone(t) /\ ~Missed(t) /\ ~TakeTicket(t) /\ ~CheckUsable(t)
      BY <1>1 DEF SweepDone, Missed, TakeTicket, CheckUsable, TypeOK
    <2> QED
      BY <1>1, <2>1, <2>2 DEF CallStep, Hit, RefuseBroken, Offer
  <1>7. ASSUME LockStep(t) PROVE Still \/ (Send(t) /\ Same /\ pc[t] # "out")
    <2>1. ASSUME Send(t) PROVE Same /\ pc[t] # "out"
      BY <2>1 DEF Send, callVars
    <2>2. ASSUME EnterDrain(t, "own2", "drain2", "offer") PROVE Still
      <3>1. /\ key' = key /\ holds' = holds /\ answer' = answer /\ floor' = floor
            /\ pc[t] = "own2" /\ pc'[t] \in {"drain2", "offer"}
        BY <2>2 DEF EnterDrain, callVars, TypeOK
      <3> QED
        BY <3>1 DEF Answered
    <2>3. ~EnterDrain(t, "own1", "drain1", "lookup")
      BY <1>1 DEF EnterDrain, TypeOK
    <2> QED
      BY <1>7, <2>1, <2>2, <2>3 DEF LockStep
  <1>8. ~ChoiceStep(t)
    <2>1. ~DrainTimesOut(t)
      <3>1. ~DrainOver(t) \/ pc[t] # "peer"
        BY <1>1 DEF DrainOver, AfterDrain, TypeOK
      <3> QED
        BY <1>1, <3>1 DEF DrainTimesOut, DrainFails
    <2>2. \A c \in Conns : ~Borrow(t, c) /\ ~Open(t, c)
      BY <1>1 DEF Borrow, Open
    <2>3. ~Release(t)
      <3>1. ASSUME Release(t) PROVE pc' = pc /\ pc[t] = "out"
        BY <3>1 DEF Release, Close
      <3> QED
        BY <1>1, <3>1
    <2>4. \A k \in Keys : ~Call(t, k) /\ ~PipeSend(t, k)
      BY <1>1 DEF Call, PipeSend, TypeOK
    <2> QED
      BY <1>1, <2>1, <2>2, <2>3, <2>4
      DEF ChoiceStep, ReplyWasError, AwaitTimesOut, SendFails, AwaitFails
  <1>9. Same /\ pc[t] # "out" /\ (Goes \/ ReadReply(t) \/ Send(t))
    <2>1. ASSUME \E u \in Threads : u # t /\ (ReadStep(u) \/ CallStep(u) \/ LockStep(u) \/ ChoiceStep(u))
          PROVE  Still
      BY <1>3, <2>1
    <2>2. ASSUME UNCHANGED vars \/ Environment PROVE Still
      BY <1>2, <2>2, EnvironmentStays DEF vars
    <2> QED
      BY <1>5, <1>6, <1>7, <1>8, <2>1, <2>2 DEF Next
  <1>10. key[t] \in Keys /\ holds[t] \in Conns
    BY <1>9 DEF CallInv, TypeOK
  <1> QED
    BY <1>9, <1>10

\* A reader with a ticket that is still good, between its command and its offer.
LEMMA LiveStep ==
  ASSUME ServeInv, [Next]_vars, NEW t \in Threads, Live(t)',
         pc'[t] \in Answered \cup {"await"}
  PROVE  /\ Live(t) /\ key'[t] = key[t] /\ key[t] \in Keys
         /\ holds'[t] = holds[t] /\ holds[t] \in Conns
         /\ ~Handled(key[t])
         /\ \/ pc'[t] \in Answered /\ pc[t] \in Answered /\ answer'[t] = answer[t]
            \/ pc'[t] = "await" /\ pc[t] = "await"
            \/ ReadReply(t)
            \/ Send(t)
  <1>1. ~TakeTicket(t)
    BY DEF TakeTicket, Answered, ServeInv, Inv, TypeOK
  <1>2. Live(t) /\ reading'[t] = reading[t]
    BY <1>1, LiveBack
  <1>3. reading[t] = key[t]
    BY <1>2 DEF Live, ServeInv, Inv, CallInv
  <1>4. ~Handled(key[t])
    BY <1>2, <1>3, HandledParts DEF Handled, Live, ServeInv
  <1> QED
    BY <1>2, <1>4, AnswerStep DEF ServeInv

\* A value that may be served could be served before, unless the server has just
\* sent it; and it is not of a key whose invalidation is being applied.
LEMMA NextServable ==
  ASSUME ServeInv, [Next]_vars, NEW k \in Keys, NEW x, Servable(k, x)'
  PROVE  /\ ~Handled(k)
         /\ \/ Servable(k, x)
            \/ \E c \in Conns : Serve(c) /\ request[c] = k /\ x = version[k]
  <1> USE DEF ServeInv
  <1> DEFINE Known == \/ Servable(k, x)
                      \/ \E c \in Conns : Serve(c) /\ request[c] = k /\ x = version[k]
  <1>1. CASE entries'[k] # Miss /\ x = entries'[k]
    <2>1. ~Handled(k)
      BY <1>1, HandledParts DEF Handled
    <2>2. ASSUME entries'[k] = entries[k] PROVE Known
      BY <1>1, <2>2 DEF Servable
    <2>3. ASSUME NEW t \in Threads, HandlePush(t) PROVE Known
      BY <1>1, <2>2, <2>3, HandledParts
    <2>4. ASSUME NEW t \in Threads, Offer(t) PROVE Known
      <3>1. /\ pc[t] = "offer" /\ key[t] \in Keys /\ reading[t] = key[t]
            /\ answer[t] \in 0..MaxWrites
        BY <2>4, OfferParts DEF Inv
      <3>2. ASSUME NEW gone \in SUBSET Keys, Cache!Put(key[t], answer[t], gone),
                   ticket[t] = Cache!GenerationOf(key[t])
            PROVE  Known
        <4>1. \/ entries'[k] = entries[k]
              \/ k = key[t] /\ x = answer[t]
          BY <1>1, <3>1, <3>2, PutParts DEF Inv
        <4>2. t \notin overtaken /\ reading[t] # None
          BY <3>1, <3>2, NoneAssumption DEF TicketInv
        <4>3. Live(t) /\ pc[t] \in Answered
          BY <3>1, <4>2 DEF Live, Answered
        <4>4. k = key[t] /\ x = answer[t] => Servable(k, x)
          BY <4>3 DEF Servable
        <4> QED
          BY <2>2, <4>1, <4>4
      <3>3. \/ UNCHANGED entries
            \/ /\ ticket[t] = Cache!GenerationOf(key[t])
               /\ \E gone \in SUBSET Keys : Cache!Put(key[t], answer[t], gone)
        BY <2>4, OfferParts
      <3> QED
        BY <2>2, <3>2, <3>3
    <2>5. ASSUME NEW t \in Threads, TakeTicket(t) \/ AbandonTicket(t) PROVE UNCHANGED entries
      BY <2>5, AbandonedParts
      DEF TakeTicket, Cache!TakeGeneration, Cache!cacheVars, Inv, cacheVars
    <2>6. CASE ClearCache
      BY <1>1, <2>6, ClearedParts
    <2>7. Known
      BY <2>2, <2>3, <2>4, <2>5, <2>6, CacheStays DEF CacheStep, cacheVars, vars
    <2> QED
      BY <2>1, <2>7
  <1>2. ASSUME NEW t \in Threads, Live(t)', key'[t] = k, pc'[t] \in Answered, x = answer'[t]
        PROVE  ~Handled(k) /\ Known
    <2>1. /\ Live(t) /\ key[t] = k /\ ~Handled(k) /\ holds[t] \in Conns
          /\ \/ pc[t] \in Answered /\ answer'[t] = answer[t]
             \/ ReadReply(t)
             \/ pc'[t] = "await" \/ Send(t)
      BY <1>2, LiveStep
    <2>2. pc'[t] # "await"
      BY <1>2 DEF Answered
    <2>3. ~Send(t)
      BY <2>2 DEF Send, Inv, TypeOK
    <2>4. ASSUME pc[t] \in Answered, answer'[t] = answer[t] PROVE Known
      BY <1>2, <2>1, <2>4 DEF Servable
    <2>5. ASSUME ReadReply(t) PROVE Known
      <3>1. /\ pc[t] = "await" /\ inbox[Socket(t)] # <<>> /\ IsReply(Head(inbox[Socket(t)]))
            /\ answer'[t] = Head(inbox[Socket(t)]).at[key[t]]
        BY <2>5 DEF ReadReply, Inv, TypeOK
      <3>2. Socket(t) = holds[t]
        BY <3>1 DEF Socket, Inv, CallInv
      <3>3. Head(inbox[holds[t]]) \in ToSet(inbox[holds[t]])
        BY <2>5, <3>2, TakenFrame DEF Takes
      <3>4. Head(inbox[holds[t]]) \in ToSet(Unread(holds[t]))
        BY <2>1, <3>3, UnreadNow DEF Inv
      <3> QED
        BY <1>2, <2>1, <3>1, <3>2, <3>4 DEF Servable
    <2> QED
      BY <2>1, <2>2, <2>3, <2>4, <2>5
  <1>3. ASSUME NEW t \in Threads, Live(t)', key'[t] = k, pc'[t] = "await",
               NEW f \in ToSet(inbox'[holds'[t]] \o wire'[holds'[t]]), IsReply(f), x = f.at[k]
        PROVE  ~Handled(k) /\ Known
    <2>1. /\ Live(t) /\ key[t] = k /\ ~Handled(k) /\ holds[t] \in Conns /\ holds'[t] = holds[t]
          /\ pc[t] = "await" \/ Send(t)
      <3>1. pc'[t] \notin Answered /\ ~ReadReply(t)
        BY <1>3 DEF Answered, ReadReply, Inv, TypeOK
      <3> QED
        BY <1>3, <3>1, LiveStep
    <2>2. PICK c \in Conns : c = holds[t]
      BY <2>1
    <2>3. f \in ToSet(inbox'[c] \o wire'[c])
      BY <1>3, <2>1, <2>2
    <2>4. Aligned(c, Unread(c))
      BY <2>1, <2>2 DEF Inv, AlignInv, Quiet, Send, Waiting
    <2>5. ASSUME pc[t] = "await", f \in ToSet(Unread(c)) PROVE Known
      BY <1>3, <2>1, <2>2, <2>5 DEF Servable
    <2>6. ASSUME Serve(c), request[c] \in Keys, KeysOf(f) = {request[c]},
                 f.at[request[c]] = version[request[c]]
          PROVE  Known
      <3>1. PICK u \in Threads : holds[u] = c /\ key[u] = request[c]
        BY <2>4, <2>6, NoneAssumption DEF Aligned, Awaited
      <3>2. request[c] = k
        BY <2>1, <2>2, <3>1, NoneAssumption DEF Inv, HeldInv
      <3> QED
        BY <1>3, <2>6, <3>2
    <2>7. CASE pc[t] = "await"
      BY <1>3, <2>1, <2>3, <2>5, <2>6, <2>7, UnreadBack
    <2>8. ASSUME Send(t) PROVE FALSE
      <3>1. inbox'[c] \o wire'[c] = Unread(c)
        BY <2>8 DEF Send, netVars, Unread
      <3>2. \A u \in Threads : holds[u] = c => ~Waiting(u)
        BY <2>2, <2>8, NoneAssumption DEF Send, Waiting, Inv, HeldInv
      <3>3. PICK i \in DOMAIN Unread(c) : f = Unread(c)[i]
        BY <2>3, <3>1 DEF ToSet
      <3> QED
        BY <1>3, <2>4, <3>2, <3>3 DEF Aligned, Awaited
    <2> QED
      BY <2>1, <2>7, <2>8
  <1> QED
    BY <1>1, <1>2, <1>3 DEF Servable, Unread

-----------------------------------------------------------------------------
\* Whether a change of a key will be noticed.

Told(k) == k \in lost \/ Announced(k)
Tracked(k) == \E c \in tracking[k] : Usable(c)

\* The value is that of the server, which will tell a usable connection when it
\* changes, or else it is known to be suspect.
Witness(k, v) == Told(k) \/ (v = version[k] /\ Tracked(k))

WitnessInv == \A k \in Keys, v \in 0..MaxWrites : Servable(k, v) => Witness(k, v)

\* What a step does to the notices about a key.
Kept(k) ==
    /\ Told(k) => Told(k)'
    /\ Tracked(k) => Told(k)' \/ (version'[k] = version[k] /\ Tracked(k)')

\* What a step does to the notices a connection holds or would get.
Watches(c, k) ==
    \/ k \in Watched(c) => k \in lost'
    \/ /\ Usable(c)'
       /\ c \in tracking[k] => c \in tracking'[k]
       /\ \A f \in ToSet(Unread(c)) : ~IsReply(f) /\ k \in KeysOf(f) =>
             \/ \E u \in Threads : inHand'[u] = f
             \/ f \in ToSet(inbox'[c] \o wire'[c])

LEMMA WatchesKeep ==
  ASSUME Inv, NEW k \in Keys, k \in lost => k \in lost',
         \A u \in Threads : inHand[u] # None /\ k \in KeysOf(inHand[u]) => inHand'[u] = inHand[u],
         version'[k] = version[k],
         \A c \in Conns : Usable(c) => Watches(c, k)
  PROVE  Kept(k)
  <1>1. ASSUME NEW c \in Conns, Usable(c), NEW f \in ToSet(Unread(c)), ~IsReply(f),
               k \in KeysOf(f)
        PROVE  Told(k)'
    <2>1. f \in Frames /\ f # None
      BY UnreadType, FramesOf, FrameIsSome DEF Inv
    <2>2. k \in Watched(c)
      BY <1>1 DEF Watched
    <2>3. CASE \E u \in Threads : inHand'[u] = f
      BY <1>1, <2>1, <2>3 DEF Told, Announced
    <2>4. CASE Usable(c)' /\ f \in ToSet(inbox'[c] \o wire'[c])
      BY <1>1, <2>4 DEF Told, Announced, Unread
    <2>5. CASE k \in lost'
      BY <2>5 DEF Told
    <2> QED
      BY <1>1, <2>2, <2>3, <2>4, <2>5 DEF Watches
  <1>2. Told(k) => Told(k)'
    <2>1. ASSUME NEW u \in Threads, inHand[u] # None, k \in KeysOf(inHand[u]) PROVE Told(k)'
      BY <2>1 DEF Told, Announced
    <2>2. k \in lost => Told(k)'
      BY DEF Told
    <2> QED
      BY <1>1, <2>1, <2>2 DEF Told, Announced
  <1>3. ASSUME NEW c \in tracking[k], Usable(c)
        PROVE  Told(k)' \/ (version'[k] = version[k] /\ Tracked(k)')
    <2>1. c \in Conns /\ k \in Watched(c)
      BY DEF Inv, TypeOK, Watched
    <2>2. CASE k \in lost'
      BY <2>2 DEF Told
    <2>3. CASE Usable(c)' /\ c \in tracking'[k]
      BY <2>3 DEF Tracked
    <2> QED
      BY <1>3, <2>1, <2>2, <2>3 DEF Watches
  <1> QED
    BY <1>2, <1>3 DEF Kept, Tracked

\* A key stops being suspect when its invalidation is applied, and only then.
LEMMA LostStays ==
  ASSUME Inv, [Next]_vars, NEW k \in Keys, k \in lost, ~Handled(k)
  PROVE  k \in lost'
  <1>1. CASE UNCHANGED lost
    BY <1>1
  <1>2. ASSUME NEW c, Poison(c) \/ Close(c) PROVE k \in lost'
    BY <1>2 DEF Poison, Close
  <1>3. ASSUME NEW t \in Threads, ReadStep(t) PROVE k \in lost'
    BY <1>1, <1>2, <1>3 DEF ReadStep, Handled, ParsePush, HandlePush, DrainEnds, DrainMeetsReply,
      DrainMeetsEOF, DrainTorn, ReadReply, AwaitInVain, AwaitFails, PipeReply, ghostVars
  <1>4. ASSUME NEW t \in Threads, CallStep(t) \/ LockStep(t) PROVE UNCHANGED lost
    BY <1>4 DEF CallStep, SweepPeer, SweepDone, Hit, Missed, TakeTicket, CheckUsable,
      RefuseBroken, Offer, LockStep, EnterDrain, Send, ghostVars
  <1>5. ASSUME NEW t \in Threads, ChoiceStep(t) PROVE k \in lost'
    BY <1>1, <1>2, <1>5 DEF ChoiceStep, Borrow, Open, Release, Call, PipeSend,
      ReplyWasError, DrainTimesOut, AwaitTimesOut, SendFails, AwaitFails, ghostVars
  <1>6. CASE Environment
    BY <1>1, <1>2, <1>6, ClearLeaves DEF Environment, Serve, Deliver, Split, Lose, DiscardIdle,
      Write, FlushAll, Change, ghostVars
  <1> QED
    BY <1>1, <1>3, <1>4, <1>5, <1>6 DEF Next, vars, ghostVars

LEMMA HandStays ==
  ASSUME Inv, [Next]_vars, NEW u \in Threads, inHand[u] # None, ~HandlePush(u)
  PROVE  inHand'[u] = inHand[u]
  <1>1. CASE UNCHANGED inHand
    BY <1>1
  <1>2. ASSUME NEW t \in Threads, t # u,
               ReadStep(t) \/ CallStep(t) \/ LockStep(t) \/ ChoiceStep(t)
        PROVE  inHand'[u] = inHand[u]
    BY <1>2, OthersStay DEF Inv
  <1>3. ASSUME ReadStep(u) PROVE UNCHANGED inHand
    BY <1>3 DEF ReadStep, ParsePush, DrainEnds, DrainMeetsReply, DrainMeetsEOF, DrainTorn,
      ReadReply, AwaitInVain, AwaitFails, PipeReply
  <1>4. ASSUME CallStep(u) \/ LockStep(u) PROVE UNCHANGED inHand
    BY <1>4 DEF CallStep, SweepPeer, SweepDone, Hit, Missed, TakeTicket, CheckUsable,
      RefuseBroken, Offer, LockStep, EnterDrain, Send
  <1>5. ASSUME ChoiceStep(u) PROVE UNCHANGED inHand
    BY <1>5 DEF ChoiceStep, Borrow, Open, Release, Close, Call, PipeSend, ReplyWasError,
      DrainTimesOut, AwaitTimesOut, SendFails, AwaitFails
  <1> QED
    BY <1>1, <1>2, <1>3, <1>4, <1>5, EnvironmentStays DEF Next, vars

\* A step that touches no stream, and poisons at most one connection.
LEMMA QuietWatches ==
  ASSUME NEW k \in Keys, NEW c \in Conns, Usable(c), UNCHANGED <<inbox, wire, tracking>>,
         status'[c] # "none", c \in poisoned' => Poison(c)
  PROVE  Watches(c, k)
  <1>1. CASE c \in poisoned'
    BY <1>1 DEF Watches, Poison
  <1>2. CASE c \notin poisoned'
    BY <1>2 DEF Watches, Usable, Unread
  <1> QED
    BY <1>1, <1>2

LEMMA TakeWatches ==
  ASSUME Inv, [Next]_vars, NEW t \in Threads, Takes(t), NEW k \in Keys, NEW c \in Conns,
         Usable(c)
  PROVE  Watches(c, k)
  <1>1. UNCHANGED <<tracking, status>> /\ wire' = wire
    BY DEF Takes, ParsePush, DrainMeetsReply, ReadReply, PipeReply, serverVars, connVars
  <1>2. c \in poisoned' => Poison(c)
    BY DEF Takes, ParsePush, DrainMeetsReply, Poison, ReadReply, PipeReply, connVars, Usable
  <1>3. CASE c \in poisoned'
    BY <1>2, <1>3 DEF Watches, Poison
  <1>4. CASE c \notin poisoned'
    <2>1. Usable(c)'
      BY <1>1, <1>4 DEF Usable
    <2>2. ASSUME NEW f \in ToSet(Unread(c)), ~IsReply(f)
          PROVE  (\E u \in Threads : inHand'[u] = f) \/ f \in ToSet(inbox'[c] \o wire'[c])
      <3>1. f \in ToSet(inbox[c]) \cup ToSet(wire[c])
        BY UnreadNow DEF Inv
      <3>2. \/ f \in ToSet(inbox'[c]) \cup ToSet(wire'[c])
            \/ c = Socket(t) /\ f = Head(inbox[Socket(t)])
        BY <1>1, <3>1, TakenFrame
      <3>3. ASSUME c = Socket(t), f = Head(inbox[Socket(t)]) PROVE inHand'[t] = f
        <4>1. ParsePush(t)
          BY <2>2, <3>3 DEF Takes, DrainMeetsReply, ReadReply, PipeReply
        <4> QED
          BY <3>3, <4>1 DEF ParsePush, Inv, TypeOK
      <3> QED
        BY <3>2, <3>3, UnreadNext
    <2> QED
      BY <1>1, <2>1, <2>2 DEF Watches
  <1> QED
    BY <1>3, <1>4

LEMMA CloseWatches ==
  ASSUME Inv, NEW d \in Conns, Close(d), NEW k \in Keys, NEW c \in Conns, Usable(c)
  PROVE  Watches(c, k)
  <1>1. CASE c = d
    BY <1>1 DEF Close, Watches
  <1>2. CASE c # d
    <2>1. /\ Usable(c)' /\ inbox'[c] = inbox[c] /\ wire'[c] = wire[c]
          /\ c \in tracking[k] => c \in tracking'[k]
      BY <1>2 DEF Close, Usable, Inv, TypeOK
    <2> QED
      BY <2>1 DEF Watches, Unread
  <1> QED
    BY <1>1, <1>2

LEMMA StreamWatches ==
  ASSUME Inv, [Next]_vars, NEW d \in Conns, Serve(d) \/ Deliver(d) \/ Split(d) \/ Lose(d),
         NEW k \in Keys, NEW c \in Conns, Usable(c)
  PROVE  Watches(c, k)
  <1> USE DEF Inv
  <1>1. CASE Serve(d)
    <2>1. /\ UNCHANGED <<status, poisoned, inbox>>
          /\ c \in tracking[k] => c \in tracking'[k]
      BY <1>1 DEF Serve, connVars, TypeOK
    <2>2. ToSet(wire[c]) \subseteq ToSet(wire'[c])
      BY <1>1, ServedFrame
    <2>3. ToSet(Unread(c)) \subseteq ToSet(inbox'[c] \o wire'[c])
      BY <2>1, <2>2, UnreadNow, UnreadNext
    <2> QED
      BY <2>1, <2>3 DEF Watches, Usable
  <1>2. CASE Deliver(d)
    <2>1. UNCHANGED <<status, poisoned, tracking>>
      BY <1>2 DEF Deliver, connVars, serverVars
    <2>2. ToSet(inbox[c]) \cup ToSet(wire[c]) \subseteq ToSet(inbox'[c]) \cup ToSet(wire'[c])
      BY <1>2, DeliveredFrame
    <2>3. ToSet(Unread(c)) \subseteq ToSet(inbox'[c] \o wire'[c])
      BY <2>2, UnreadNow, UnreadNext
    <2> QED
      BY <2>1, <2>3 DEF Watches, Usable
  <1>3. CASE Split(d)
    BY <1>3, QuietWatches DEF Split, Usable, connVars, serverVars
  <1>4. CASE Lose(d)
    <2>1. CASE c # d
      <3>1. /\ Usable(c)' /\ inbox'[c] = inbox[c] /\ wire'[c] = wire[c]
            /\ c \in tracking[k] => c \in tracking'[k]
        BY <1>4, <2>1 DEF Lose, Usable, TypeOK
      <3> QED
        BY <3>1 DEF Watches, Unread
    <2>2. CASE c = d
      <3>1. CASE c \in tracking[k] \/ \E g \in ToSet(wire[c]) : ~IsReply(g) /\ k \in KeysOf(g)
        <4>1. k \in lost'
          BY <1>4, <2>2, <3>1 DEF Lose
        <4> QED
          BY <4>1 DEF Watches
      <3>2. CASE /\ c \notin tracking[k]
                 /\ \A g \in ToSet(wire[c]) : ~IsReply(g) => k \notin KeysOf(g)
        <4>1. Usable(c)' /\ inbox'[c] = inbox[c]
          BY <1>4 DEF Lose, Usable, TypeOK
        <4>2. \A f \in ToSet(Unread(c)) : ~IsReply(f) /\ k \in KeysOf(f) =>
                 f \in ToSet(inbox'[c] \o wire'[c])
          BY <3>2, <4>1, UnreadNow, UnreadNext
        <4> QED
          BY <3>2, <4>1, <4>2 DEF Watches
      <3> QED
        BY <3>1, <3>2
    <2> QED
      BY <2>1, <2>2
  <1> QED
    BY <1>1, <1>2, <1>3, <1>4

\* What every step but a write or a flush does to a connection's notices.
LEMMA NextWatches ==
  ASSUME Inv, [Next]_vars, ~((\E j \in Keys : Write(j)) \/ FlushAll), NEW k \in Keys,
         NEW c \in Conns, Usable(c)
  PROVE  Watches(c, k)
  <1> USE DEF Inv
  <1>1. CASE UNCHANGED <<inbox, wire, tracking, status, poisoned>>
    BY <1>1, QuietWatches DEF Usable
  <1>2. ASSUME NEW d, Poison(d), UNCHANGED <<inbox, wire, tracking, status>>
        PROVE  Watches(c, k)
    <2>1. c \in poisoned' => Poison(c)
      BY <1>2 DEF Poison, Usable
    <2> QED
      BY <1>2, <2>1, QuietWatches DEF Usable
  <1>3. ASSUME NEW t \in Threads, ReadStep(t) PROVE Watches(c, k)
    BY <1>1, <1>2, <1>3, TakeWatches DEF ReadStep, Takes, HandlePush, DrainEnds, DrainMeetsEOF,
      DrainTorn, AwaitInVain, AwaitFails, serverVars, netVars, connVars
  <1>4. ASSUME NEW t \in Threads, CallStep(t) \/ LockStep(t) PROVE Watches(c, k)
    BY <1>1, <1>4 DEF CallStep, SweepPeer, SweepDone, Hit, Missed, TakeTicket, CheckUsable,
      RefuseBroken, Offer, LockStep, EnterDrain, Send, serverVars, netVars, connVars
  <1>5. ASSUME NEW t \in Threads, NEW d \in Conns, Open(t, d) PROVE Watches(c, k)
    <2>1. UNCHANGED <<inbox, wire, tracking, poisoned>> /\ status'[c] # "none"
      BY <1>5 DEF Open, Usable, serverVars, netVars, TypeOK
    <2> QED
      BY <2>1, QuietWatches DEF Usable
  <1>6. ASSUME NEW t \in Threads, Release(t) PROVE Watches(c, k)
    <2>1. holds[t] \in Conns
      BY <1>6 DEF Release, TypeOK
    <2> QED
      BY <1>1, <1>6, <2>1, CloseWatches DEF Release, serverVars, netVars, connVars
  <1>7. ASSUME NEW t \in Threads, ChoiceStep(t) PROVE Watches(c, k)
    BY <1>1, <1>2, <1>5, <1>6, <1>7 DEF ChoiceStep, Borrow, Call, PipeSend, ReplyWasError,
      DrainTimesOut, AwaitTimesOut, SendFails, AwaitFails, serverVars, netVars, connVars
  <1>8. CASE Environment
    BY <1>1, <1>8, StreamWatches, CloseWatches, ClearLeaves DEF Environment, DiscardIdle
  <1> QED
    BY <1>1, <1>3, <1>4, <1>7, <1>8 DEF Next, vars, serverVars, netVars, connVars

\* Nothing but its own invalidation makes the notice of a change disappear.
LEMMA NextKept ==
  ASSUME Inv, [Next]_vars, NEW k \in Keys, ~Handled(k)
  PROVE  Kept(k)
  <1> USE DEF Inv
  <1>1. k \in lost => k \in lost'
    BY LostStays
  <1>2. ASSUME NEW u \in Threads, inHand[u] # None, k \in KeysOf(inHand[u])
        PROVE  inHand'[u] = inHand[u]
    BY <1>2, HandStays DEF Handled
  <1>3. CASE (\E j \in Keys : Write(j)) \/ FlushAll
    <2>1. PICK ks \in SUBSET Keys, kind \in {"invalidate", "flush"}, told \in SUBSET Conns :
             /\ Change(ks, kind, told)
             /\ \A j \in ks : \A c \in tracking[j] : status[c] = "up" => c \in told
      BY <1>3, WriteChanges
    <2>2. PICK f \in Frames :
             /\ ~IsReply(f) /\ KeysOf(f) = ks /\ \A j \in ks : f.at[j] = version'[j]
             /\ TellsOf(f, told)
      BY <2>1, ChangedFrame
    <2>3. UNCHANGED <<inbox, status, poisoned>>
      BY <2>1 DEF Change, connVars
    <2>4. \A c \in Conns : /\ Usable(c)' = Usable(c)
                           /\ ToSet(Unread(c)) \subseteq ToSet(inbox'[c] \o wire'[c])
                           /\ c \in told => f \in ToSet(inbox'[c] \o wire'[c])
      BY <2>2, <2>3, UnreadNow, UnreadNext DEF TellsOf, Usable
    <2>5. Told(k) => Told(k)'
      BY <1>1, <1>2, <2>4 DEF Told, Announced, Unread
    <2>6. ASSUME NEW c \in tracking[k], Usable(c)
          PROVE  Told(k)' \/ (version'[k] = version[k] /\ Tracked(k)')
      <3>1. c \in Conns /\ status[c] = "up"
        BY DEF TypeOK, ClosedInv
      <3>2. CASE k \in ks
        <4>1. c \in told
          BY <2>1, <3>1, <3>2
        <4> QED
          BY <2>2, <2>4, <2>6, <3>1, <3>2, <4>1 DEF Told, Announced, Unread
      <3>3. CASE k \notin ks
        <4>1. version'[k] = version[k] /\ tracking'[k] = tracking[k]
          BY <2>1, <3>3 DEF Change
        <4> QED
          BY <2>4, <2>6, <3>1, <4>1 DEF Tracked
      <3> QED
        BY <3>2, <3>3
    <2> QED
      BY <2>5, <2>6 DEF Kept, Tracked
  <1>4. CASE ~((\E j \in Keys : Write(j)) \/ FlushAll)
    <2>1. version'[k] = version[k]
      <3>1. CASE UNCHANGED <<serverVars, netVars, status>>
        BY <3>1 DEF serverVars
      <3> QED
        BY <1>4, <3>1, StreamsStay, ClearLeaves
        DEF StreamStep, ParsePush, DrainMeetsReply, ReadReply,
          PipeReply, Send, Release, Close, Open, PipeSend, Environment, Serve, Deliver, Split,
          Lose, DiscardIdle, serverVars, vars, connVars
    <2> QED
      BY <1>1, <1>2, <1>4, <2>1, NextWatches, WatchesKeep
  <1> QED
    BY <1>3, <1>4
\* A reply leaves the server with the value the key has, and the server will say
\* when that changes.
LEMMA ServeWitness ==
  ASSUME Inv, NEW c \in Conns, Serve(c), NEW k \in Keys, request[c] = k
  PROVE  Witness(k, version[k])'
  <1>1. /\ version' = version /\ c \in tracking'[k] /\ status'[c] = "up" /\ poisoned' = poisoned
        /\ c \in poisoned => k \in lost'
    BY DEF Serve, connVars, Inv, TypeOK
  <1>2. CASE c \in poisoned
    BY <1>1, <1>2 DEF Witness, Told
  <1>3. CASE c \notin poisoned
    BY <1>1, <1>3 DEF Witness, Tracked, Usable
  <1> QED
    BY <1>2, <1>3

LEMMA NextWitness == ASSUME ServeInv, WitnessInv, [Next]_vars PROVE WitnessInv'
  <1> SUFFICES ASSUME NEW k \in Keys, NEW v \in 0..MaxWrites, Servable(k, v)'
               PROVE  Witness(k, v)'
    BY DEF WitnessInv
  <1>1. ~Handled(k)
    BY NextServable
  <1>2. Kept(k)
    BY <1>1, NextKept DEF ServeInv
  <1>3. CASE Servable(k, v)
    <2>1. Witness(k, v)
      BY <1>3 DEF WitnessInv
    <2> QED
      BY <1>2, <2>1 DEF Witness, Kept
  <1>4. ASSUME NEW c \in Conns, Serve(c), request[c] = k, v = version[k]
        PROVE  Witness(k, v)'
    <2>1. v = version'[k]
      BY <1>4 DEF Serve
    <2>2. Told(k)' \/ Tracked(k)'
      BY <1>4, ServeWitness DEF ServeInv, Witness
    <2> QED
      BY <2>1, <2>2 DEF Witness
  <1> QED
    BY <1>3, <1>4, NextServable

\* Nothing is cached and nobody reads at first.
LEMMA InitServable ==
  ASSUME Init
  PROVE  /\ TicketInv /\ IndexInv
         /\ \A k \in Keys : \A x : ~Servable(k, x)
  BY DEF Init, Cache!Init, TicketInv, IndexInv, Servable, Live

LEMMA InitServeInv == Init => ServeInv
  BY InitInv, InitServable DEF ServeInv

LEMMA NextServeInv == ServeInv /\ [Next]_vars => ServeInv'
  BY NextInv, NextTicket, NextIndex DEF ServeInv

LEMMA WitnessStale == ServeInv /\ WitnessInv => StaleEntriesAreAnnounced
  <1> SUFFICES ASSUME ServeInv, WitnessInv, NEW k \in StaleKeys
               PROVE  k \in lost \/ Announced(k)
    BY DEF StaleEntriesAreAnnounced
  <1>1. k \in Keys /\ entries[k] # Miss /\ entries[k] < version[k]
    BY DEF StaleKeys
  <1>2. entries[k] \in 0..MaxWrites /\ version[k] \in 0..MaxWrites
    BY <1>1 DEF ServeInv, Inv, TypeOK, Cache!TypeOK
  <1>3. Servable(k, entries[k])
    BY <1>1 DEF Servable
  <1>4. Witness(k, entries[k])
    BY <1>1, <1>2, <1>3 DEF WitnessInv
  <1>5. entries[k] # version[k]
    BY <1>1, <1>2
  <1> QED
    BY <1>4, <1>5 DEF Witness, Told

\* An entry that is older than the server's value is one whose invalidation is
\* still under way - unread on a usable connection or in a thread's hand - or one
\* whose key lost its tracking: _handle_push(), DropKeys and the generations that
\* offer() compares leave no other way for a stale value to stay.
THEOREM StaleAreAnnounced == Spec => []StaleEntriesAreAnnounced
  <1>1. Init => WitnessInv
    BY InitServable DEF WitnessInv
  <1>2. ServeInv /\ WitnessInv /\ [Next]_vars => ServeInv' /\ WitnessInv'
    BY NextServeInv, NextWitness
  <1> QED
    BY <1>1, <1>2, InitServeInv, WitnessStale, PTL DEF Spec
-----------------------------------------------------------------------------
\* How old a returned value may be.

Notice(f, k) == ~IsReply(f) /\ k \in KeysOf(f)

\* No value older than v may be returned for the key.
FreshAt(k, v) == \A x \in 0..MaxWrites : Servable(k, x) => x >= v

\* An invalidation of the key has begun to arrive on the connection, and is not
\* applied.
Carries(c, k) ==
    /\ Usable(c)
    /\ \/ \E f \in ToSet(inbox[c]) : Notice(f, k)
       \/ cut[c] /\ Notice(Head(wire[c]), k)
       \/ \E u \in Threads : /\ inHand[u] # None /\ k \in KeysOf(inHand[u])
                             /\ Socket(u) = c

\* The connections thread t has still to drain before its lookup.
Sweeping == {"sweep", "peer", "own1", "drain1"}
Ahead(t, c) == c \in todo[t] \/ c = peer[t] \/ (c = holds[t] /\ pc[t] \in Sweeping)

\* The versions heard of are those of the past.
PastInv ==
    /\ \A k \in Keys : announced[k] <= version[k]
    /\ \A t \in Threads : pc[t] # "out" => floor[t] <= announced[key[t]]
    /\ \A c \in Conns : \A f \in ToSet(Unread(c)) : \A k \in KeysOf(f) : f.at[k] <= version[k]

\* What the newest invalidation heard of forbids, some connection will undo.
NewsInv ==
    \A k \in Keys :
        k \in lost \/ FreshAt(k, announced[k]) \/ \E c \in Conns : Carries(c, k)

\* What a sweep has left behind, it has undone.
SweepInv ==
    \A t \in Threads : pc[t] \in Sweeping \cup {"lookup"} /\ swept[t] =>
        \/ key[t] \in lost \/ FreshAt(key[t], floor[t])
        \/ \E c \in Conns : Ahead(t, c) /\ Carries(c, key[t])

TodoInv == \A t \in Threads : todo[t] # {} => pc[t] \in {"sweep", "peer"}

\* The reply to a command is as new as what was heard of before the call.
AnswerInv ==
    \A t \in Threads :
        /\ pc[t] \in Answered => answer[t] >= floor[t]
        /\ pc[t] = "await" => \A f \in ToSet(Unread(holds[t])) :
                                 IsReply(f) => f.at[key[t]] >= floor[t]

FreshInv == ServeInv /\ PastInv /\ NewsInv /\ SweepInv /\ TodoInv /\ AnswerInv
\* Versions only grow.
LEMMA NextVersion ==
  ASSUME Inv, [Next]_vars
  PROVE  \A k \in Keys : version[k] \in Nat /\ version'[k] \in Nat /\ version'[k] >= version[k]
  <1> USE DEF Inv
  <1>1. \A k \in Keys : version[k] \in Nat
    BY DEF TypeOK
  <1>2. CASE UNCHANGED version
    BY <1>1, <1>2
  <1>3. ASSUME NEW ks \in SUBSET Keys, NEW kind \in {"invalidate", "flush"},
               NEW told \in SUBSET Conns, Change(ks, kind, told)
        PROVE  \A k \in Keys : version'[k] \in Nat /\ version'[k] >= version[k]
    BY <1>1, <1>3 DEF Change
  <1>4. CASE (\E k \in Keys : Write(k)) \/ FlushAll
    BY <1>1, <1>3, <1>4, WriteChanges
  <1>5. CASE ~((\E k \in Keys : Write(k)) \/ FlushAll)
    <2>1. CASE UNCHANGED <<serverVars, netVars, status>>
      BY <1>2, <2>1 DEF serverVars
    <2> QED
      BY <1>2, <1>5, <2>1, StreamsStay, ClearLeaves
      DEF StreamStep, ParsePush, DrainMeetsReply, ReadReply, PipeReply, Send, Release, Close,
        Open, PipeSend, Environment, Serve, Deliver, Split,
        Lose, DiscardIdle, serverVars, vars, connVars
  <1> QED
    BY <1>4, <1>5

\* What is fresh stays so.
LEMMA FreshStays ==
  ASSUME ServeInv, [Next]_vars, NEW k \in Keys, NEW v \in 0..MaxWrites, FreshAt(k, v),
         v <= version[k]
  PROVE  FreshAt(k, v)'
  <1>1. ASSUME NEW x \in 0..MaxWrites, Servable(k, x)' PROVE x >= v
    BY <1>1, NextServable DEF FreshAt
  <1> QED
    BY <1>1 DEF FreshAt

\* Nothing that was cached or asked for survives the invalidation of its key.
LEMMA HandledFresh ==
  ASSUME ServeInv, [Next]_vars, NEW k \in Keys, NEW v, Handled(k)
  PROVE  \A x \in 0..MaxWrites : ~Servable(k, x)'
  BY NextServable

\* Who has a push in hand does nothing but apply it.
LEMMA HandPlace ==
  ASSUME Inv, [Next]_vars, NEW u \in Threads, inHand[u] # None, ~HandlePush(u)
  PROVE  inHand'[u] = inHand[u] /\ Socket(u)' = Socket(u)
  <1> USE DEF Inv
  <1> DEFINE Still == pc'[u] = pc[u] /\ holds'[u] = holds[u] /\ peer'[u] = peer[u]
  <1>1. inHand'[u] = inHand[u]
    BY HandStays
  <1>2. Reading(u)
    BY DEF CallInv
  <1>3. ~ReadStep(u)
    BY DEF ReadStep, ParsePush, DrainEnds, DrainMeetsReply, DrainMeetsEOF, DrainTorn,
      ReadReply, AwaitInVain, AwaitFails, PipeReply
  <1>4. ~CallStep(u) /\ ~LockStep(u)
    BY <1>2 DEF Reading, Draining, CallStep, SweepPeer, SweepDone, Hit, Missed, TakeTicket,
      CheckUsable, RefuseBroken, Offer, LockStep, EnterDrain, Send
  <1>5. ~ChoiceStep(u)
    BY <1>2 DEF Reading, Draining, ChoiceStep, Borrow, Open, Release, Call, PipeSend,
      ReplyWasError, DrainTimesOut, AwaitTimesOut, SendFails, AwaitFails
  <1>6. Still
    <2>1. CASE \E t \in Threads : t # u /\ (ReadStep(t) \/ CallStep(t) \/ LockStep(t) \/ ChoiceStep(t))
      BY <2>1, OthersStay
    <2>2. CASE UNCHANGED vars \/ Environment
      BY <2>2, EnvironmentStays DEF vars, callVars
    <2> QED
      BY <1>3, <1>4, <1>5, <2>1, <2>2 DEF Next
  <1> QED
    BY <1>1, <1>6 DEF Socket

\* Without pipelines, one thread at a time reads a connection.
LEMMA OneReader ==
  ASSUME Inv, Pipeliners = {}, NEW u \in Threads, NEW t \in Threads, inHand[u] # None,
         Draining(t) \/ pc[t] \in {"await", "piped"}, Socket(t) = Socket(u)
  PROVE  t = u
  <1> USE DEF Inv
  <1>1. Draining(u) \/ pc[u] = "await"
    BY DEF CallInv, Reading
  <1>2. Draining(t) \/ pc[t] = "await"
    BY DEF CallInv
  <1> QED
    BY <1>1, <1>2 DEF LockInv
\* How a connection stops being usable.
Broken(c) ==
    \/ /\ Poison(c)
       /\ \/ ioLock[c] = None
          \/ \E t \in Threads : /\ Draining(t) \/ pc[t] \in {"await", "piped"}
                                /\ inHand[t] = None /\ Socket(t) = c
    \/ status[c] = "dead" /\ inbox[c] = <<>> /\ ioLock[c] = None

LEMMA NextBroken ==
  ASSUME Inv, [Next]_vars, Pipeliners = {}, NEW c \in Conns, Usable(c), ~Usable(c)'
  PROVE  Broken(c)
  <1> USE DEF Inv
  <1>1. ~(UNCHANGED <<status, poisoned>>)
    BY DEF Usable
  <1>2. ASSUME NEW t \in Threads, Poison(Socket(t)), UNCHANGED status, inHand[t] = None,
               \/ Draining(t) \/ pc[t] \in {"await", "piped"}
               \/ ioLock[Socket(t)] = None
        PROVE  Broken(c)
    <2>1. c \in poisoned' \ poisoned
      BY <1>2 DEF Usable
    <2>2. c = Socket(t)
      BY <1>2, <2>1 DEF Poison
    <2> QED
      BY <1>2, <2>2 DEF Broken
  <1>3. ASSUME NEW d \in Conns, Close(d) PROVE c = d
    BY <1>3 DEF Close, Usable, TypeOK
  <1>4. ASSUME NEW t \in Threads, ReadStep(t) PROVE Broken(c)
    BY <1>1, <1>2, <1>4 DEF ReadStep, ParsePush, HandlePush, DrainEnds, DrainMeetsReply,
      DrainMeetsEOF, DrainTorn, ReadReply, AwaitInVain, AwaitFails, PipeReply, connVars
  <1>5. ASSUME NEW t \in Threads PROVE ~CallStep(t) /\ ~LockStep(t)
    BY <1>1 DEF CallStep, SweepPeer, SweepDone, Hit, Missed, TakeTicket, CheckUsable,
      RefuseBroken, Offer, LockStep, EnterDrain, Send, connVars
  <1>6. ASSUME NEW t \in Threads, NEW d \in Conns PROVE ~Open(t, d)
    <2>1. ASSUME Open(t, d) PROVE Usable(c)'
      BY <2>1 DEF Open, Usable, TypeOK
    <2> QED
      BY <2>1
  <1>7. ASSUME NEW t \in Threads PROVE ~Release(t)
    <2>1. ASSUME Release(t) PROVE holds[t] \in Conns /\ ~Usable(holds[t]) /\ Close(holds[t])
      BY <1>1, <2>1 DEF Release, connVars, TypeOK
    <2> QED
      BY <1>3, <2>1
  <1>8. ASSUME NEW t \in Threads, ChoiceStep(t) PROVE Broken(c)
    <2>1. CASE SendFails(t)
      <3>1. inHand[t] = None
        BY <2>1 DEF SendFails, CallInv, Reading, Draining
      <3> QED
        BY <1>2, <2>1, <3>1 DEF SendFails
    <2> QED
      BY <1>1, <1>2, <1>6, <1>7, <1>8, <2>1 DEF ChoiceStep, Borrow, Call, PipeSend,
        ReplyWasError, DrainTimesOut, AwaitTimesOut, AwaitFails, connVars
  <1>9. ASSUME NEW d \in Conns, DiscardIdle(d) PROVE Broken(c)
    BY <1>3, <1>9 DEF DiscardIdle, Broken, Usable
  <1>10. ASSUME NEW d \in Conns PROVE ~Lose(d)
    <2>1. ASSUME Lose(d) PROVE Usable(c)'
      BY <2>1 DEF Lose, Usable, TypeOK
    <2> QED
      BY <2>1
  <1>11. CASE Environment
    BY <1>1, <1>9, <1>10, <1>11, ClearLeaves DEF Environment, Serve, Deliver, Split, Write,
      FlushAll, Change, connVars
  <1> QED
    BY <1>1, <1>4, <1>5, <1>8, <1>11 DEF Next, vars, connVars

\* What has arrived of an invalidation stays where it is read from.
LEMMA ArrivedStays ==
  ASSUME Inv, [Next]_vars, NEW c \in Conns, Usable(c)', NEW k \in Keys,
         NEW f \in ToSet(inbox[c]), Notice(f, k)
  PROVE  \/ f \in ToSet(inbox'[c])
         \/ \E t \in Threads : ParsePush(t) /\ Socket(t) = c /\ f = Head(inbox[c])
  <1> USE DEF Inv
  <1> DEFINE Stays == f \in ToSet(inbox'[c])
  <1>1. ASSUME inbox'[c] = inbox[c] PROVE Stays
    BY <1>1
  <1>2. ASSUME NEW t \in Threads, Takes(t), ~Stays
        PROVE  ParsePush(t) /\ Socket(t) = c /\ f = Head(inbox[c])
    <2>1. Socket(t) = c /\ f = Head(inbox[c])
      BY <1>2, TakenFrame
    <2> QED
      BY <1>2, <2>1 DEF Takes, DrainMeetsReply, ReadReply, PipeReply, Notice
  <1>3. ASSUME NEW d \in Conns, Close(d) PROVE Stays
    BY <1>1, <1>3 DEF Close, Usable, TypeOK
  <1>4. ASSUME NEW t \in Threads, Release(t) PROVE Stays
    <2>1. holds[t] \in Conns
      BY <1>4 DEF Release, TypeOK
    <2> QED
      BY <1>1, <1>3, <1>4, <2>1 DEF Release, netVars
  <1>5. ASSUME NEW d \in Conns, Deliver(d) PROVE Stays
    <2>1. ToSet(inbox[c]) \subseteq ToSet(inbox'[c])
      BY <1>5, DeliveredFrame
    <2> QED
      BY <2>1
  <1>6. CASE ~(\E t \in Threads : Takes(t))
    <2>1. ASSUME Environment PROVE Stays
      BY <1>1, <1>3, <1>5, <2>1, ClearLeaves DEF Environment, Serve, Split, Lose, DiscardIdle,
        Write, FlushAll, Change
    <2>2. ASSUME UNCHANGED <<serverVars, netVars, status>> PROVE Stays
      BY <1>1, <2>2 DEF netVars
    <2>3. ASSUME NEW t \in Threads, \/ Send(t) \/ \E d \in Conns : Open(t, d)
                                    \/ \E j \in Keys : PipeSend(t, j)
          PROVE  Stays
      BY <1>1, <2>3 DEF Send, Open, PipeSend, netVars
    <2> QED
      BY <1>4, <1>6, <2>1, <2>2, <2>3, StreamsStay DEF StreamStep, Takes, vars, connVars
  <1> QED
    BY <1>2, <1>6

\* The first part of an invalidation stays, or is completed, or is lost with its
\* connection.
LEMMA CutStays ==
  ASSUME Inv, [Next]_vars, NEW c \in Conns, Usable(c)', NEW k \in Keys, cut[c],
         Notice(Head(wire[c]), k)
  PROVE  \/ cut'[c] /\ Head(wire'[c]) = Head(wire[c])
         \/ Head(wire[c]) \in ToSet(inbox'[c])
         \/ k \in lost'
  <1> USE DEF Inv
  <1> DEFINE Stays == cut'[c] /\ Head(wire'[c]) = Head(wire[c])
             Known == Stays \/ Head(wire[c]) \in ToSet(inbox'[c]) \/ k \in lost'
  <1>1. wire[c] # <<>>
    BY DEF ClosedInv
  <1>2. ASSUME cut'[c] = cut[c], wire'[c] = wire[c] PROVE Known
    BY <1>2
  <1>3. ASSUME NEW t \in Threads, Takes(t) PROVE Known
    BY <1>2, <1>3, TakenFrame
  <1>4. ASSUME NEW d \in Conns, Close(d) PROVE Known
    BY <1>2, <1>4 DEF Close, Usable, TypeOK
  <1>5. ASSUME NEW t \in Threads, Release(t) PROVE Known
    <2>1. holds[t] \in Conns
      BY <1>5 DEF Release, TypeOK
    <2> QED
      BY <1>2, <1>4, <1>5, <2>1 DEF Release, netVars
  <1>6. ASSUME NEW d \in Conns, Serve(d) PROVE Known
    <2>1. UNCHANGED cut
      BY <1>6 DEF Serve
    <2>2. Head(wire'[c]) = Head(wire[c])
      BY <1>1, <1>6, ServedFrame
    <2> QED
      BY <2>1, <2>2
  <1>7. ASSUME NEW d \in Conns, Deliver(d) PROVE Known
    <2>1. CASE c = d
      BY <1>7, <2>1, DeliveredFrame
    <2>2. CASE c # d
      <3>1. cut'[c] = cut[c] /\ wire'[c] = wire[c]
        BY <1>7, <2>2 DEF Deliver, TypeOK
      <3> QED
        BY <1>2, <3>1
    <2> QED
      BY <2>1, <2>2
  <1>8. ASSUME NEW d \in Conns, Split(d) PROVE Known
    BY <1>8 DEF Split, TypeOK
  <1>9. ASSUME NEW d \in Conns, Lose(d) PROVE Known
    <2>1. CASE c = d
      <3>1. PICK w \in Seq(Frames) : w = wire[c]
        BY UnreadType
      <3>2. Head(w) \in ToSet(w)
        BY <1>1, <3>1, SetOfTail
      <3>3. k \in lost'
        BY <1>9, <2>1, <3>1, <3>2 DEF Lose, Notice
      <3> QED
        BY <3>3
    <2>2. CASE c # d
      <3>1. cut'[c] = cut[c] /\ wire'[c] = wire[c]
        BY <1>9, <2>2 DEF Lose, TypeOK
      <3> QED
        BY <1>2, <3>1
    <2> QED
      BY <2>1, <2>2
  <1>10. ASSUME (\E j \in Keys : Write(j)) \/ FlushAll PROVE Known
    <2>1. PICK ks \in SUBSET Keys, kind \in {"invalidate", "flush"}, told \in SUBSET Conns :
             Change(ks, kind, told)
      BY <1>10, WriteChanges
    <2>2. PICK g \in Frames : TellsOf(g, told)
      BY <2>1, ChangedFrame
    <2> QED
      BY <1>1, <2>1, <2>2 DEF TellsOf, Change
  <1>11. ASSUME Environment PROVE Known
    BY <1>2, <1>4, <1>6, <1>7, <1>8, <1>9, <1>10, <1>11, ClearLeaves
    DEF Environment, DiscardIdle
  <1>12. ASSUME UNCHANGED <<serverVars, netVars, status>> PROVE Known
    BY <1>2, <1>12 DEF netVars
  <1>13. ASSUME NEW t \in Threads, \/ Send(t) \/ \E d \in Conns : Open(t, d)
                                   \/ \E j \in Keys : PipeSend(t, j)
         PROVE  Known
    BY <1>2, <1>13 DEF Send, Open, PipeSend, netVars
  <1> QED
    BY <1>3, <1>5, <1>11, <1>12, <1>13, StreamsStay DEF StreamStep, Takes, vars, connVars
\* An invalidation that has begun to arrive keeps arriving until it is applied,
\* or its key is known to have lost its tracking.
LEMMA NextCarries ==
  ASSUME Inv, [Next]_vars, Pipeliners = {}, NEW c \in Conns, NEW k \in Keys, Carries(c, k),
         ~Handled(k)
  PROVE  k \in lost' \/ Carries(c, k)'
  <1> USE DEF Inv
  <1>1. Usable(c)
    BY DEF Carries
  <1>2. \/ \E f \in ToSet(inbox[c]) : Notice(f, k)
        \/ cut[c] /\ wire[c] # <<>> /\ Notice(Head(wire[c]), k)
        \/ \E u \in Threads : inHand[u] # None /\ k \in KeysOf(inHand[u]) /\ Socket(u) = c
    BY DEF Carries, ClosedInv
  <1>3. ASSUME ioLock[c] = None PROVE \A u \in Threads : inHand[u] # None => Socket(u) # c
    BY <1>3, NoneAssumption DEF CallInv, LockInv, Reading
  <1>4. ASSUME Poison(c),
               \/ ioLock[c] = None
               \/ \E t \in Threads : /\ Draining(t) \/ pc[t] \in {"await", "piped"}
                                     /\ inHand[t] = None /\ Socket(t) = c
        PROVE  k \in lost'
    <2>1. \A u \in Threads : inHand[u] # None => Socket(u) # c
      BY <1>3, <1>4, OneReader
    <2>2. ASSUME NEW f \in ToSet(Unread(c)), Notice(f, k) PROVE k \in lost'
      BY <1>4, <2>2 DEF Poison, Watched, Notice
    <2>3. ASSUME wire[c] # <<>> PROVE Head(wire[c]) \in ToSet(Unread(c))
      <3>1. PICK w \in Seq(Frames) : w = wire[c]
        BY UnreadType
      <3>2. Head(w) \in ToSet(w)
        BY <2>3, <3>1, SetOfTail
      <3> QED
        BY <3>1, <3>2, UnreadNow
    <2>4. \A f \in ToSet(inbox[c]) : f \in ToSet(Unread(c))
      BY UnreadNow
    <2> QED
      BY <1>2, <2>1, <2>2, <2>3, <2>4
  <1>5. ASSUME status[c] = "dead", inbox[c] = <<>>, ioLock[c] = None PROVE FALSE
    <2>1. ToSet(inbox[c]) = {}
      BY <1>5 DEF ToSet
    <2>2. ~cut[c]
      BY <1>5 DEF ClosedInv
    <2>3. \A u \in Threads : inHand[u] # None => Socket(u) # c
      BY <1>3, <1>5
    <2> QED
      BY <1>2, <2>1, <2>2, <2>3
  <1>6. CASE ~Usable(c)'
    BY <1>1, <1>4, <1>5, <1>6, NextBroken DEF Broken
  <1>7. ASSUME Usable(c)', NEW f \in ToSet(inbox[c]), Notice(f, k) PROVE Carries(c, k)'
    <2>1. CASE f \in ToSet(inbox'[c])
      BY <1>7, <2>1 DEF Carries, Notice
    <2>2. ASSUME NEW t \in Threads, ParsePush(t), Socket(t) = c, f = Head(inbox[c])
          PROVE  Carries(c, k)'
      <3>1. inHand'[t] = f /\ Socket(t)' = c
        BY <2>2 DEF ParsePush, Socket, callVars, TypeOK
      <3>2. f # None
        <4>1. PICK w \in Seq(Frames) : w = inbox[c]
          BY UnreadType
        <4> QED
          BY <1>7, <4>1, FramesOf, FrameIsSome
      <3> QED
        BY <1>7, <3>1, <3>2 DEF Carries, Notice
    <2> QED
      BY <1>7, <2>1, <2>2, ArrivedStays
  <1>8. ASSUME Usable(c)', cut[c], Notice(Head(wire[c]), k) PROVE k \in lost' \/ Carries(c, k)'
    BY <1>8, CutStays DEF Carries, Notice
  <1>9. ASSUME Usable(c)', NEW u \in Threads, inHand[u] # None, k \in KeysOf(inHand[u]),
               Socket(u) = c
        PROVE  Carries(c, k)'
    <2>1. inHand'[u] = inHand[u] /\ Socket(u)' = c
      BY <1>9, HandPlace DEF Handled
    <2> QED
      BY <1>9, <2>1 DEF Carries
  <1> QED
    BY <1>2, <1>6, <1>7, <1>8, <1>9

\* What is announced has begun to arrive.
LEMMA NextAnnouncement ==
  ASSUME Inv, [Next]_vars, NEW k \in Keys
  PROVE  \/ announced'[k] = announced[k]
         \/ /\ announced'[k] > announced[k]
            /\ \E c \in Conns : /\ Carries(c, k)'
                                /\ \E f \in ToSet(Unread(c)) :
                                      k \in KeysOf(f) /\ announced'[k] = f.at[k]
  <1> USE DEF Inv
  <1>1. ASSUME NEW c \in Conns, Deliver(c) \/ Split(c), announced'[k] # announced[k]
        PROVE  /\ announced'[k] > announced[k] /\ Carries(c, k)'
               /\ \E f \in ToSet(Unread(c)) : k \in KeysOf(f) /\ announced'[k] = f.at[k]
    <2>1. PICK w \in Seq(Frames) : w = wire[c]
      BY UnreadType
    <2> DEFINE f == Head(w)
    <2>2. wire[c] # <<>> /\ Announce(c)
      BY <1>1 DEF Deliver, Split
    <2>3. f \in ToSet(w)
      BY <2>1, <2>2, SetOfTail
    <2>4. f \in ToSet(Unread(c))
      BY <2>1, <2>3, UnreadNow
    <2>5. /\ Notice(f, k) /\ c \notin poisoned
          /\ announced'[k] = f.at[k] /\ f.at[k] > announced[k]
      BY <1>1, <2>1, <2>2 DEF Announce, Notice, TypeOK
    <2>6. Usable(c)'
      <3>1. status[c] = "up"
        BY <2>2 DEF ClosedInv
      <3> QED
        BY <1>1, <2>5, <3>1 DEF Deliver, Split, Usable, connVars
    <2>7. Deliver(c) => f \in ToSet(inbox'[c])
      BY <2>1, DeliveredFrame
    <2>8. Split(c) => cut'[c] /\ Head(wire'[c]) = f
      BY <2>1 DEF Split, TypeOK
    <2>9. Carries(c, k)'
      BY <1>1, <2>5, <2>6, <2>7, <2>8 DEF Carries, Notice
    <2> QED
      BY <2>4, <2>5, <2>9 DEF Notice
  <1>2. CASE UNCHANGED announced
    BY <1>2
  <1>3. ASSUME NEW t \in Threads, ReadStep(t) \/ CallStep(t) PROVE UNCHANGED announced
    BY <1>3 DEF ReadStep, ParsePush, HandlePush, DrainEnds, DrainMeetsReply, DrainMeetsEOF,
      DrainTorn, ReadReply, AwaitInVain, AwaitFails, PipeReply, CallStep, SweepPeer, SweepDone,
      Hit, Missed, TakeTicket, CheckUsable, RefuseBroken, Offer, ghostVars
  <1>4. ASSUME NEW t \in Threads, LockStep(t) \/ ChoiceStep(t) PROVE UNCHANGED announced
    BY <1>4 DEF LockStep, EnterDrain, Send, ChoiceStep, Borrow, Open, Release, Close, Call,
      PipeSend, ReplyWasError, DrainTimesOut, AwaitTimesOut, SendFails, AwaitFails, ghostVars
  <1>5. ASSUME Environment PROVE UNCHANGED announced \/ \E c \in Conns : Deliver(c) \/ Split(c)
    BY <1>5, ClearLeaves
    DEF Environment, Serve, Lose, DiscardIdle, Close, Write, FlushAll, Change, ghostVars
  <1>6. CASE \E c \in Conns : Deliver(c) \/ Split(c)
    BY <1>1, <1>6
  <1> QED
    BY <1>2, <1>3, <1>4, <1>5, <1>6 DEF Next, vars, ghostVars
\* A thread in a call goes on with it, or has just begun it.
Began(t) == \E k \in Keys : Call(t, k) \/ PipeSend(t, k)

LEMMA CallBack ==
  ASSUME Inv, [Next]_vars, NEW t \in Threads, pc'[t] # "out", ~Began(t)
  PROVE  pc[t] # "out" /\ key'[t] = key[t] /\ floor'[t] = floor[t] /\ holds'[t] = holds[t]
  <1> USE DEF Inv
  <1> DEFINE Same == pc[t] # "out" /\ key'[t] = key[t] /\ floor'[t] = floor[t] /\ holds'[t] = holds[t]
  <1>1. ~Leave(t)
    BY DEF Leave, TypeOK
  <1>2. ASSUME pc[t] # "out", key' = key, floor' = floor, holds' = holds PROVE Same
    BY <1>2
  <1>3. ASSUME UNCHANGED <<pc, callVars, holds>> PROVE Same
    BY <1>3 DEF callVars
  <1>4. ASSUME DrainFails(t) \/ DrainOver(t), Draining(t), UNCHANGED holds PROVE Same
    BY <1>1, <1>2, <1>4 DEF DrainFails, DrainOver, Draining
  <1>5. ASSUME ReadStep(t) PROVE Same
    BY <1>1, <1>2, <1>3, <1>4, <1>5
    DEF ReadStep, ParsePush, HandlePush, DrainEnds, DrainMeetsReply,
      DrainMeetsEOF, DrainTorn, ReadReply, AwaitInVain, AwaitFails, PipeReply
  <1>6. ASSUME CallStep(t) \/ LockStep(t) PROVE Same
    BY <1>1, <1>2, <1>6 DEF CallStep, SweepPeer, SweepDone, Hit, Missed, TakeTicket, CheckUsable,
      RefuseBroken, Offer, LockStep, EnterDrain, Send, callVars
  <1>7. ASSUME ChoiceStep(t) PROVE Same
    <2>1. \A c \in Conns : ~Borrow(t, c) /\ ~Open(t, c)
      BY DEF Borrow, Open
    <2>2. ~Release(t)
      BY DEF Release, Close
    <2> QED
      BY <1>1, <1>4, <1>7, <2>1, <2>2 DEF ChoiceStep, Began, ReplyWasError, DrainTimesOut,
        AwaitTimesOut, SendFails, AwaitFails
  <1>8. CASE \E u \in Threads : u # t /\ (ReadStep(u) \/ CallStep(u) \/ LockStep(u) \/ ChoiceStep(u))
    BY <1>8, OthersStay
  <1>9. CASE UNCHANGED vars \/ Environment
    BY <1>3, <1>9, EnvironmentStays DEF vars
  <1> QED
    BY <1>5, <1>6, <1>7, <1>8, <1>9 DEF Next

LEMMA NextPast ==
  ASSUME Inv, PastInv, Pipeliners = {}, [Next]_vars PROVE PastInv'
  <1> USE DEF Inv
  <1>1. \A k \in Keys : /\ version[k] \in Nat /\ version'[k] \in Nat /\ version'[k] >= version[k]
    BY NextVersion
  <1>2. announced \in [Keys -> 0..MaxWrites] /\ announced' \in [Keys -> 0..MaxWrites]
    BY NextAnnounced DEF TypeOK
  <1>3. ASSUME NEW k \in Keys
        PROVE  announced'[k] >= announced[k] /\ announced'[k] <= version'[k]
    <2>1. announced[k] <= version[k] /\ announced[k] \in Nat
      BY <1>2 DEF PastInv
    <2>2. CASE announced'[k] = announced[k]
      BY <1>1, <2>1, <2>2
    <2>3. ASSUME announced'[k] > announced[k], NEW c \in Conns, NEW f \in ToSet(Unread(c)),
                 k \in KeysOf(f), announced'[k] = f.at[k]
          PROVE  announced'[k] >= announced[k] /\ announced'[k] <= version'[k]
      <3>1. announced'[k] <= version[k]
        BY <2>3 DEF PastInv
      <3> QED
        BY <1>1, <1>2, <2>3, <3>1
    <2> QED
      BY <2>2, <2>3, NextAnnouncement
  <1>4. ASSUME NEW t \in Threads, pc'[t] # "out" PROVE floor'[t] <= announced'[key'[t]]
    <2>1. ASSUME NEW k \in Keys, Call(t, k) PROVE floor'[t] <= announced'[key'[t]]
      BY <1>2, <2>1 DEF Call, TypeOK, ghostVars
    <2>2. \A k \in Keys : ~PipeSend(t, k)
      BY DEF PipeSend
    <2>3. ASSUME ~Began(t) PROVE floor'[t] <= announced'[key'[t]]
      <3>1. pc[t] # "out" /\ key'[t] = key[t] /\ floor'[t] = floor[t]
        BY <1>4, <2>3, CallBack
      <3>2. key[t] \in Keys /\ floor[t] \in 0..MaxWrites
        BY <3>1 DEF CallInv, TypeOK
      <3>3. floor[t] <= announced[key[t]]
        BY <3>1 DEF PastInv
      <3> QED
        BY <1>2, <1>3, <3>1, <3>2, <3>3
    <2> QED
      BY <2>1, <2>2, <2>3 DEF Began
  <1>5. ASSUME NEW c \in Conns, NEW f \in ToSet(inbox'[c] \o wire'[c]), NEW k \in KeysOf(f)
        PROVE  f.at[k] <= version'[k]
    <2>1. ASSUME f \in ToSet(Unread(c)) PROVE f.at[k] <= version'[k]
      <3>1. f \in Frames
        BY <2>1, UnreadType, FramesOf
      <3>2. k \in Keys /\ f.at[k] \in 0..MaxWrites
        BY <3>1, FrameParts
      <3>3. f.at[k] <= version[k]
        BY <2>1 DEF PastInv
      <3> QED
        BY <1>1, <3>2, <3>3
    <2>2. ASSUME request[c] \in Keys, KeysOf(f) = {request[c]}, f.at[request[c]] = version[request[c]]
          PROVE  f.at[k] <= version'[k]
      BY <1>1, <2>2
    <2>3. ASSUME k \in Keys, f.at[k] = version'[k] PROVE f.at[k] <= version'[k]
      BY <1>1, <2>3
    <2> QED
      BY <2>1, <2>2, <2>3, UnreadBack
  <1> QED
    BY <1>3, <1>4, <1>5 DEF PastInv, Unread

\* The reply to a command is that of the server when it answered.
LEMMA NextAnswer ==
  ASSUME Inv, PastInv, AnswerInv, [Next]_vars PROVE AnswerInv'
  <1> USE DEF Inv
  <1> SUFFICES ASSUME NEW t \in Threads, pc'[t] \in Answered \cup {"await"}
               PROVE  /\ pc'[t] \in Answered => answer'[t] >= floor'[t]
                      /\ pc'[t] = "await" =>
                            \A f \in ToSet(inbox'[holds'[t]] \o wire'[holds'[t]]) :
                               IsReply(f) => f.at[key'[t]] >= floor'[t]
    BY DEF AnswerInv, Unread
  <1>1. /\ key'[t] = key[t] /\ holds'[t] = holds[t] /\ floor'[t] = floor[t]
        /\ key[t] \in Keys /\ holds[t] \in Conns
    BY AnswerStep
  <1>2. ASSUME pc[t] \in Answered, answer'[t] = answer[t] PROVE answer'[t] >= floor'[t]
    BY <1>1, <1>2 DEF AnswerInv
  <1>3. ASSUME ReadReply(t) PROVE answer'[t] >= floor'[t]
    <2>1. /\ pc[t] = "await" /\ inbox[Socket(t)] # <<>> /\ IsReply(Head(inbox[Socket(t)]))
          /\ answer'[t] = Head(inbox[Socket(t)]).at[key[t]]
      BY <1>3 DEF ReadReply, TypeOK
    <2>2. Socket(t) = holds[t]
      BY <2>1 DEF Socket, CallInv
    <2>3. Head(inbox[holds[t]]) \in ToSet(inbox[holds[t]])
      BY <1>3, <2>2, TakenFrame DEF Takes
    <2>4. Head(inbox[holds[t]]) \in ToSet(Unread(holds[t]))
      BY <1>1, <2>3, UnreadNow
    <2> QED
      BY <1>1, <2>1, <2>2, <2>4 DEF AnswerInv
  <1>4. PICK c \in Conns : c = holds[t]
    BY <1>1
  <1>5. ASSUME pc[t] = "await" \/ Send(t), NEW f \in ToSet(inbox'[c] \o wire'[c]), IsReply(f)
        PROVE  f.at[key[t]] >= floor[t]
    <2>1. Aligned(c, Unread(c))
      BY <1>4, <1>5 DEF AlignInv, Quiet, Send, Waiting
    <2>2. ASSUME pc[t] = "await", f \in ToSet(Unread(c)) PROVE f.at[key[t]] >= floor[t]
      BY <1>4, <1>5, <2>2 DEF AnswerInv
    <2>3. ASSUME request[c] \in Keys, f.at[request[c]] = version[request[c]]
          PROVE  f.at[key[t]] >= floor[t]
      <3>1. PICK u \in Threads : holds[u] = c /\ key[u] = request[c]
        BY <2>1, <2>3, NoneAssumption DEF Aligned, Awaited
      <3>2. request[c] = key[t]
        BY <1>4, <3>1, NoneAssumption DEF HeldInv
      <3>3. floor[t] <= announced[key[t]] /\ announced[key[t]] <= version[key[t]]
        BY <1>1, <1>5 DEF PastInv, Send
      <3>4. /\ floor[t] \in Nat /\ announced[key[t]] \in Nat /\ version[key[t]] \in Nat
        BY <1>1 DEF TypeOK
      <3> QED
        BY <2>3, <3>2, <3>3, <3>4
    <2>4. ASSUME Send(t) PROVE FALSE
      <3>1. inbox'[c] \o wire'[c] = Unread(c)
        BY <2>4 DEF Send, netVars, Unread
      <3>2. \A u \in Threads : holds[u] = c => ~Waiting(u)
        BY <1>4, <2>4, NoneAssumption DEF Send, Waiting, HeldInv
      <3>3. PICK i \in DOMAIN Unread(c) : f = Unread(c)[i]
        BY <1>5, <3>1 DEF ToSet
      <3> QED
        BY <1>5, <2>1, <3>2, <3>3 DEF Aligned, Awaited
    <2> QED
      BY <1>5, <2>2, <2>3, <2>4, UnreadBack
  <1>6. pc'[t] \in Answered => answer'[t] >= floor'[t]
    <2>1. ~(pc'[t] \in Answered /\ pc'[t] = "await")
      BY DEF Answered
    <2>2. Send(t) => pc'[t] = "await"
      BY DEF Send, TypeOK
    <2> QED
      BY <1>2, <1>3, <2>1, <2>2, AnswerStep
  <1>7. pc'[t] = "await" => pc[t] = "await" \/ Send(t)
    <2>1. ~(pc'[t] \in Answered /\ pc'[t] = "await")
      BY DEF Answered
    <2>2. ReadReply(t) => pc'[t] # "await"
      BY DEF ReadReply, TypeOK
    <2> QED
      BY <2>1, <2>2, AnswerStep
  <1> QED
    BY <1>1, <1>4, <1>5, <1>6, <1>7
LEMMA NextTodo == ASSUME Inv, TodoInv, [Next]_vars PROVE TodoInv'
  <1> USE DEF Inv
  <1> SUFFICES ASSUME NEW t \in Threads PROVE todo'[t] # {} => pc'[t] \in {"sweep", "peer"}
    BY DEF TodoInv
  <1> DEFINE Known == todo'[t] # {} => pc'[t] \in {"sweep", "peer"}
  <1>1. ASSUME pc'[t] = pc[t], todo'[t] = todo[t] PROVE Known
    BY <1>1 DEF TodoInv
  <1>2. ASSUME UNCHANGED <<pc, callVars>> PROVE Known
    BY <1>1, <1>2 DEF callVars
  <1>3. ASSUME Leave(t) PROVE Known
    BY <1>3 DEF Leave, TypeOK
  <1>4. ASSUME pc[t] \notin {"sweep", "peer"}, UNCHANGED todo PROVE Known
    BY <1>4 DEF TodoInv
  <1>5. ASSUME DrainOver(t), Draining(t) PROVE Known
    <2>1. todo' = todo /\ pc'[t] = AfterDrain(t)
      BY <1>5 DEF DrainOver, TypeOK
    <2> QED
      BY <1>4, <1>5, <2>1 DEF AfterDrain, Draining
  <1>6. ASSUME ReadStep(t) PROVE Known
    <2>1. ReadReply(t) => pc[t] \notin {"sweep", "peer"} /\ UNCHANGED todo
      BY DEF ReadReply
    <2> QED
      BY <1>2, <1>3, <1>4, <1>5, <1>6, <2>1 DEF ReadStep, ParsePush, HandlePush, DrainEnds,
        DrainMeetsReply, DrainMeetsEOF, DrainTorn, DrainFails, AwaitInVain, AwaitFails, PipeReply
  <1>7. ASSUME CallStep(t) PROVE Known
    <2>1. ASSUME NEW c \in Conns, SweepPeer(t, c) PROVE Known
      BY <2>1 DEF SweepPeer, TypeOK
    <2>2. SweepDone(t) => Known
      BY DEF SweepDone, callVars
    <2>3. Missed(t) \/ TakeTicket(t) \/ CheckUsable(t) =>
             pc[t] \notin {"sweep", "peer"} /\ UNCHANGED todo
      BY DEF Missed, TakeTicket, CheckUsable, callVars
    <2> QED
      BY <1>3, <1>4, <1>7, <2>1, <2>2, <2>3 DEF CallStep, Hit, RefuseBroken, Offer
  <1>8. ASSUME LockStep(t) PROVE Known
    <2>1. pc[t] \notin {"sweep", "peer"} /\ UNCHANGED todo
      BY <1>8 DEF LockStep, EnterDrain, Send, callVars
    <2> QED
      BY <1>4, <2>1
  <1>9. ASSUME ChoiceStep(t) PROVE Known
    <2>1. ASSUME NEW k \in Keys, Call(t, k) \/ PipeSend(t, k) PROVE Known
      BY <2>1 DEF Call, PipeSend, TypeOK, TodoInv
    <2>2. Release(t) => UNCHANGED <<pc, callVars>>
      BY DEF Release, Close
    <2>3. \A c \in Conns : Borrow(t, c) \/ Open(t, c) => UNCHANGED <<pc, callVars>>
      BY DEF Borrow, Open
    <2> QED
      BY <1>2, <1>3, <1>5, <1>9, <2>1, <2>2, <2>3 DEF ChoiceStep, ReplyWasError, DrainTimesOut,
        DrainFails, AwaitTimesOut, SendFails, AwaitFails
  <1>10. ASSUME \E u \in Threads : u # t /\ (ReadStep(u) \/ CallStep(u) \/ LockStep(u) \/ ChoiceStep(u))
         PROVE  Known
    BY <1>1, <1>10, OthersStay
  <1>11. ASSUME UNCHANGED vars \/ Environment PROVE Known
    BY <1>2, <1>11, EnvironmentStays DEF vars
  <1> QED
    BY <1>6, <1>7, <1>8, <1>9, <1>10, <1>11 DEF Next

\* The thread's drain of the connection has met its end.
Drained(t, c) ==
    Draining(t) /\ inHand[t] = None /\ Socket(t) = c /\ inbox[c] = <<>> /\ ~cut[c]

\* A sweep leaves a connection behind when there is nothing to read on it.
LEMMA SweepStep ==
  ASSUME Inv, [Next]_vars, SplitsInToken, NEW t \in Threads,
         pc'[t] \in Sweeping \cup {"lookup"}, swept'[t], ~Began(t)
  PROVE  /\ pc[t] \in Sweeping \cup {"lookup"} /\ swept[t]
         /\ \A c \in Conns : Ahead(t, c) =>
               Ahead(t, c)' \/ ~Usable(c) \/ ~Usable(c)' \/ Drained(t, c)
  <1> USE DEF Inv
  <1> DEFINE Behind(c) == Ahead(t, c)' \/ ~Usable(c) \/ ~Usable(c)' \/ Drained(t, c)
             Known == /\ pc[t] \in Sweeping \cup {"lookup"} /\ swept[t]
                      /\ \A c \in Conns : Ahead(t, c) => Behind(c)
  <1>1. ~Leave(t)
    BY DEF Leave, TypeOK, Sweeping
  <1>2. ASSUME pc'[t] = pc[t], todo'[t] = todo[t], peer'[t] = peer[t], holds'[t] = holds[t],
               swept'[t] = swept[t]
        PROVE  Known
    BY <1>2 DEF Ahead
  <1>3. ASSUME UNCHANGED <<pc, callVars, holds>> PROVE Known
    BY <1>2, <1>3 DEF callVars
  <1>4. ASSUME DrainOver(t), Draining(t), UNCHANGED holds, NEW d \in Conns, d = Socket(t),
               ~Usable(d) \/ ~Usable(d)' \/ Drained(t, d)
        PROVE  Known
    <2>1. /\ todo' = todo /\ swept' = swept /\ pc'[t] = AfterDrain(t) /\ peer'[t] = None
      BY <1>4 DEF DrainOver, TypeOK
    <2>2. \/ pc[t] = "peer" /\ pc'[t] = "sweep"
          \/ pc[t] = "drain1" /\ pc'[t] = "lookup"
      BY <1>4, <2>1 DEF AfterDrain, Draining, Sweeping
    <2>3. pc[t] \in Sweeping \cup {"lookup"} /\ swept[t]
      BY <2>1, <2>2 DEF Sweeping
    <2>4. ASSUME NEW c \in Conns, Ahead(t, c), ~Ahead(t, c)' PROVE c = d
      <3>1. CASE pc[t] = "peer" /\ pc'[t] = "sweep"
        BY <1>4, <2>1, <2>4, <3>1, NoneAssumption DEF Ahead, Sweeping, Socket
      <3>2. CASE pc[t] = "drain1" /\ pc'[t] = "lookup"
        <4>1. peer[t] = None
          BY <3>2 DEF CallInv
        <4> QED
          BY <1>4, <2>1, <2>4, <4>1 DEF Ahead, Socket
      <3> QED
        BY <2>2, <3>1, <3>2
    <2>5. ASSUME NEW c \in Conns, Ahead(t, c) PROVE Behind(c)
      BY <1>4, <2>4, <2>5
    <2> QED
      BY <2>3, <2>5
  <1>5. ASSUME NEW d \in Conns, Poison(d) PROVE ~Usable(d)'
    BY <1>5 DEF Poison, Usable
  <1>6. ASSUME ReadStep(t) PROVE Known
    <2>1. ~ReadReply(t)
      BY DEF ReadReply, TypeOK, Sweeping
    <2>2. ASSUME DrainEnds(t) \/ DrainMeetsReply(t) \/ DrainMeetsEOF(t) \/ DrainTorn(t)
          PROVE  Known
      <3>1. Draining(t) /\ DrainOver(t) /\ UNCHANGED holds
        BY <1>1, <2>2 DEF DrainEnds, DrainMeetsReply, DrainMeetsEOF, DrainTorn, DrainFails
      <3>2. PICK d \in Conns : d = Socket(t)
        BY <3>1, SocketHeld DEF Draining
      <3>3. ~Usable(d) \/ Poison(d) \/ Drained(t, d)
        BY <2>2, <3>2 DEF DrainEnds, DrainMeetsReply, DrainMeetsEOF, DrainTorn, Drained, Usable,
          TypeOK
      <3> QED
        BY <1>4, <1>5, <3>1, <3>2, <3>3
    <2> QED
      BY <1>1, <1>3, <1>6, <2>1, <2>2
      DEF ReadStep, ParsePush, HandlePush, AwaitInVain, AwaitFails,
        PipeReply
  <1>7. ASSUME CallStep(t) PROVE Known
    <2>1. ASSUME NEW d \in Conns, SweepPeer(t, d) PROVE Known
      <3>1. /\ pc[t] = "sweep" /\ holds' = holds /\ todo' = [todo EXCEPT ![t] = @ \ {d}]
            /\ peer[t] = None
        BY <2>1 DEF SweepPeer, CallInv
      <3>2. swept[t] /\ (Usable(d) => peer'[t] = d /\ pc'[t] = "peer")
        BY <2>1 DEF SweepPeer, TypeOK
      <3>3. pc'[t] \in Sweeping
        BY <2>1 DEF SweepPeer, Sweeping, TypeOK
      <3>4. ASSUME NEW c \in Conns, Ahead(t, c) PROVE Behind(c)
        <4>1. c \in todo[t] \/ c = holds[t]
          BY <3>1, <3>4, NoneAssumption DEF Ahead
        <4>2. CASE c = holds[t]
          BY <3>1, <3>3, <4>2 DEF Ahead
        <4>3. CASE c \in todo[t]
          BY <3>1, <3>2, <4>3 DEF Ahead, TypeOK
        <4> QED
          BY <4>1, <4>2, <4>3
      <3> QED
        BY <3>1, <3>2, <3>4 DEF Sweeping
    <2>2. ASSUME SweepDone(t) PROVE Known
      BY <2>2 DEF SweepDone, callVars, Ahead, Sweeping, TypeOK
    <2>3. ~Missed(t) /\ ~TakeTicket(t) /\ ~CheckUsable(t)
      BY DEF Missed, TakeTicket, CheckUsable, TypeOK, Sweeping
    <2> QED
      BY <1>1, <1>7, <2>1, <2>2, <2>3 DEF CallStep, Hit, RefuseBroken, Offer
  <1>8. ASSUME LockStep(t) PROVE Known
    <2>1. ~Send(t) /\ ~EnterDrain(t, "own2", "drain2", "offer")
      BY DEF Send, EnterDrain, TypeOK, Sweeping
    <2>2. /\ pc[t] = "own1" /\ UNCHANGED <<callVars, holds>>
          /\ pc'[t] = "drain1" \/ (pc'[t] = "lookup" /\ ~Usable(Socket(t)))
      BY <1>8, <2>1 DEF LockStep, EnterDrain, TypeOK
    <2>3. Socket(t) = holds[t]
      BY <2>2 DEF Socket, CallInv
    <2> QED
      BY <2>2, <2>3 DEF callVars, Ahead, Sweeping
  <1>9. ASSUME ChoiceStep(t) PROVE Known
    <2>1. \A c \in Conns : ~Borrow(t, c) /\ ~Open(t, c)
      BY DEF Borrow, Open, Sweeping
    <2>2. ~Release(t)
      BY DEF Release, Close, Sweeping
    <2>3. ASSUME DrainTimesOut(t) PROVE Known
      <3>1. Draining(t) /\ DrainOver(t) /\ UNCHANGED holds /\ Poison(Socket(t))
        BY <1>1, <2>3 DEF DrainTimesOut, DrainFails
      <3>2. PICK d \in Conns : d = Socket(t)
        BY <3>1, SocketHeld DEF Draining
      <3> QED
        BY <1>4, <1>5, <3>1, <3>2
    <2> QED
      BY <1>1, <1>9, <2>1, <2>2, <2>3
      DEF ChoiceStep, Began, ReplyWasError, AwaitTimesOut, SendFails,
        AwaitFails
  <1>10. ASSUME \E u \in Threads : u # t /\ (ReadStep(u) \/ CallStep(u) \/ LockStep(u) \/ ChoiceStep(u))
         PROVE  Known
    BY <1>2, <1>10, OthersStay
  <1>11. ASSUME UNCHANGED vars \/ Environment PROVE Known
    BY <1>3, <1>11, EnvironmentStays DEF vars
  <1> QED
    BY <1>6, <1>7, <1>8, <1>9, <1>10, <1>11 DEF Next
LEMMA DrainedCarries ==
  ASSUME Inv, Pipeliners = {}, NEW t \in Threads, NEW c \in Conns, NEW k \in Keys, Drained(t, c)
  PROVE  ~Carries(c, k)
  <1>1. ToSet(inbox[c]) = {} /\ ~cut[c]
    BY DEF Drained, ToSet
  <1>2. \A u \in Threads : inHand[u] # None => Socket(u) # c
    BY OneReader DEF Drained
  <1> QED
    BY <1>1, <1>2 DEF Carries

LEMMA NextNews ==
  ASSUME ServeInv, PastInv, NewsInv, Pipeliners = {}, [Next]_vars PROVE NewsInv'
  <1> SUFFICES ASSUME NEW k \in Keys
               PROVE  \/ k \in lost' \/ FreshAt(k, announced[k])'
                      \/ \E c \in Conns : Carries(c, k)'
    BY DEF NewsInv
  <1> DEFINE Known == k \in lost' \/ FreshAt(k, announced[k])' \/ \E c \in Conns : Carries(c, k)'
  <1>1. ASSUME Handled(k) PROVE Known
    <2>1. \A x \in 0..MaxWrites : ~Servable(k, x)'
      BY <1>1, HandledFresh
    <2> QED
      BY <2>1 DEF FreshAt
  <1>2. ASSUME announced'[k] = announced[k], ~Handled(k) PROVE Known
    <2>1. PICK v \in 0..MaxWrites : v = announced[k]
      BY DEF ServeInv, Inv, TypeOK
    <2>2. ASSUME FreshAt(k, v) PROVE Known
      <3>1. v <= version[k]
        BY <2>1 DEF PastInv
      <3>2. FreshAt(k, v)'
        BY <2>2, <3>1, FreshStays
      <3> QED
        BY <1>2, <2>1, <3>2 DEF FreshAt
    <2>3. k \in lost => k \in lost'
      BY <1>2, LostStays DEF ServeInv
    <2>4. ASSUME NEW c \in Conns, Carries(c, k) PROVE Known
      BY <1>2, <2>4, NextCarries DEF ServeInv
    <2> QED
      BY <2>1, <2>2, <2>3, <2>4 DEF NewsInv
  <1> QED
    BY <1>1, <1>2, NextAnnouncement DEF ServeInv

LEMMA NextSweep ==
  ASSUME ServeInv, PastInv, NewsInv, SweepInv, Pipeliners = {}, SplitsInToken, [Next]_vars
  PROVE  SweepInv'
  <1> USE DEF ServeInv
  <1> SUFFICES ASSUME NEW t \in Threads, pc'[t] \in Sweeping \cup {"lookup"}, swept'[t]
               PROVE  \/ key'[t] \in lost' \/ FreshAt(key[t], floor[t])'
                      \/ \E c \in Conns : Ahead(t, c)' /\ Carries(c, key[t])'
    BY DEF SweepInv
  <1> DEFINE Known == \/ key'[t] \in lost' \/ FreshAt(key[t], floor[t])'
                      \/ \E c \in Conns : Ahead(t, c)' /\ Carries(c, key[t])'
  <1>1. PICK k : k = key'[t]
    OBVIOUS
  <1>2. ASSUME NEW v \in 0..MaxWrites, v = floor'[t], FreshAt(k, v)' PROVE Known
    BY <1>1, <1>2 DEF FreshAt
  <1>3. ASSUME NEW c \in Conns, Ahead(t, c)', Carries(c, k)' PROVE Known
    BY <1>1, <1>3 DEF Carries
  <1>4. ASSUME k \in lost' PROVE Known
    BY <1>1, <1>4
  <1>5. ASSUME k \in Keys, Handled(k) PROVE Known
    <2>1. \A x \in 0..MaxWrites : ~Servable(k, x)'
      BY <1>5, HandledFresh
    <2> QED
      BY <1>1, <2>1 DEF FreshAt
  <1>6. ASSUME NEW v \in 0..MaxWrites, v = floor'[t], k \in Keys, FreshAt(k, v), v <= version[k]
        PROVE  Known
    BY <1>2, <1>6, FreshStays
  <1>7. ASSUME NEW c \in Conns, k \in Keys, Carries(c, k), Ahead(t, c)' PROVE Known
    BY <1>3, <1>4, <1>5, <1>7, NextCarries
  <1>8. ASSUME NEW j \in Keys, Call(t, j) PROVE Known
    <2>1. /\ j = k /\ k \in Keys /\ floor'[t] = announced[k] /\ pc'[t] = "sweep"
          /\ todo'[t] = Owned \ {holds[t]} /\ holds'[t] = holds[t]
      BY <1>1, <1>8 DEF Call, Inv, TypeOK
    <2>2. announced[k] \in 0..MaxWrites /\ announced[k] <= version[k]
      BY <2>1 DEF Inv, TypeOK, PastInv
    <2>3. ASSUME NEW c \in Conns, Carries(c, k) PROVE Ahead(t, c)'
      BY <2>1, <2>3 DEF Carries, Usable, Owned, Ahead, Sweeping
    <2>4. k \in lost => k \in lost' \/ Handled(k)
      BY <2>1, LostStays
    <2>5. k \in lost \/ FreshAt(k, announced[k]) \/ \E c \in Conns : Carries(c, k)
      BY <2>1 DEF NewsInv
    <2> QED
      BY <1>4, <1>5, <1>6, <1>7, <2>1, <2>2, <2>3, <2>4, <2>5
  <1>9. \A j \in Keys : ~PipeSend(t, j)
    BY DEF PipeSend
  <1>10. ASSUME ~Began(t) PROVE Known
    <2>1. /\ pc[t] \in Sweeping \cup {"lookup"} /\ swept[t]
          /\ \A c \in Conns : Ahead(t, c) =>
                Ahead(t, c)' \/ ~Usable(c) \/ ~Usable(c)' \/ Drained(t, c)
      BY <1>10, SweepStep
    <2>2. pc'[t] # "out" /\ pc[t] # "out"
      BY <2>1 DEF Sweeping
    <2>3. key'[t] = key[t] /\ floor'[t] = floor[t] /\ k = key[t] /\ k \in Keys
      BY <1>1, <1>10, <2>2, CallBack DEF Inv, CallInv
    <2>4. PICK v \in 0..MaxWrites : v = floor[t]
      BY DEF Inv, TypeOK
    <2>5. v <= version[k]
      <3>1. v <= announced[k] /\ announced[k] <= version[k]
        BY <2>2, <2>3, <2>4 DEF PastInv
      <3>2. announced[k] \in Nat /\ version[k] \in Nat
        BY <2>3 DEF Inv, TypeOK
      <3> QED
        BY <2>4, <3>1, <3>2
    <2>6. k \in lost => k \in lost' \/ Handled(k)
      BY <2>3, LostStays
    <2>7. ASSUME NEW c \in Conns, Ahead(t, c), Carries(c, k) PROVE Known
      <3>1. Usable(c) /\ ~Drained(t, c)
        BY <2>3, <2>7, DrainedCarries DEF Carries
      <3>2. CASE Ahead(t, c)'
        BY <1>7, <2>3, <2>7, <3>2
      <3>3. CASE ~Usable(c)'
        <4>1. ~Carries(c, k)'
          BY <3>3 DEF Carries
        <4> QED
          BY <1>4, <1>5, <2>3, <2>7, <4>1, NextCarries
      <3> QED
        BY <2>1, <2>7, <3>1, <3>2, <3>3
    <2>8. k \in lost \/ FreshAt(k, v) \/ \E c \in Conns : Ahead(t, c) /\ Carries(c, k)
      BY <2>1, <2>3, <2>4 DEF SweepInv
    <2> QED
      BY <1>4, <1>5, <1>6, <2>3, <2>4, <2>5, <2>6, <2>7, <2>8
  <1> QED
    BY <1>8, <1>9, <1>10 DEF Began

-----------------------------------------------------------------------------
\* The calls that return.

\* A value is returned by a hit or an offer.
LEMMA ReturnStep ==
  ASSUME Inv, [Next]_vars, NEW t \in Threads, pc[t] \in {"lookup", "offer"}, pc'[t] = "out"
  PROVE  Hit(t) \/ Offer(t)
  <1> USE DEF Inv
  <1>1. ASSUME ReadStep(t) PROVE FALSE
    <2>1. UNCHANGED pc
      BY <1>1 DEF ReadStep, ParsePush, HandlePush, DrainEnds, DrainMeetsReply, DrainMeetsEOF,
        DrainTorn, ReadReply, AwaitInVain, AwaitFails, PipeReply, Draining
    <2> QED
      BY <2>1
  <1>2. ASSUME CallStep(t) PROVE Hit(t) \/ Offer(t)
    BY <1>2 DEF CallStep, SweepPeer, SweepDone, Missed, TakeTicket, CheckUsable, RefuseBroken,
      TypeOK
  <1>3. ~LockStep(t)
    BY DEF LockStep, EnterDrain, Send
  <1>4. ~ChoiceStep(t)
    BY DEF ChoiceStep, Borrow, Open, Release, Call, PipeSend, ReplyWasError, DrainTimesOut,
      Draining, AwaitTimesOut, SendFails, AwaitFails
  <1>5. ASSUME \E u \in Threads : u # t /\ (ReadStep(u) \/ CallStep(u) \/ LockStep(u) \/ ChoiceStep(u))
        PROVE  FALSE
    BY <1>5, OthersStay
  <1>6. ASSUME UNCHANGED vars \/ Environment PROVE FALSE
    BY <1>6, EnvironmentStays DEF vars
  <1> QED
    BY <1>1, <1>2, <1>3, <1>4, <1>5, <1>6 DEF Next

LEMMA FreshReturns ==
  ASSUME FreshInv, [Next]_vars, NEW t \in Threads, Returning(t)
  PROVE  ReturnedValue(t) >= floor[t] \/ key[t] \in lost
  <1> USE DEF FreshInv, ServeInv
  <1>1. Hit(t) \/ Offer(t)
    BY ReturnStep DEF Returning
  <1>2. ASSUME Offer(t) PROVE ReturnedValue(t) >= floor[t]
    BY <1>2 DEF Offer, ReturnedValue, AnswerInv, Answered
  <1>3. ASSUME Hit(t) PROVE ReturnedValue(t) >= floor[t] \/ key[t] \in lost
    <2>1. pc[t] = "lookup" /\ swept[t] /\ entries[key[t]] # Miss
      BY <1>3 DEF Hit
    <2>2. key[t] \in Keys /\ peer[t] = None /\ todo[t] = {}
      BY <2>1 DEF Inv, CallInv, TodoInv
    <2>3. \A c \in Conns : ~Ahead(t, c)
      BY <2>1, <2>2, NoneAssumption DEF Ahead, Sweeping
    <2>4. key[t] \in lost \/ FreshAt(key[t], floor[t])
      BY <2>1, <2>3 DEF SweepInv
    <2>5. entries[key[t]] \in 0..MaxWrites /\ Servable(key[t], entries[key[t]])
      BY <2>1, <2>2 DEF Inv, TypeOK, Cache!TypeOK, Servable
    <2>6. ReturnedValue(t) = entries[key[t]]
      BY <2>1 DEF ReturnedValue
    <2> QED
      BY <2>4, <2>5, <2>6 DEF FreshAt
  <1> QED
    BY <1>1, <1>2, <1>3

LEMMA InitFreshInv == Init => FreshInv
  <1> SUFFICES ASSUME Init PROVE FreshInv
    OBVIOUS
  <1>1. ServeInv /\ \A k \in Keys : \A x : ~Servable(k, x)
    BY InitServeInv, InitServable
  <1>2. PastInv
    <2>1. \A c \in Conns : ToSet(Unread(c)) = {}
      <3>1. ASSUME NEW c \in Conns PROVE ToSet(Unread(c)) = {}
        <4>1. ToSet(inbox[c]) = {} /\ ToSet(wire[c]) = {}
          BY DEF Init, ToSet
        <4> QED
          BY <1>1, <4>1, UnreadNow DEF ServeInv, Inv
      <3> QED
        BY <3>1
    <2> QED
      BY <2>1 DEF PastInv, Init
  <1>3. NewsInv
    BY <1>1 DEF NewsInv, FreshAt
  <1>4. SweepInv /\ TodoInv /\ AnswerInv
    BY DEF SweepInv, TodoInv, AnswerInv, Init, Sweeping, Answered
  <1> QED
    BY <1>1, <1>2, <1>3, <1>4 DEF FreshInv

LEMMA NextFreshInv ==
  ASSUME Pipeliners = {}, SplitsInToken, FreshInv, [Next]_vars PROVE FreshInv'
  <1>1. ServeInv'
    BY NextServeInv DEF FreshInv
  <1>2. PastInv' /\ AnswerInv' /\ TodoInv'
    BY NextPast, NextAnswer, NextTodo DEF FreshInv, ServeInv
  <1>3. NewsInv' /\ SweepInv'
    BY NextNews, NextSweep DEF FreshInv
  <1> QED
    BY <1>1, <1>2, <1>3 DEF FreshInv

\* No execute() returns a value older than an invalidation that had begun to
\* arrive, on any connection of the pool, when it was called, unless the key lost
\* its tracking with a connection: what the sweep of the peers and the drains are
\* for.  It takes that nobody runs a pipeline, which reads without the I/O lock,
\* and that part of a frame is always told by has_buffered_input.
THEOREM AnswersAreFresh ==
  ASSUME Pipeliners = {}, SplitsInToken
  PROVE  Spec => FreshUnlessLost
  <1>1. FreshInv /\ [Next]_vars => FreshInv'
    BY NextFreshInv
  <1>2. FreshInv /\ [Next]_vars =>
           [\A t \in Threads : Returning(t) =>
               ReturnedValue(t) >= floor[t] \/ key[t] \in lost]_vars
    BY FreshReturns
  <1> QED
    BY <1>1, <1>2, InitFreshInv, PTL DEF Spec, FreshUnlessLost

=============================================================================
