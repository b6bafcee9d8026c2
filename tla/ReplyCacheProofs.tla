-------------------------- MODULE ReplyCacheProofs --------------------------
(***************************************************************************)
(* Theorems about ReplyCache, for every set of keys, commands, replies and *)
(* readers and every bound.                                                *)
(***************************************************************************)
EXTENDS ReplyCache, FiniteSetTheorems, TLAPS

\* Each command reads one of the keys.
LEMMA KeyOfType == \A c \in Commands : KeyOf[c] \in Keys
  BY KeyOfAssumption

\* Every variable keeps its type (cache.py's seven fields and the two locals of
\* Connection.execute).
LEMMA InitTypeOK == Init => TypeOK
  BY DEF Init, TypeOK, NoTicket

\* Storing a reply, with or without an eviction, keeps the types.
LEMMA PutType ==
  ASSUME TypeOK, NEW c \in Commands, NEW v \in Values, NEW gone, Put(c, v, gone)
  PROVE  /\ entries' \in [Commands -> Values \cup {Miss}]
         /\ before' \subseteq Commands \X Commands
         /\ byKey' \in [Keys -> SUBSET Commands]
  <1>1. Cached \subseteq Commands
    BY DEF Cached
  <1>2. entries' \in [Commands -> Values \cup {Miss}]
    BY DEF Put, TypeOK
  <1>3. before' \subseteq Commands \X Commands
    BY <1>1 DEF Put, TypeOK
  <1>4. byKey' \in [Keys -> SUBSET Commands]
    BY DEF Put, TypeOK
  <1> QED
    BY <1>2, <1>3, <1>4

LEMMA ForgetType ==
  ASSUME TypeOK, NEW cs, Forget(cs)
  PROVE  /\ entries' \in [Commands -> Values \cup {Miss}]
         /\ before' \subseteq Commands \X Commands
  BY DEF Forget, TypeOK

LEMMA NextTypeOK == TypeOK /\ [Next]_vars => TypeOK'
  <1> SUFFICES ASSUME TypeOK, [Next]_vars PROVE TypeOK'
    OBVIOUS
  <1> USE KeyOfType
  <1>1. ASSUME NEW c \in Commands, Get(c) PROVE TypeOK'
    BY <1>1 DEF Get, TypeOK, cacheVars, clockVars, readerVars
  <1>2. ASSUME NEW r \in Readers, NEW c \in Commands, TakeGeneration(r, c)
        PROVE TypeOK'
    <2>1. GenerationOf(KeyOf[c]) \in Nat \X Nat
      BY DEF GenerationOf, TypeOK
    <2> QED
      BY <1>2, <2>1 DEF TakeGeneration, TypeOK, cacheVars, clockVars, statVars
  <1>3. ASSUME NEW r \in Readers, Abandon(r) PROVE TypeOK'
    BY <1>3 DEF Abandon, NoTicket, TypeOK, cacheVars, clockVars, statVars
  <1>4. ASSUME NEW r \in Readers, NEW v \in Values, Offer(r, v) PROVE TypeOK'
    <2>1. reading[r] \in Commands
      BY <1>4 DEF Offer, TypeOK
    <2>2. /\ reading' \in [Readers -> Commands \cup {NoCommand}]
          /\ ticket' \in [Readers -> Nat \X Nat]
          /\ overtaken' \subseteq Readers
          /\ UNCHANGED <<clockVars, statVars>>
      BY <1>4 DEF Offer, NoTicket, TypeOK
    <2>3. /\ entries' \in [Commands -> Values \cup {Miss}]
          /\ before' \subseteq Commands \X Commands
          /\ byKey' \in [Keys -> SUBSET Commands]
      <3>1. CASE OfferRefused(r)
        BY <3>1 DEF OfferRefused, cacheVars, TypeOK
      <3>2. CASE OfferStored(r, v)
        BY <3>2, <2>1, PutType DEF OfferStored
      <3>3. CASE OfferEvicting(r, v)
        BY <3>3, <2>1, PutType DEF OfferEvicting
      <3> QED
        BY <1>4, <3>1, <3>2, <3>3 DEF Offer
    <2> QED
      BY <2>2, <2>3 DEF TypeOK, clockVars, statVars
  <1>5. ASSUME NEW ks \in SUBSET Keys, Invalidate(ks) PROVE TypeOK'
    <2>1. generation' \in [Keys -> Nat] /\ invalidations' \in Nat
      BY <1>5 DEF Invalidate, DropKeys, TypeOK
    <2>2. byKey' \in [Keys -> SUBSET Commands]
      BY <1>5 DEF Invalidate, DropKeys, TypeOK
    <2> QED
      BY <1>5, <2>1, <2>2, ForgetType DEF Invalidate, DropKeys, Overtake, TypeOK
  <1>6. CASE InvalidateAll
    BY <1>6, ForgetType DEF InvalidateAll, DropAll, Overtake, TypeOK
  <1>7. CASE Clear
    BY <1>7, ForgetType DEF Clear, TypeOK, readerVars, clockVars, statVars
  <1>8. CASE UNCHANGED vars
    BY <1>8 DEF TypeOK, vars, cacheVars, clockVars, statVars, readerVars
  <1> QED
    BY <1>1, <1>2, <1>3, <1>4, <1>5, <1>6, <1>7, <1>8 DEF Next

\* Every variable always has its type.
THEOREM TypeCorrect == Spec => []TypeOK
  BY InitTypeOK, NextTypeOK, PTL DEF Spec

-----------------------------------------------------------------------------
\* What the two ways of changing the entries do to the set of cached commands.

LEMMA PutCached ==
  ASSUME TypeOK, NEW c \in Commands, NEW v \in Values, NEW gone, Put(c, v, gone)
  PROVE  Cached' = (Cached \ gone) \cup {c}
  BY MissAssumption DEF Put, Cached, TypeOK

LEMMA ForgetCached ==
  ASSUME TypeOK, NEW cs, Forget(cs)
  PROVE  Cached' = Cached \ cs
  BY DEF Forget, Cached, TypeOK

LEMMA CachedFinite ==
  /\ Cached \subseteq Commands
  /\ IsFiniteSet(Cached)
  /\ Cardinality(Cached) \in Nat
  <1>1. Cached \in SUBSET Commands
    BY DEF Cached
  <1> QED
    BY <1>1, FS_Subset, FS_CardinalityType, CommandsAssumption

-----------------------------------------------------------------------------
\* The index and the entries agree.

LEMMA PutIndex ==
  ASSUME TypeOK, IndexExact, NEW c \in Commands, NEW v \in Values, NEW gone,
         Put(c, v, gone)
  PROVE  IndexExact'
  <1> SUFFICES ASSUME NEW k \in Keys
               PROVE  byKey'[k] = {d \in Cached' : KeyOf[d] = k}
    BY DEF IndexExact
  <1>1. byKey'[k] = (byKey[k] \ gone) \cup (IF k = KeyOf[c] THEN {c} ELSE {})
    BY DEF Put
  <1>2. byKey[k] = {d \in Cached : KeyOf[d] = k}
    BY DEF IndexExact
  <1> QED
    BY <1>1, <1>2, PutCached

LEMMA NextIndexExact == TypeOK /\ IndexExact /\ [Next]_vars => IndexExact'
  <1> SUFFICES ASSUME TypeOK, IndexExact, [Next]_vars PROVE IndexExact'
    OBVIOUS
  <1>1. CASE UNCHANGED cacheVars
    BY <1>1 DEF cacheVars, IndexExact, Cached
  <1>2. ASSUME NEW r \in Readers, NEW v \in Values, Offer(r, v)
        PROVE IndexExact'
    <2>1. reading[r] \in Commands
      BY <1>2 DEF Offer, TypeOK
    <2>2. CASE OfferRefused(r)
      BY <2>2, <1>1 DEF OfferRefused
    <2>3. CASE OfferStored(r, v)
      BY <2>3, <2>1, PutIndex DEF OfferStored
    <2>4. CASE OfferEvicting(r, v)
      BY <2>4, <2>1, PutIndex DEF OfferEvicting
    <2> QED
      BY <1>2, <2>2, <2>3, <2>4 DEF Offer
  <1>3. ASSUME NEW ks \in SUBSET Keys, Invalidate(ks) PROVE IndexExact'
    <2> DEFINE doomed == UNION {byKey[k] : k \in ks}
    <2>1. Cached' = Cached \ doomed
      BY <1>3, ForgetCached DEF Invalidate, DropKeys
    <2>2. doomed = {c \in Cached : KeyOf[c] \in ks}
      BY DEF IndexExact
    <2> SUFFICES ASSUME NEW k \in Keys
                 PROVE  byKey'[k] = {d \in Cached' : KeyOf[d] = k}
      BY DEF IndexExact
    <2>3. byKey'[k] = IF k \in ks THEN {} ELSE byKey[k]
      BY <1>3 DEF Invalidate, DropKeys
    <2>4. byKey[k] = {d \in Cached : KeyOf[d] = k}
      BY DEF IndexExact
    <2> QED
      BY <2>1, <2>2, <2>3, <2>4
  <1>4. CASE Forget(Commands) /\ byKey' = [k \in Keys |-> {}]
    <2>1. Cached' = {}
      BY <1>4, ForgetCached DEF Cached
    <2> QED
      BY <1>4, <2>1 DEF IndexExact
  <1> QED
    BY <1>1, <1>2, <1>3, <1>4
    DEF Next, vars, Get, TakeGeneration, Abandon, InvalidateAll, DropAll, Clear

\* Every cached reply is found by the invalidation of its key, and no key's
\* index holds a command that is not cached for it (cache.py 120-132, 148-150).
THEOREM IndexCorrect == Spec => []IndexExact
  <1>1. Init => IndexExact
    BY DEF Init, IndexExact, Cached
  <1> QED
    BY <1>1, TypeCorrect, NextIndexExact, PTL DEF Spec

-----------------------------------------------------------------------------
\* The bound on the number of entries.

LEMMA StoreWithRoomBounded ==
  ASSUME TypeOK, Bounded, NEW c \in Commands, NEW v \in Values,
         HasRoom(c), Put(c, v, {})
  PROVE  Bounded'
  <1>1. Cached' = Cached \cup {c}
    BY PutCached
  <1>2. Cardinality(Cached') =
           IF c \in Cached THEN Cardinality(Cached) ELSE Cardinality(Cached) + 1
    BY <1>1, CachedFinite, FS_AddElement
  <1> QED
    BY <1>2, CachedFinite, MaxEntriesAssumption DEF HasRoom, Bounded

LEMMA StoreEvictingBounded ==
  ASSUME TypeOK, Bounded, NEW c \in Commands, NEW v \in Values,
         NEW oldest \in Cached, ~HasRoom(c), Put(c, v, {oldest})
  PROVE  Bounded'
  <1> DEFINE kept == Cached \ {oldest}
  <1>1. Cached' = kept \cup {c}
    BY PutCached
  <1>2. IsFiniteSet(kept) /\ Cardinality(kept) = Cardinality(Cached) - 1
    BY CachedFinite, FS_RemoveElement
  <1>3. c \notin kept
    BY DEF HasRoom
  <1> HIDE DEF kept
  <1>4. Cardinality(Cached') = Cardinality(kept) + 1
    BY <1>1, <1>2, <1>3, FS_AddElement
  <1> QED
    BY <1>2, <1>4, CachedFinite DEF Bounded

LEMMA ForgetBounded ==
  ASSUME TypeOK, Bounded, NEW cs, Forget(cs)
  PROVE  Bounded'
  <1>1. Cached' \in SUBSET Cached
    BY ForgetCached
  <1>2. Cardinality(Cached') <= Cardinality(Cached)
    BY <1>1, CachedFinite, FS_Subset
  <1>3. IsFiniteSet(Cached')
    BY <1>1, CachedFinite, FS_Subset
  <1>4. Cardinality(Cached') \in Nat
    BY <1>3, FS_CardinalityType
  <1> QED
    BY <1>2, <1>4, CachedFinite, MaxEntriesAssumption DEF Bounded

LEMMA NextBounded == TypeOK /\ Bounded /\ [Next]_vars => Bounded'
  <1> SUFFICES ASSUME TypeOK, Bounded, [Next]_vars PROVE Bounded'
    OBVIOUS
  <1>1. CASE UNCHANGED cacheVars
    BY <1>1 DEF cacheVars, Bounded, Cached
  <1>2. ASSUME NEW r \in Readers, NEW v \in Values, Offer(r, v)
        PROVE Bounded'
    <2>1. reading[r] \in Commands
      BY <1>2 DEF Offer, TypeOK
    <2>2. CASE OfferRefused(r)
      BY <2>2, <1>1 DEF OfferRefused
    <2>3. CASE OfferStored(r, v)
      BY <2>3, <2>1, StoreWithRoomBounded DEF OfferStored
    <2>4. CASE OfferEvicting(r, v)
      BY <2>4, <2>1, StoreEvictingBounded DEF OfferEvicting, Oldest
    <2> QED
      BY <1>2, <2>2, <2>3, <2>4 DEF Offer
  <1>3. ASSUME NEW cs, Forget(cs) PROVE Bounded'
    BY <1>3, ForgetBounded
  <1> QED
    BY <1>1, <1>2, <1>3
    DEF Next, vars, Get, TakeGeneration, Abandon, Invalidate, DropKeys,
    InvalidateAll, DropAll, Clear

\* The cache never outgrows max_entries (cache.py 117-125).
THEOREM BoundRespected == Spec => []Bounded
  <1>1. Init => Bounded
    <2>1. Init => Cached = {}
      BY DEF Init, Cached
    <2> QED
      BY <2>1, FS_EmptySet, MaxEntriesAssumption DEF Bounded
  <1> QED
    BY <1>1, TypeCorrect, NextBounded, PTL DEF Spec

-----------------------------------------------------------------------------
\* The insertion order.

\* The newest entry comes after all the others; forgetting some of them leaves
\* the order of the rest alone.
LEMMA PutOrder ==
  ASSUME TypeOK, InsertionOrder, NEW c \in Commands, NEW v \in Values, NEW gone,
         c \notin gone, Put(c, v, gone)
  PROVE  InsertionOrder'
  <1>1. Cached' = (Cached \ gone) \cup {c}
    BY PutCached
  <1>2. CASE c \in Cached
    <2>1. before' = {p \in before : p[1] \notin gone /\ p[2] \notin gone}
      BY <1>2 DEF Put
    <2>2. \A d, e : <<d, e>> \in before' <=>
                      <<d, e>> \in before /\ d \notin gone /\ e \notin gone
      BY <2>1
    <2>3. before' \subseteq Cached' \X Cached'
      BY <1>1, <2>1 DEF InsertionOrder
    <2> QED
      BY <1>1, <1>2, <2>2, <2>3 DEF InsertionOrder
  <1>3. CASE c \notin Cached
    <2>1. before' = {p \in before : p[1] \notin gone /\ p[2] \notin gone}
                      \cup ((Cached \ gone) \X {c})
      BY <1>3 DEF Put
    <2>2. \A d, e : <<d, e>> \in before' <=>
                      \/ <<d, e>> \in before /\ d \notin gone /\ e \notin gone
                      \/ d \in Cached \ gone /\ e = c
      BY <2>1
    <2>3. before' \subseteq Cached' \X Cached'
      BY <1>1, <2>1 DEF InsertionOrder
    <2>4. \A d, e : <<d, e>> \in before => d # c /\ e # c
      BY <1>3 DEF InsertionOrder
    <2>5. \A d, e \in Cached' :
            d # e => (<<d, e>> \in before' <=> <<e, d>> \notin before')
      BY <1>1, <1>3, <2>2, <2>4 DEF InsertionOrder
    <2>6. \A d \in Cached' : <<d, d>> \notin before'
      BY <1>1, <1>3, <2>2, <2>4 DEF InsertionOrder
    <2>7. \A d, e, f \in Cached' :
            <<d, e>> \in before' /\ <<e, f>> \in before' => <<d, f>> \in before'
      BY <1>1, <1>3, <2>2, <2>4 DEF InsertionOrder
    <2> QED
      BY <2>3, <2>5, <2>6, <2>7 DEF InsertionOrder
  <1> QED
    BY <1>2, <1>3

LEMMA ForgetOrder ==
  ASSUME TypeOK, InsertionOrder, NEW cs, Forget(cs)
  PROVE  InsertionOrder'
  <1>1. Cached' = Cached \ cs
    BY ForgetCached
  <1>2. before' = {p \in before : p[1] \notin cs /\ p[2] \notin cs}
    BY DEF Forget
  <1>3. \A d, e : <<d, e>> \in before' <=>
                    <<d, e>> \in before /\ d \notin cs /\ e \notin cs
    BY <1>2
  <1>4. before' \subseteq Cached' \X Cached'
    BY <1>1, <1>2 DEF InsertionOrder
  <1> QED
    BY <1>1, <1>3, <1>4 DEF InsertionOrder

LEMMA NextInsertionOrder ==
  TypeOK /\ InsertionOrder /\ [Next]_vars => InsertionOrder'
  <1> SUFFICES ASSUME TypeOK, InsertionOrder, [Next]_vars PROVE InsertionOrder'
    OBVIOUS
  <1>1. CASE UNCHANGED cacheVars
    BY <1>1 DEF cacheVars, InsertionOrder, Cached
  <1>2. ASSUME NEW r \in Readers, NEW v \in Values, Offer(r, v)
        PROVE InsertionOrder'
    <2>1. reading[r] \in Commands
      BY <1>2 DEF Offer, TypeOK
    <2>2. CASE OfferRefused(r)
      BY <2>2, <1>1 DEF OfferRefused
    <2>3. CASE OfferStored(r, v)
      BY <2>3, <2>1, PutOrder DEF OfferStored
    <2>4. CASE OfferEvicting(r, v)
      BY <2>4, <2>1, PutOrder DEF OfferEvicting, Oldest, HasRoom
    <2> QED
      BY <1>2, <2>2, <2>3, <2>4 DEF Offer
  <1>3. ASSUME NEW cs, Forget(cs) PROVE InsertionOrder'
    BY <1>3, ForgetOrder
  <1> QED
    BY <1>1, <1>2, <1>3
    DEF Next, vars, Get, TakeGeneration, Abandon, Invalidate, DropKeys,
    InvalidateAll, DropAll, Clear

\* The cached commands are always totally ordered by age (cache.py 62-64).
THEOREM OrderCorrect == Spec => []InsertionOrder
  <1>1. Init => InsertionOrder
    BY DEF Init, InsertionOrder, Cached
  <1> QED
    BY <1>1, TypeCorrect, NextInsertionOrder, PTL DEF Spec

-----------------------------------------------------------------------------
\* Tickets and the counters they are compared with.

LEMMA NextTicketsBehind ==
  TypeOK /\ TicketsBehind /\ [Next]_vars => TicketsBehind'
  <1> SUFFICES ASSUME TypeOK, TicketsBehind, [Next]_vars,
                      NEW r \in Readers, reading'[r] # NoCommand
               PROVE  /\ ticket'[r][1] <= epoch'
                      /\ ticket'[r][2] <= generation'[KeyOf[reading'[r]]]
    BY DEF TicketsBehind
  <1>1. ASSUME UNCHANGED clockVars, reading'[r] = reading[r], ticket'[r] = ticket[r]
        PROVE  /\ ticket'[r][1] <= epoch'
               /\ ticket'[r][2] <= generation'[KeyOf[reading'[r]]]
    BY <1>1 DEF TicketsBehind, clockVars
  <1>2. ASSUME NEW q \in Readers, NEW c \in Commands, TakeGeneration(q, c)
        PROVE  /\ ticket'[r][1] <= epoch'
               /\ ticket'[r][2] <= generation'[KeyOf[reading'[r]]]
    <2>1. CASE q = r
      <3>1. reading'[r] = c /\ ticket'[r] = <<epoch, generation[KeyOf[c]]>>
        BY <1>2, <2>1 DEF TakeGeneration, GenerationOf, TypeOK
      <3>2. epoch' = epoch /\ generation' = generation
        BY <1>2 DEF TakeGeneration, clockVars
      <3> QED
        BY <3>1, <3>2, KeyOfType DEF TypeOK
    <2>2. CASE q # r
      BY <1>2, <2>2, <1>1 DEF TakeGeneration, TypeOK
    <2> QED
      BY <2>1, <2>2
  <1>3. ASSUME NEW q \in Readers, Abandon(q) \/ \E v \in Values : Offer(q, v)
        PROVE  /\ ticket'[r][1] <= epoch'
               /\ ticket'[r][2] <= generation'[KeyOf[reading'[r]]]
    <2>1. q # r
      BY <1>3 DEF Abandon, Offer, TypeOK
    <2> QED
      BY <1>3, <2>1, <1>1 DEF Abandon, Offer, TypeOK
  <1>4. ASSUME UNCHANGED <<reading, ticket>>,
               epoch' \in {epoch, epoch + 1},
               \A k \in Keys : generation'[k] \in {generation[k], generation[k] + 1}
        PROVE  /\ ticket'[r][1] <= epoch'
               /\ ticket'[r][2] <= generation'[KeyOf[reading'[r]]]
    <2> DEFINE k == KeyOf[reading[r]]
    <2>1. k \in Keys /\ ticket[r] \in Nat \X Nat
      BY <1>4, KeyOfType DEF TypeOK
    <2>2. ticket[r][1] <= epoch /\ ticket[r][2] <= generation[k]
      BY <1>4 DEF TicketsBehind
    <2>3. generation[k] \in Nat /\ epoch \in Nat
      BY <2>1 DEF TypeOK
    <2>4. reading' = reading /\ ticket' = ticket
      BY <1>4
    <2>5. generation'[k] \in {generation[k], generation[k] + 1}
      BY <2>1, <1>4
    <2> HIDE DEF k
    <2>6. ticket[r][1] <= epoch' /\ ticket[r][2] <= generation'[k]
      BY <1>4, <2>1, <2>2, <2>3, <2>5
    <2> QED
      BY <2>6, <2>4 DEF k
  <1>5. ASSUME NEW ks \in SUBSET Keys, Invalidate(ks)
        PROVE  /\ ticket'[r][1] <= epoch'
               /\ ticket'[r][2] <= generation'[KeyOf[reading'[r]]]
    BY <1>5, <1>4 DEF Invalidate, DropKeys
  <1>6. CASE InvalidateAll
    BY <1>6, <1>4 DEF InvalidateAll, DropAll
  <1> QED
    BY <1>1, <1>2, <1>3, <1>5, <1>6
    DEF Next, vars, Get, Clear, readerVars, clockVars

\* A ticket never gets ahead of the counters it is compared with, so an
\* overtaken reader stays overtaken until its offer is refused.
THEOREM TicketsStayBehind == Spec => []TicketsBehind
  <1>1. Init => TicketsBehind
    BY DEF Init, TicketsBehind
  <1> QED
    BY <1>1, TypeCorrect, NextTicketsBehind, PTL DEF Spec

-----------------------------------------------------------------------------
\* A ticket tells whether its reader was overtaken.

\* A reader begins: its ticket is current, and the others' do not change.
LEMMA TakeTells ==
  ASSUME TypeOK, TicketsTell, NEW r \in Readers, NEW c \in Commands,
         r \notin overtaken, TakeGeneration(r, c)
  PROVE  TicketsTell'
  <1>1. Current(r)'
    <2>1. reading'[r] = c /\ ticket'[r] = GenerationOf(KeyOf[c])
      BY DEF TakeGeneration, TypeOK
    <2> QED
      BY <2>1 DEF Current, GenerationOf, TakeGeneration, clockVars
  <1>2. \A q \in Readers \ {r} : reading'[q] = reading[q] /\ (Current(q)' <=> Current(q))
    BY DEF TakeGeneration, Current, GenerationOf, clockVars, TypeOK
  <1> QED
    BY <1>1, <1>2 DEF TicketsTell, TakeGeneration

\* A reader ends, by an offer or a failure.
LEMMA FinishTells ==
  ASSUME TypeOK, TicketsTell, NEW r \in Readers, UNCHANGED clockVars,
         reading' = [reading EXCEPT ![r] = NoCommand],
         ticket' = [ticket EXCEPT ![r] = NoTicket],
         overtaken' = overtaken \ {r}
  PROVE  TicketsTell'
  BY DEF TicketsTell, Current, GenerationOf, clockVars, TypeOK

\* Moving counters makes the tickets for their keys, and no others, out of date.
LEMMA OvertakeTells ==
  ASSUME TypeOK, TicketsBehind, TicketsTell, NEW ks \in SUBSET Keys,
         Overtake(ks), UNCHANGED <<reading, ticket>>,
         \/ /\ epoch' = epoch
            /\ generation' = [k \in Keys |-> IF k \in ks THEN generation[k] + 1
                                                         ELSE generation[k]]
         \/ /\ ks = Keys
            /\ epoch' = epoch + 1
            /\ UNCHANGED generation
  PROVE  TicketsTell'
  <1> SUFFICES ASSUME NEW r \in Readers, reading[r] # NoCommand
               PROVE  Current(r)' <=> r \notin overtaken'
    BY DEF TicketsTell
  <1> DEFINE k == KeyOf[reading[r]]
  <1>1. k \in Keys /\ ticket[r] \in Nat \X Nat
    BY KeyOfType DEF TypeOK
  <1>2. ticket[r][1] <= epoch /\ ticket[r][2] <= generation[k]
    BY DEF TicketsBehind
  <1>3. generation[k] \in Nat /\ epoch \in Nat
    BY <1>1 DEF TypeOK
  <1>4. r \notin overtaken <=> ticket[r] = <<epoch, generation[k]>>
    BY DEF TicketsTell, Current, GenerationOf
  <1>5. Current(r)' <=> ticket[r] = <<epoch', generation'[k]>>
    BY DEF Current, GenerationOf
  <1>6. r \in overtaken' <=> r \in overtaken \/ k \in ks
    BY DEF Overtake
  <1> HIDE DEF k
  <1>7. CASE k \in ks
    BY <1>1, <1>2, <1>3, <1>5, <1>6, <1>7
  <1>8. CASE k \notin ks
    BY <1>1, <1>4, <1>5, <1>6, <1>8
  <1> QED
    BY <1>7, <1>8

\* Only readers that read something are overtaken.
OvertakenRead == \A r \in overtaken : reading[r] # NoCommand

LEMMA NextOvertakenRead ==
  TypeOK /\ OvertakenRead /\ [Next]_vars => OvertakenRead'
  BY NoCommandAssumption
  DEF TypeOK, OvertakenRead, Next, vars, Get, TakeGeneration, Abandon, Offer,
  Invalidate, DropKeys, InvalidateAll, DropAll, Overtake, Clear, readerVars

LEMMA NextTicketsTell ==
  TypeOK /\ TicketsBehind /\ OvertakenRead /\ TicketsTell /\ [Next]_vars
    => TicketsTell'
  <1> SUFFICES ASSUME TypeOK, TicketsBehind, OvertakenRead, TicketsTell, [Next]_vars
               PROVE  TicketsTell'
    OBVIOUS
  <1>1. CASE UNCHANGED <<clockVars, readerVars>>
    BY <1>1 DEF TicketsTell, Current, GenerationOf, clockVars, readerVars
  <1>2. ASSUME NEW r \in Readers, NEW c \in Commands, TakeGeneration(r, c)
        PROVE  TicketsTell'
    BY <1>2, TakeTells DEF TakeGeneration, OvertakenRead
  <1>3. ASSUME NEW r \in Readers, Abandon(r) PROVE TicketsTell'
    BY <1>3, FinishTells DEF Abandon
  <1>4. ASSUME NEW r \in Readers, NEW v \in Values, Offer(r, v) PROVE TicketsTell'
    BY <1>4, FinishTells DEF Offer
  <1>5. ASSUME NEW ks \in SUBSET Keys, Invalidate(ks) PROVE TicketsTell'
    BY <1>5, OvertakeTells DEF Invalidate, DropKeys
  <1>6. CASE InvalidateAll
    BY <1>6, OvertakeTells DEF InvalidateAll, DropAll
  <1> QED
    BY <1>1, <1>2, <1>3, <1>4, <1>5, <1>6 DEF Next, vars, Get, Clear

LEMMA OvertakenAlwaysRead == Spec => []OvertakenRead
  <1>1. Init => OvertakenRead
    BY DEF Init, OvertakenRead
  <1> QED
    BY <1>1, TypeCorrect, NextOvertakenRead, PTL DEF Spec

\* The generation comparison in offer() (cache.py 117-119) refuses exactly the
\* readers whose key was invalidated, by name or by a flush, since they took
\* their ticket.
THEOREM TicketsCorrect == Spec => []TicketsTell
  <1>1. Init => TicketsTell
    BY DEF Init, TicketsTell
  <1> QED
    BY <1>1, TypeCorrect, TicketsStayBehind, OvertakenAlwaysRead, NextTicketsTell, PTL
    DEF Spec

-----------------------------------------------------------------------------
\* The class implements FreshStore.

\* An action that leaves the entries and the readers alone is invisible to the
\* store.
LEMMA InvisibleStep ==
  ASSUME UNCHANGED <<entries, readerVars>>
  PROVE  UNCHANGED Fresh!vars
  BY DEF Fresh!vars, readerVars

\* A reader that takes its ticket begins a read.
LEMMA BeginStep ==
  ASSUME NEW r \in Readers, NEW c \in Commands, TakeGeneration(r, c)
  PROVE  Fresh!Begin(r, c)
  BY DEF TakeGeneration, Fresh!Begin, cacheVars

\* A refused offer and a failed command store nothing.
LEMMA GiveUpStep ==
  ASSUME NEW r \in Readers, reading[r] # NoCommand,
         reading' = [reading EXCEPT ![r] = NoCommand],
         overtaken' = overtaken \ {r},
         UNCHANGED cacheVars
  PROVE  Fresh!GiveUp(r)
  BY DEF Fresh!GiveUp, cacheVars

\* An accepted offer stores the reply of a reader that was not overtaken.
LEMMA KeepStep ==
  ASSUME TicketsTell, NEW r \in Readers, NEW v \in Values,
         NEW gone \in SUBSET Commands,
         reading[r] # NoCommand, Current(r),
         reading' = [reading EXCEPT ![r] = NoCommand],
         overtaken' = overtaken \ {r},
         Put(reading[r], v, gone)
  PROVE  Fresh!Keep(r, v, gone)
  <1>1. r \notin overtaken
    BY DEF TicketsTell
  <1>2. overtaken' = overtaken
    BY <1>1
  <1> QED
    BY <1>1, <1>2 DEF Fresh!Keep, Put

\* The index leads an invalidation to everything stored for its keys.
LEMMA InvalidateStep ==
  ASSUME TypeOK, IndexExact, NEW ks \in SUBSET Keys, Invalidate(ks)
  PROVE  Fresh!Invalidate(ks)
  <1>1. \A c \in Commands : entries[c] # Miss =>
           (c \in UNION {byKey[k] : k \in ks} <=> KeyOf[c] \in ks)
    BY KeyOfType DEF IndexExact, Cached
  <1>2. entries' = [c \in Commands |-> IF KeyOf[c] \in ks THEN Miss ELSE entries[c]]
    BY <1>1 DEF Invalidate, DropKeys, Forget, IndexExact, Cached, TypeOK
  <1> QED
    BY <1>2 DEF Fresh!Invalidate, Invalidate, DropKeys, Overtake

LEMMA InvalidateAllStep ==
  ASSUME InvalidateAll
  PROVE  Fresh!Invalidate(Keys)
  <1>1. entries' = [c \in Commands |-> IF KeyOf[c] \in Keys THEN Miss ELSE entries[c]]
    BY KeyOfType DEF InvalidateAll, DropAll, Forget
  <1> QED
    BY <1>1 DEF Fresh!Invalidate, InvalidateAll, DropAll, Overtake

LEMMA FreshInit == Init => Fresh!Init
  BY DEF Init, Fresh!Init

LEMMA FreshNext ==
  TypeOK /\ IndexExact /\ TicketsTell /\ [Next]_vars => [Fresh!Next]_(Fresh!vars)
  <1> SUFFICES ASSUME TypeOK, IndexExact, TicketsTell, [Next]_vars
               PROVE  Fresh!Next \/ UNCHANGED Fresh!vars
    OBVIOUS
  <1>1. ASSUME NEW c \in Commands, Get(c) PROVE UNCHANGED Fresh!vars
    BY <1>1, InvisibleStep DEF Get, cacheVars
  <1>2. ASSUME NEW r \in Readers, NEW c \in Commands, TakeGeneration(r, c)
        PROVE Fresh!Next
    BY <1>2, BeginStep DEF Fresh!Next
  <1>3. ASSUME NEW r \in Readers, Abandon(r) PROVE Fresh!Next
    BY <1>3, GiveUpStep DEF Abandon, Fresh!Next
  <1>4. ASSUME NEW r \in Readers, NEW v \in Values, Offer(r, v) PROVE Fresh!Next
    <2>1. CASE OfferRefused(r)
      BY <1>4, <2>1, GiveUpStep DEF Offer, OfferRefused, Fresh!Next
    <2>2. CASE OfferStored(r, v)
      BY <1>4, <2>2, KeepStep DEF Offer, OfferStored, Fresh!Next
    <2>3. CASE OfferEvicting(r, v)
      <3>1. PICK oldest \in Commands : Put(reading[r], v, {oldest})
        BY <2>3 DEF OfferEvicting
      <3>2. Fresh!Keep(r, v, {oldest})
        BY <1>4, <2>3, <3>1, KeepStep DEF Offer, OfferEvicting
      <3> QED
        BY <3>2 DEF Fresh!Next
    <2> QED
      BY <1>4, <2>1, <2>2, <2>3 DEF Offer
  <1>5. ASSUME NEW ks \in SUBSET Keys, Invalidate(ks) PROVE Fresh!Next
    BY <1>5, InvalidateStep DEF Fresh!Next
  <1>6. CASE InvalidateAll
    BY <1>6, InvalidateAllStep DEF Fresh!Next
  <1>7. CASE Clear
    BY <1>7 DEF Clear, Forget, readerVars, Fresh!Clear, Fresh!Next
  <1>8. CASE UNCHANGED vars
    BY <1>8, InvisibleStep DEF vars, cacheVars
  <1> QED
    BY <1>1, <1>2, <1>3, <1>4, <1>5, <1>6, <1>7, <1>8 DEF Next

\* A reply that an invalidation of its key overtook is never stored, and an
\* invalidation removes every reply stored for its keys.
THEOREM ImplementsFreshStore == Spec => FreshnessContract
  BY FreshInit, FreshNext, TypeCorrect, IndexCorrect, TicketsCorrect, PTL
  DEF Spec, FreshnessContract, Fresh!Spec
=============================================================================
