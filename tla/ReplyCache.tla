----------------------------- MODULE ReplyCache -----------------------------
(***************************************************************************)
(* The pool-wide client-side cache (resp3_wire/cache.py).                  *)
(*                                                                         *)
(* Every method of the class runs under the cache's own lock, so each is   *)
(* one action.  The callers are Connection.execute on any thread: such a   *)
(* reader takes the generation of its key, does its round trip with no     *)
(* lock held, and offers the reply together with the generation it took.   *)
(* Invalidations, flushes, clears and other readers happen in between.     *)
(***************************************************************************)
EXTENDS Naturals, FiniteSets

CONSTANTS
    Keys,             \* the Redis keys
    Commands,         \* encoded read-only single-key commands
    KeyOf,            \* the key each command reads
    Values,           \* the replies a server may give
    Miss,             \* cache.py's MISS, which is no reply
    Readers,          \* threads inside a cacheable execute()
    NoCommand,        \* stands for "not reading"
    MaxEntries,       \* the bound the cache was built with
    MaxLookups,       \* bound: how often get() is called
    MaxInvalidations  \* bound: how many invalidation frames arrive

ASSUME KeyOfAssumption == KeyOf \in [Commands -> Keys]
ASSUME MissAssumption == Miss \notin Values
ASSUME NoCommandAssumption == NoCommand \notin Commands
ASSUME MaxEntriesAssumption == MaxEntries \in Nat \ {0}
ASSUME CommandsAssumption == IsFiniteSet(Commands)

VARIABLES
    entries,      \* _entries: command -> reply, Miss where absent
    before,       \* the insertion order of _entries: pairs <<older, newer>>
    byKey,        \* _by_key: key -> the commands stored for it
    generation,   \* _generation: key -> invalidations naming it
    epoch,        \* _epoch: flushes so far
    hits,         \* _hits
    misses,       \* _misses
    invalidations,\* _invalidations
    reading,      \* per reader, the command in flight (a local of execute)
    ticket,       \* per reader, the generation it took (a local of execute)
    overtaken     \* history: the readers whose key was invalidated since then

cacheVars == <<entries, before, byKey>>
clockVars == <<generation, epoch>>
statVars == <<hits, misses, invalidations>>
readerVars == <<reading, ticket, overtaken>>
vars == <<cacheVars, clockVars, statVars, readerVars>>

NoTicket == <<0, 0>>

Init ==
    /\ entries = [c \in Commands |-> Miss]
    /\ before = {}
    /\ byKey = [k \in Keys |-> {}]
    /\ generation = [k \in Keys |-> 0]
    /\ epoch = 0
    /\ hits = 0
    /\ misses = 0
    /\ invalidations = 0
    /\ reading = [r \in Readers |-> NoCommand]
    /\ ticket = [r \in Readers |-> NoTicket]
    /\ overtaken = {}

Cached == {c \in Commands : entries[c] # Miss}

-----------------------------------------------------------------------------
\* Reading.

\* get() for a command: a hit leaves the entry where it is in the order.
Get(c) ==
    /\ hits + misses < MaxLookups
    /\ IF entries[c] # Miss
         THEN hits' = hits + 1 /\ UNCHANGED misses
         ELSE misses' = misses + 1 /\ UNCHANGED hits
    /\ UNCHANGED <<cacheVars, clockVars, invalidations, readerVars>>

\* The pair that generation() returns for a key.
GenerationOf(k) == <<epoch, generation[k]>>

\* A reader takes its key's generation before it sends its command.
TakeGeneration(r, c) ==
    /\ reading[r] = NoCommand
    /\ reading' = [reading EXCEPT ![r] = c]
    /\ ticket' = [ticket EXCEPT ![r] = GenerationOf(KeyOf[c])]
    /\ UNCHANGED <<cacheVars, clockVars, statVars, overtaken>>

\* The command failed: execute() raises and offers nothing.
Abandon(r) ==
    /\ reading[r] # NoCommand
    /\ reading' = [reading EXCEPT ![r] = NoCommand]
    /\ ticket' = [ticket EXCEPT ![r] = NoTicket]
    /\ overtaken' = overtaken \ {r}
    /\ UNCHANGED <<cacheVars, clockVars, statVars>>

-----------------------------------------------------------------------------
\* Writing: offer(), which refuses, stores, or evicts the oldest and stores.

\* No invalidation of the reader's key has been seen since it took its ticket.
Current(r) == ticket[r] = GenerationOf(KeyOf[reading[r]])

\* The command replaces its own entry, or the cache is below its bound.
HasRoom(c) == c \in Cached \/ Cardinality(Cached) < MaxEntries

\* next(iter(_entries)): nothing cached is older.
Oldest(c) == c \in Cached /\ \A d \in Cached : <<d, c>> \notin before

\* Mutant: the evicted commands stay in the index.
PutLeavingIndex(c, v, gone) ==
    /\ entries' = [d \in Commands |->
                     IF d = c THEN v ELSE IF d \in gone THEN Miss ELSE entries[d]]
    /\ byKey' = [byKey EXCEPT ![KeyOf[c]] = @ \cup {c}]
    /\ before' = {p \in before : p[1] \notin gone /\ p[2] \notin gone} \cup
                 {p \in (Cached \ gone) \X {c} : c \notin Cached}

\* _forget_locked() for the commands in gone, then the new entry.  A command
\* already cached keeps its place in the order, as a dict's key does.
Put(c, v, gone) ==
    /\ entries' = [d \in Commands |->
                     IF d = c THEN v ELSE IF d \in gone THEN Miss ELSE entries[d]]
    /\ byKey' = [k \in Keys |->
                     (byKey[k] \ gone) \cup (IF k = KeyOf[c] THEN {c} ELSE {})]
    /\ before' = {p \in before : p[1] \notin gone /\ p[2] \notin gone} \cup
                 {p \in (Cached \ gone) \X {c} : c \notin Cached}

OfferRefused(r) ==
    /\ ~Current(r)
    /\ UNCHANGED cacheVars

OfferStored(r, v) ==
    /\ Current(r)
    /\ HasRoom(reading[r])
    /\ Put(reading[r], v, {})

OfferEvicting(r, v) ==
    /\ Current(r)
    /\ ~HasRoom(reading[r])
    /\ \E oldest \in Commands : Oldest(oldest) /\ Put(reading[r], v, {oldest})

Offer(r, v) ==
    /\ reading[r] # NoCommand
    /\ \/ OfferRefused(r)
       \/ OfferStored(r, v)
       \/ OfferEvicting(r, v)
    /\ reading' = [reading EXCEPT ![r] = NoCommand]
    /\ ticket' = [ticket EXCEPT ![r] = NoTicket]
    /\ overtaken' = overtaken \ {r}
    /\ UNCHANGED <<clockVars, statVars>>

-----------------------------------------------------------------------------
\* Invalidation and maintenance.

\* Drops the entries the index names, and only those.
Forget(cs) ==
    /\ entries' = [c \in Commands |-> IF c \in cs THEN Miss ELSE entries[c]]
    /\ before' = {p \in before : p[1] \notin cs /\ p[2] \notin cs}

\* History: the readers of these keys may be holding an answer that is now old.
Overtake(ks) ==
    overtaken' = overtaken \cup
        {r \in Readers : reading[r] # NoCommand /\ KeyOf[reading[r]] \in ks}

\* Mutant: the generation of a key nothing is cached for is forgotten.
DropKeysForgetting(ks) ==
    /\ generation' = [k \in Keys |-> IF k \notin ks THEN generation[k]
                                     ELSE IF byKey[k] = {} THEN 0 ELSE generation[k] + 1]
    /\ Forget(UNION {byKey[k] : k \in ks})
    /\ byKey' = [k \in Keys |-> IF k \in ks THEN {} ELSE byKey[k]]
    /\ Overtake(ks)
    /\ UNCHANGED <<epoch, reading, ticket>>

\* Mutant: the generation moves only where something was cached.
DropKeysIfCached(ks) ==
    /\ generation' = [k \in Keys |-> IF k \in ks /\ byKey[k] # {}
                                       THEN generation[k] + 1 ELSE generation[k]]
    /\ Forget(UNION {byKey[k] : k \in ks})
    /\ byKey' = [k \in Keys |-> IF k \in ks THEN {} ELSE byKey[k]]
    /\ Overtake(ks)
    /\ UNCHANGED <<epoch, reading, ticket>>

\* invalidate(): the generation moves whether or not anything was cached.
DropKeys(ks) ==
    /\ generation' = [k \in Keys |-> IF k \in ks THEN generation[k] + 1
                                                 ELSE generation[k]]
    /\ Forget(UNION {byKey[k] : k \in ks})
    /\ byKey' = [k \in Keys |-> IF k \in ks THEN {} ELSE byKey[k]]
    /\ Overtake(ks)
    /\ UNCHANGED <<epoch, reading, ticket>>

Invalidate(ks) ==
    /\ invalidations < MaxInvalidations
    /\ invalidations' = invalidations + 1
    /\ DropKeys(ks)
    /\ UNCHANGED <<hits, misses>>

\* invalidate_all(): a flush names no key, so it moves the epoch instead.
DropAll ==
    /\ epoch' = epoch + 1
    /\ Forget(Commands)
    /\ byKey' = [k \in Keys |-> {}]
    /\ Overtake(Keys)
    /\ UNCHANGED <<generation, reading, ticket>>

InvalidateAll ==
    /\ invalidations < MaxInvalidations
    /\ invalidations' = invalidations + 1
    /\ DropAll
    /\ UNCHANGED <<hits, misses>>

\* clear(): entries go, every counter and every generation stays.
Clear ==
    /\ Forget(Commands)
    /\ byKey' = [k \in Keys |-> {}]
    /\ UNCHANGED <<clockVars, statVars, readerVars>>

Next ==
    \/ \E c \in Commands : Get(c)
    \/ \E r \in Readers, c \in Commands : TakeGeneration(r, c)
    \/ \E r \in Readers : Abandon(r)
    \/ \E r \in Readers, v \in Values : Offer(r, v)
    \/ \E ks \in SUBSET Keys : Invalidate(ks)
    \/ InvalidateAll
    \/ Clear

Spec == Init /\ [][Next]_vars

-----------------------------------------------------------------------------
\* Properties.

\* Every variable holds a value of its type; a ticket is a pair of counters.
TypeOK ==
    /\ entries \in [Commands -> Values \cup {Miss}]
    /\ before \subseteq Commands \X Commands
    /\ byKey \in [Keys -> SUBSET Commands]
    /\ generation \in [Keys -> Nat]
    /\ epoch \in Nat
    /\ hits \in Nat /\ misses \in Nat /\ invalidations \in Nat
    /\ reading \in [Readers -> Commands \cup {NoCommand}]
    /\ ticket \in [Readers -> Nat \X Nat]
    /\ overtaken \subseteq Readers

\* The index finds every entry and nothing else: a cached reply missing from
\* _by_key would survive every invalidation of its key, and a command left in
\* it after an eviction would be dropped on behalf of a key it does not read.
IndexExact ==
    \A k \in Keys : byKey[k] = {c \in Cached : KeyOf[c] = k}

\* The cache never holds more entries than it was built for, whatever the order
\* of offers, evictions, replacements and invalidations.
Bounded == Cardinality(Cached) <= MaxEntries

\* The insertion order is a strict total order on exactly the cached commands,
\* so there is always one oldest entry for offer() to evict.
InsertionOrder ==
    /\ before \subseteq Cached \X Cached
    /\ \A c, d \in Cached :
          c # d => (<<c, d>> \in before <=> <<d, c>> \notin before)
    /\ \A c \in Cached : <<c, c>> \notin before
    /\ \A c, d, e \in Cached :
          <<c, d>> \in before /\ <<d, e>> \in before => <<c, e>> \in before

\* No ticket is ahead of the counters it is compared with: a counter that went
\* back would make an overtaken reader's ticket current again.
TicketsBehind ==
    \A r \in Readers : reading[r] # NoCommand =>
        /\ ticket[r][1] <= epoch
        /\ ticket[r][2] <= generation[KeyOf[reading[r]]]

\* The comparison offer() makes tells the overtaken readers from the others:
\* a counter that failed to move, or came back to where it was, would pass an
\* old reply for a fresh one; one that moved too often would refuse a fresh one.
TicketsTell ==
    \A r \in Readers : reading[r] # NoCommand => (Current(r) <=> r \notin overtaken)

Fresh == INSTANCE FreshStore WITH store <- entries

\* The class implements FreshStore: a reply read before an invalidation of its
\* key, by name or by a flush, is never stored, and one that was not overtaken
\* always is (cache.py's "a caller records a key's generation before it sends
\* the command and offers the value back with that generation afterwards").
FreshnessContract == Fresh!Spec
=============================================================================
