----------------------------- MODULE FreshStore -----------------------------
(***************************************************************************)
(* What the client-side cache promises, without saying how.                *)
(*                                                                         *)
(* A store of command replies is filled by readers.  A reader begins a     *)
(* read, and finishes it by handing its reply over.  If the key it is      *)
(* reading is invalidated in between, the reader is overtaken, and its     *)
(* reply is refused.  An invalidation removes at once everything the store *)
(* holds for the keys it names.  So nothing the store answers was read     *)
(* before the last invalidation of its key.                                *)
(***************************************************************************)
CONSTANTS
    Keys,       \* the Redis keys
    Commands,   \* the read-only single-key commands
    KeyOf,      \* the key each command reads
    Values,     \* the replies
    Miss,       \* stands for "not stored"
    Readers,    \* the callers that read through the store
    NoCommand   \* stands for "this reader reads nothing"

VARIABLES
    store,      \* the reply kept for each command, or Miss
    reading,    \* the command each reader has in flight, or NoCommand
    overtaken   \* the readers whose key was invalidated since they began

vars == <<store, reading, overtaken>>

Init ==
    /\ store = [c \in Commands |-> Miss]
    /\ reading = [r \in Readers |-> NoCommand]
    /\ overtaken = {}

\* A reader remembers that it is about to ask the server.
Begin(r, c) ==
    /\ reading[r] = NoCommand
    /\ reading' = [reading EXCEPT ![r] = c]
    /\ UNCHANGED <<store, overtaken>>

\* A reader that was not overtaken stores its reply.  The store is bounded, so
\* it may forget other commands to make room; it forgets no more than that.
Keep(r, v, forgotten) ==
    /\ reading[r] # NoCommand
    /\ r \notin overtaken
    /\ store' = [c \in Commands |->
                    IF c = reading[r] THEN v
                    ELSE IF c \in forgotten THEN Miss ELSE store[c]]
    /\ reading' = [reading EXCEPT ![r] = NoCommand]
    /\ UNCHANGED overtaken

\* A reader that was overtaken, or whose command failed, stores nothing.
GiveUp(r) ==
    /\ reading[r] # NoCommand
    /\ reading' = [reading EXCEPT ![r] = NoCommand]
    /\ overtaken' = overtaken \ {r}
    /\ UNCHANGED store

\* The server says that every reply depending on these keys is out of date.
Invalidate(ks) ==
    /\ store' = [c \in Commands |-> IF KeyOf[c] \in ks THEN Miss ELSE store[c]]
    /\ overtaken' = overtaken \cup
          {r \in Readers : reading[r] # NoCommand /\ KeyOf[reading[r]] \in ks}
    /\ UNCHANGED reading

\* The program empties the store; reads in flight may still be stored.
Clear ==
    /\ store' = [c \in Commands |-> Miss]
    /\ UNCHANGED <<reading, overtaken>>

Next ==
    \/ \E r \in Readers, c \in Commands : Begin(r, c)
    \/ \E r \in Readers, v \in Values, forgotten \in SUBSET Commands :
          Keep(r, v, forgotten)
    \/ \E r \in Readers : GiveUp(r)
    \/ \E ks \in SUBSET Keys : Invalidate(ks)
    \/ Clear

Spec == Init /\ [][Next]_vars
=============================================================================
