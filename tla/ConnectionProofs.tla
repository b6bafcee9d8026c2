-------------------------- MODULE ConnectionProofs --------------------------
(***************************************************************************)
(* Replies are read in order whatever the connection goes through, for all *)
(* configurations, batches and numbers of commands and pushes, as long as  *)
(* the server does not put an attribute in front of a push.                *)
(*                                                                         *)
(* What a connection that can be used knows of its server rests on that:   *)
(* which pushes it has been sent, what session connect() has set up,       *)
(* whether a transaction is open, and that what it keeps in the cache will *)
(* be invalidated.                                                         *)
(***************************************************************************)
EXTENDS Connection, FiniteSetTheorems, TLAPS

\* What the theorems ask of the server.
PushesBare == "wraps pushes" \notin Quirks

\* The frames s follow a stream of which t replies were read, and end where
\* the server has answered v commands: numbers grow by one with every reply
\* and not with a push.
Stream(s, t, v) ==
    /\ \A i \in 1..Len(s) : s[i].kind \in {"reply", "push", "invalidate"}
    /\ \A i \in 1..Len(s) : t <= s[i].at /\ s[i].at <= v
    /\ \A i \in 1..Len(s) : s[i].kind = "reply" => t < s[i].at
    /\ \A i, j \in 1..Len(s) :
          i < j => /\ s[i].at <= s[j].at
                   /\ s[j].kind = "reply" => s[i].at < s[j].at
    /\ s # <<>> => s[1].at = IF s[1].kind = "reply" THEN t + 1 ELSE t
    /\ \A i \in 1..(Len(s) - 1) :
          s[i + 1].at = IF s[i + 1].kind = "reply" THEN s[i].at + 1 ELSE s[i].at
    /\ v = IF s = <<>> THEN t ELSE s[Len(s)].at

\* How many replies are due, by where the call is.
Due ==
    /\ pc \in Draining \cup {"out"} => taken = written /\ sending = <<>>
    /\ sending # <<>> => taken = written
    /\ pc \in Negotiating \cup {"roundtrip"} =>
          IF sending = <<>> THEN written = taken + 1 ELSE Len(sending) = 1
    /\ pc = "batch" /\ sending = <<>> => taken < written

Aligned ==
    /\ Usable => Stream(incoming, taken, served)
    /\ Usable => served + Len(requests) <= written
    /\ Usable => Due
    /\ pc \in Negotiating \cup {"roundtrip", "batch"} => Usable
    /\ ~Usable => sending = <<>>
Inv == PushesBare /\ TypeOK /\ Aligned

-----------------------------------------------------------------------------
\* Streams grow at the end and are read from the front.

LEMMA FrameNumbers == \A s \in Seq(Frames) : \A i \in 1..Len(s) : s[i].at \in Nat
  <1>1. \A f \in Frames : f.at \in Nat
    BY DEF Frames
  <1>2. ASSUME NEW s \in Seq(Frames), NEW i \in 1..Len(s) PROVE s[i] \in Frames
    OBVIOUS
  <1> HIDE DEF Frames
  <1> QED
    BY <1>1, <1>2

LEMMA AppendFacts ==
  ASSUME NEW S, NEW s \in Seq(S), NEW f \in S
  PROVE  /\ Len(Append(s, f)) = Len(s) + 1 /\ Len(s) \in Nat
         /\ \A i \in 1..Len(s) : Append(s, f)[i] = s[i]
         /\ Append(s, f)[Len(s) + 1] = f
         /\ Append(s, f) # <<>>
         /\ Append(s, f) \in Seq(S)
  OBVIOUS

LEMMA TailFacts ==
  ASSUME NEW S, NEW s \in Seq(S), s # <<>>
  PROVE  /\ Len(s) \in Nat /\ Len(s) >= 1 /\ Len(Tail(s)) = Len(s) - 1
         /\ Head(s) = s[1] /\ Head(s) \in S
         /\ \A i \in 1..Len(Tail(s)) : Tail(s)[i] = s[i + 1]
         /\ Tail(s) = <<>> <=> Len(Tail(s)) = 0
         /\ Tail(s) \in Seq(S)
  <1>1. Len(s) \in Nat /\ Len(s) >= 1
    OBVIOUS
  <1>2. Tail(s) \in Seq(S) /\ Len(Tail(s)) = Len(s) - 1
    OBVIOUS
  <1>3. Head(s) = s[1] /\ Head(s) \in S
    BY <1>1
  <1>4. \A i \in 1..Len(Tail(s)) : Tail(s)[i] = s[i + 1]
    BY <1>1, <1>2
  <1>5. Tail(s) = <<>> <=> Len(Tail(s)) = 0
    <2>1. ASSUME NEW r \in Seq(S) PROVE r = <<>> <=> Len(r) = 0
      OBVIOUS
    <2> QED BY <1>2, <2>1
  <1> QED
    BY <1>1, <1>2, <1>3, <1>4, <1>5

LEMMA StreamReplied ==
  ASSUME NEW s \in Seq(Frames), NEW t \in Nat, NEW v \in Nat, Stream(s, t, v),
         NEW f \in Frames, f.kind = "reply", f.at = v + 1
  PROVE  Stream(Append(s, f), t, v + 1)
  <1> DEFINE r == Append(s, f)
  <1>1. /\ Len(r) = Len(s) + 1 /\ Len(s) \in Nat
        /\ \A i \in 1..Len(s) : r[i] = s[i] /\ s[i].at \in Nat
        /\ r[Len(s) + 1] = f /\ r # <<>>
    BY FrameNumbers, AppendFacts
  <1>2. t <= v
    BY <1>1 DEF Stream
  <1> HIDE DEF r
  <1>3. \A i \in 1..Len(r) : r[i].kind \in {"reply", "push", "invalidate"}
    BY <1>1 DEF Stream
  <1>4. \A i \in 1..Len(r) : t <= r[i].at /\ r[i].at <= v + 1
    BY <1>1, <1>2 DEF Stream
  <1>5. \A i \in 1..Len(r) : r[i].kind = "reply" => t < r[i].at
    <2>1. \A i \in 1..Len(s) : r[i].kind = "reply" => t < r[i].at
      BY <1>1 DEF Stream
    <2>2. r[Len(s) + 1].kind = "reply" => t < r[Len(s) + 1].at
      BY <1>1, <1>2
    <2> QED BY <1>1, <2>1, <2>2
  <1>6. \A i, j \in 1..Len(r) :
          i < j => /\ r[i].at <= r[j].at
                   /\ r[j].kind = "reply" => r[i].at < r[j].at
    <2> SUFFICES ASSUME NEW i \in 1..Len(r), NEW j \in 1..Len(r), i < j
                 PROVE  /\ r[i].at <= r[j].at
                        /\ r[j].kind = "reply" => r[i].at < r[j].at
      OBVIOUS
    <2>1. i \in 1..Len(s)
      BY <1>1
    <2>2. CASE j \in 1..Len(s)
      BY <1>1, <2>1, <2>2 DEF Stream
    <2>3. CASE j = Len(s) + 1
      BY <1>1, <2>1, <2>3 DEF Stream
    <2> QED BY <1>1, <2>2, <2>3
  <1>7. r[1].at = IF r[1].kind = "reply" THEN t + 1 ELSE t
    <2>1. CASE s = <<>>
      BY <1>1, <2>1 DEF Stream
    <2>2. CASE s # <<>>
      BY <1>1, <2>2 DEF Stream
    <2> QED BY <2>1, <2>2
  <1>8. \A i \in 1..(Len(r) - 1) :
          r[i + 1].at = IF r[i + 1].kind = "reply" THEN r[i].at + 1 ELSE r[i].at
    <2> SUFFICES ASSUME NEW i \in 1..Len(s)
                 PROVE  r[i + 1].at = IF r[i + 1].kind = "reply" THEN r[i].at + 1 ELSE r[i].at
      BY <1>1
    <2>1. CASE i = Len(s)
      BY <1>1, <2>1 DEF Stream
    <2>2. CASE i # Len(s)
      BY <1>1, <2>2 DEF Stream
    <2> QED BY <2>1, <2>2
  <1> QED
    BY <1>1, <1>3, <1>4, <1>5, <1>6, <1>7, <1>8 DEF Stream, r

LEMMA StreamPushed ==
  ASSUME NEW s \in Seq(Frames), NEW t \in Nat, NEW v \in Nat, Stream(s, t, v),
         NEW f \in Frames, f.kind \in {"push", "invalidate"}, f.at = v
  PROVE  Stream(Append(s, f), t, v)
  <1> DEFINE r == Append(s, f)
  <1>1. /\ Len(r) = Len(s) + 1 /\ Len(s) \in Nat
        /\ \A i \in 1..Len(s) : r[i] = s[i] /\ s[i].at \in Nat
        /\ r[Len(s) + 1] = f /\ r # <<>> /\ f.kind # "reply"
    BY FrameNumbers, AppendFacts
  <1>2. t <= v
    BY <1>1 DEF Stream
  <1> HIDE DEF r
  <1>3. \A i \in 1..Len(r) : r[i].kind \in {"reply", "push", "invalidate"}
    BY <1>1 DEF Stream
  <1>4. \A i \in 1..Len(r) : t <= r[i].at /\ r[i].at <= v
    BY <1>1, <1>2 DEF Stream
  <1>5. \A i \in 1..Len(r) : r[i].kind = "reply" => t < r[i].at
    <2>1. \A i \in 1..Len(s) : r[i].kind = "reply" => t < r[i].at
      BY <1>1 DEF Stream
    <2>2. r[Len(s) + 1].kind = "reply" => t < r[Len(s) + 1].at
      BY <1>1, <1>2
    <2> QED BY <1>1, <2>1, <2>2
  <1>6. \A i, j \in 1..Len(r) :
          i < j => /\ r[i].at <= r[j].at
                   /\ r[j].kind = "reply" => r[i].at < r[j].at
    <2> SUFFICES ASSUME NEW i \in 1..Len(r), NEW j \in 1..Len(r), i < j
                 PROVE  /\ r[i].at <= r[j].at
                        /\ r[j].kind = "reply" => r[i].at < r[j].at
      OBVIOUS
    <2>1. i \in 1..Len(s)
      BY <1>1
    <2>2. CASE j \in 1..Len(s)
      BY <1>1, <2>1, <2>2 DEF Stream
    <2>3. CASE j = Len(s) + 1
      BY <1>1, <2>1, <2>3 DEF Stream
    <2> QED BY <1>1, <2>2, <2>3
  <1>7. r[1].at = IF r[1].kind = "reply" THEN t + 1 ELSE t
    <2>1. CASE s = <<>>
      BY <1>1, <2>1 DEF Stream
    <2>2. CASE s # <<>>
      BY <1>1, <2>2 DEF Stream
    <2> QED BY <2>1, <2>2
  <1>8. \A i \in 1..(Len(r) - 1) :
          r[i + 1].at = IF r[i + 1].kind = "reply" THEN r[i].at + 1 ELSE r[i].at
    <2> SUFFICES ASSUME NEW i \in 1..Len(s)
                 PROVE  r[i + 1].at = IF r[i + 1].kind = "reply" THEN r[i].at + 1 ELSE r[i].at
      BY <1>1
    <2>1. CASE i = Len(s)
      BY <1>1, <2>1 DEF Stream
    <2>2. CASE i # Len(s)
      BY <1>1, <2>2 DEF Stream
    <2> QED BY <2>1, <2>2
  <1> QED
    BY <1>1, <1>3, <1>4, <1>5, <1>6, <1>7, <1>8 DEF Stream, r

\* What is left when the first frame is taken, n replies having been read then.
LEMMA StreamTaken ==
  ASSUME NEW s \in Seq(Frames), NEW t \in Nat, NEW v \in Nat, Stream(s, t, v),
         s # <<>>
  PROVE  Stream(Tail(s), Head(s).at, v)
  <1> DEFINE r == Tail(s)
             n == Head(s).at
  <1>1. /\ Len(s) \in Nat /\ Len(s) >= 1 /\ Len(r) = Len(s) - 1 /\ n = s[1].at
        /\ \A i \in 1..Len(r) : r[i] = s[i + 1]
        /\ \A i \in 1..Len(s) : s[i].at \in Nat
        /\ r = <<>> <=> Len(r) = 0
    BY FrameNumbers, TailFacts
  <1> HIDE DEF r, n
  <1>0. \A i \in 1..Len(r) : i + 1 \in 2..Len(s)
    BY <1>1
  <1>2. \A i \in 1..Len(r) : r[i].kind \in {"reply", "push", "invalidate"}
    BY <1>1 DEF Stream
  <1>3. \A i \in 1..Len(r) : n <= r[i].at /\ r[i].at <= v
    <2> SUFFICES ASSUME NEW i \in 1..Len(r) PROVE n <= r[i].at /\ r[i].at <= v
      OBVIOUS
    <2>1. 1 \in 1..Len(s) /\ i + 1 \in 1..Len(s) /\ 1 < i + 1
      BY <1>1
    <2> QED
      BY <1>1, <2>1 DEF Stream
  <1>4. \A i \in 1..Len(r) : r[i].kind = "reply" => n < r[i].at
    BY <1>1 DEF Stream
  <1>5. \A i, j \in 1..Len(r) :
          i < j => /\ r[i].at <= r[j].at
                   /\ r[j].kind = "reply" => r[i].at < r[j].at
    <2> SUFFICES ASSUME NEW i \in 1..Len(r), NEW j \in 1..Len(r), i < j
                 PROVE  /\ r[i].at <= r[j].at
                        /\ r[j].kind = "reply" => r[i].at < r[j].at
      OBVIOUS
    <2>1. i + 1 \in 1..Len(s) /\ j + 1 \in 1..Len(s) /\ i + 1 < j + 1
      BY <1>1
    <2>2. r[i] = s[i + 1] /\ r[j] = s[j + 1]
      BY <1>1
    <2> QED
      BY <2>1, <2>2 DEF Stream
  <1>6. r # <<>> => r[1].at = IF r[1].kind = "reply" THEN n + 1 ELSE n
    BY <1>1 DEF Stream
  <1>7. \A i \in 1..(Len(r) - 1) :
          r[i + 1].at = IF r[i + 1].kind = "reply" THEN r[i].at + 1 ELSE r[i].at
    <2> SUFFICES ASSUME NEW i \in 1..(Len(r) - 1)
                 PROVE  r[i + 1].at = IF r[i + 1].kind = "reply" THEN r[i].at + 1 ELSE r[i].at
      OBVIOUS
    <2>1. i + 1 \in 1..(Len(s) - 1) /\ r[i] = s[i + 1] /\ r[i + 1] = s[(i + 1) + 1]
      BY <1>1
    <2> QED
      BY <2>1 DEF Stream
  <1>8. v = IF r = <<>> THEN n ELSE r[Len(r)].at
    BY <1>1 DEF Stream
  <1> QED
    BY <1>2, <1>3, <1>4, <1>5, <1>6, <1>7, <1>8 DEF Stream, r, n

-----------------------------------------------------------------------------
\* Types.

LEMMA EmptyTyped ==
  /\ <<>> \in Seq(Commands) /\ <<>> \in Seq(Frames) /\ Len(<<>>) = 0
  OBVIOUS

LEMMA Widen == \A n \in Nat : n + 1 \in Nat /\ 0..n \subseteq 0..(n + 1)
  OBVIOUS

LEMMA NegotiateGoes ==
  ASSUME NEW i, NEW v, NegotiateAfter(i, v)
  PROVE  \/ pc' = "out" /\ sending' = <<>>
         \/ pc' \in Negotiating /\ sending' = <<pc'>>
  <1>1. CASE {j \in 1..4 : j > i /\ Wanted(Steps[j], v)} = {}
    BY <1>1 DEF NegotiateAfter
  <1>2. CASE {j \in 1..4 : j > i /\ Wanted(Steps[j], v)} # {}
    <2>1. PICK j \in 1..4 : pc' = Steps[j] /\ sending' = <<Steps[j]>>
      BY <1>2 DEF NegotiateAfter
    <2>2. Steps[j] \in Negotiating
      BY DEF Steps, Negotiating
    <2> QED BY <2>1, <2>2
  <1> QED BY <1>1, <1>2

LEMMA NegotiateTyped ==
  ASSUME NEW i, NEW v, NegotiateAfter(i, v)
  PROVE  pc' \in Labels /\ sending' \in Seq(Commands) /\ pc' # "before"
  <1>1. CASE pc' = "out" /\ sending' = <<>>
    BY <1>1, EmptyTyped DEF Labels
  <1>2. CASE pc' \in Negotiating /\ sending' = <<pc'>>
    <2>1. \A c \in Negotiating : <<c>> \in Seq(Commands)
      BY DEF Commands
    <2> QED BY <1>2, <2>1 DEF Labels, Negotiating
  <1> QED BY <1>1, <1>2, NegotiateGoes

LEMMA Served ==
  ASSUME session \in Sessions, config \in AllConfigs, NEW op \in Commands,
         NEW a \in Granted(op) \cup Refused(op)
  PROVE  /\ a.session \in Sessions
         /\ a.as \in {"ok", "value", "untracked", "queued", "error", "garbage", "odd"}
  <1>0. /\ \A b \in BOOLEAN : [session EXCEPT !.proto = 3, !.named = b] \in Sessions
        /\ [session EXCEPT !.tracking = TRUE] \in Sessions
        /\ [session EXCEPT !.db = TRUE] \in Sessions
        /\ [session EXCEPT !.named = TRUE] \in Sessions
        /\ [session EXCEPT !.multi = TRUE] \in Sessions
        /\ [session EXCEPT !.multi = FALSE] \in Sessions
        /\ FreshSession \in Sessions
        /\ config.named \in BOOLEAN
    BY DEF Sessions, AllConfigs, FreshSession
  <1> DEFINE Fine(x) == /\ x.session \in Sessions
                        /\ x.as \in {"ok", "value", "untracked", "queued", "error",
                                     "garbage", "odd"}
  <1>1. CASE a \in Granted(op)
    <2>1. CASE op = "HELLO"
      <3>1. a = [as |-> "ok", session |-> [session EXCEPT !.proto = 3, !.named = config.named]]
        BY <1>1, <2>1 DEF Granted
      <3> QED BY <3>1, <1>0
    <2>2. CASE op = "TRACKING"
      <3>1. a = [as |-> "ok", session |-> [session EXCEPT !.tracking = TRUE]]
        BY <1>1, <2>2 DEF Granted
      <3> QED BY <3>1, <1>0
    <2>3. CASE op = "SELECT"
      <3>1. a = [as |-> "ok", session |-> [session EXCEPT !.db = TRUE]]
        BY <1>1, <2>3 DEF Granted
      <3> QED BY <3>1, <1>0
    <2>4. CASE op = "SETNAME"
      <3>1. a = [as |-> "ok", session |-> [session EXCEPT !.named = TRUE]]
        BY <1>1, <2>4 DEF Granted
      <3> QED BY <3>1, <1>0
    <2>5. CASE op = "MULTI"
      <3>1. a = [as |-> "ok", session |-> [session EXCEPT !.multi = TRUE]]
        BY <1>1, <2>5 DEF Granted
      <3> QED BY <3>1, <1>0
    <2>6. CASE op = "RESET"
      <3>1. a = [as |-> "ok", session |-> FreshSession]
        BY <1>1, <2>6 DEF Granted
      <3> QED BY <3>1, <1>0
    <2>7. CASE op = "EXEC"
      <3>1. PICK x \in {"ok", "error"} :
                a = [as |-> x, session |-> [session EXCEPT !.multi = FALSE]]
        BY <1>1, <2>7 DEF Granted
      <3> QED BY <3>1, <1>0
    <2>8. CASE op \in {"SET", "GET"}
      <3>1. a.session = session /\ a.as \in {"queued", "ok", "value", "untracked"}
        BY <1>1, <2>8 DEF Granted
      <3> QED BY <3>1
    <2> QED
      BY <2>1, <2>2, <2>3, <2>4, <2>5, <2>6, <2>7, <2>8
      DEF Commands, AllCommands, Negotiating
  <1>2. CASE a \in Refused(op)
    <2>1. PICK x \in {"error", "garbage", "odd"} : a = [as |-> x, session |-> session]
      BY <1>2 DEF Refused
    <2> QED BY <2>1
  <1> QED BY <1>1, <1>2

LEMMA ReplyTyped ==
  ASSUME NEW as \in {"ok", "value", "untracked", "queued", "error", "garbage", "odd"},
         NEW n \in Nat
  PROVE  Reply(as, n) \in Frames /\ Reply(as, n).kind = "reply" /\ Reply(as, n).at = n
  BY DEF Reply, Frames

LEMMA PushTyped ==
  ASSUME NEW kind \in {"push", "invalidate", "wrapped push"}, NEW n \in Nat
  PROVE  [kind |-> kind, as |-> "push", at |-> n] \in Frames
  BY DEF Frames

LEMMA InitTyped == Init => TypeOK
  <1> SUFFICES ASSUME Init PROVE TypeOK
    OBVIOUS
  <1>1. config \in AllConfigs /\ ClientTyped
    BY ConfigsAssumption, EmptyTyped DEF Init, ClientTyped
  <1>2. CallTyped /\ CountTyped
    BY EmptyTyped DEF Init, CallTyped, CountTyped, Labels, Answers
  <1>3. ServerTyped
    BY EmptyTyped DEF Init, ServerTyped, Sessions, FreshSession
  <1>4. StreamTyped
    BY EmptyTyped DEF Init, StreamTyped
  <1> QED
    BY <1>1, <1>2, <1>3, <1>4 DEF TypeOK

LEMMA SteadyTyped ==
  ASSUME TypeOK
  PROVE  /\ UNCHANGED config => (config \in AllConfigs)'
         /\ UNCHANGED clientVars => ClientTyped'
         /\ UNCHANGED callVars => CallTyped'
         /\ UNCHANGED serverVars => ServerTyped'
         /\ UNCHANGED streamVars => StreamTyped'
         /\ UNCHANGED <<countVars, sentVars, connects>> => CountTyped'
  BY DEF TypeOK, ClientTyped, CallTyped, ServerTyped, StreamTyped, CountTyped, clientVars,
     callVars, serverVars, streamVars, countVars, sentVars

LEMMA HangupTyped ==
  ASSUME Hangup, ServerTyped, UNCHANGED <<session, served>>
  PROVE  open' \in BOOLEAN /\ ServerTyped' /\ StreamTyped'
  <1>1. open' = FALSE /\ alive' = FALSE /\ requests' = <<>> /\ incoming' = <<>> /\ fed' = 0
    BY DEF Hangup
  <1>2. ServerTyped'
    BY <1>1, EmptyTyped DEF ServerTyped
  <1>3. 0 \in 0..Len(<<>>)
    BY EmptyTyped
  <1>4. StreamTyped'
    BY <1>1, <1>3, EmptyTyped, Zenon DEF StreamTyped
  <1> QED
    BY <1>1, <1>2, <1>4

\* A raise keeps the types of the call, the stream and the server.
LEMMA RaiseTyped ==
  ASSUME TypeOK, Raise, UNCHANGED <<answer, ticket, entry, session, served>>
  PROVE  /\ CallTyped' /\ ServerTyped' /\ StreamTyped' /\ open' \in BOOLEAN
         /\ pc' = "out" /\ sending' = <<>>
  <1>1. CallTyped' /\ pc' = "out" /\ sending' = <<>>
    BY EmptyTyped DEF TypeOK, CallTyped, Raise, Labels
  <1>2. CASE Hangup
    BY <1>1, <1>2, HangupTyped DEF TypeOK
  <1>3. CASE UNCHANGED <<open, alive, requests, incoming, fed>>
    BY <1>1, <1>3 DEF TypeOK, ClientTyped, ServerTyped, StreamTyped
  <1> QED
    BY <1>1, <1>2, <1>3 DEF Raise

LEMMA Answerable ==
  /\ {"ok", "value", "untracked", "queued", "push"} \subseteq Answers
  /\ "none" \in Answers
  BY DEF Answers

LEMMA TakeTyped ==
  ASSUME StreamTyped, fed > 0
  PROVE  /\ incoming # <<>> /\ Head(incoming) \in Frames
         /\ TakeFrame => StreamTyped'
  <1>1. incoming \in Seq(Frames) /\ incoming # <<>> /\ Len(incoming) \in Nat
    BY DEF StreamTyped
  <1>2. Tail(incoming) \in Seq(Frames) /\ Len(Tail(incoming)) = Len(incoming) - 1
        /\ Head(incoming) \in Frames
    BY <1>1, TailFacts
  <1> QED
    BY <1>1, <1>2 DEF StreamTyped, TakeFrame

\* Every step that reads a reply.
ReadSteps == \/ HelloAnswered \/ HelloRefused \/ HelloUnusable \/ TrackingAnswered
             \/ SetupAnswered \/ CommandAnswered \/ SlotFilled

LEMMA ReadTyped ==
  ASSUME TypeOK, ReadSteps
  PROVE  TypeOK'
  <1>1. PICK as \in {"ok", "value", "untracked", "queued", "error", "odd", "push"} :
            ReadReply(as)
    BY DEF ReadSteps, HelloAnswered, HelloRefused, HelloUnusable, TrackingAnswered,
       SetupAnswered, CommandAnswered, SlotFilled
  <1>2. config' \in AllConfigs /\ CountTyped'
    <2>1. Head(incoming).at \in Nat
      BY <1>1, TakeTyped DEF TypeOK, ReadReply, Parsed, Frames
    <2> QED
      BY <1>1, <2>1 DEF ReadReply, TypeOK, CountTyped, sentVars
  <1>3. StreamTyped' /\ ServerTyped' /\ open' \in BOOLEAN
    <2>1. CASE Stays
      BY <1>1, <2>1, TakeTyped DEF Stays, ReadReply, Parsed, TypeOK, ServerTyped, ClientTyped
    <2>2. CASE Raise
      <3>1. CASE Hangup
        BY <1>1, <3>1, HangupTyped DEF ReadReply, TypeOK
      <3>2. CASE UNCHANGED <<open, alive, requests, incoming, fed>>
        BY <1>1, <3>2 DEF ReadReply, TypeOK, ServerTyped, StreamTyped, ClientTyped
      <3> QED BY <2>2, <3>1, <3>2 DEF Raise
    <2> QED
      BY <2>1, <2>2 DEF ReadSteps, HelloAnswered, HelloRefused, HelloUnusable,
         TrackingAnswered, SetupAnswered, CommandAnswered, SlotFilled
  <1>4. ClientTyped'
    <2>1. version' \in {0, 2, 3} /\ info' \in {"empty", "hello"} /\ inMulti' \in BOOLEAN
      BY DEF ReadSteps, HelloAnswered, HelloRefused, HelloUnusable, TrackingAnswered,
         SetupAnswered, CommandAnswered, SlotFilled, TypeOK, ClientTyped
    <2> QED
      BY <1>1, <1>3, <2>1 DEF ReadReply, TypeOK, ClientTyped
  <1>5. pc' \in Labels /\ sending' \in Seq(Commands) /\ pc' # "before"
    <2>1. CASE HelloAnswered \/ HelloRefused \/ TrackingAnswered
      BY <2>1, NegotiateTyped DEF HelloAnswered, HelloRefused, TrackingAnswered
    <2>2. CASE HelloUnusable
      BY <2>2, EmptyTyped DEF HelloUnusable, Raise, Labels
    <2>3. CASE SetupAnswered
      <3>1. CASE Raise
        BY <3>1, EmptyTyped DEF Raise, Labels
      <3>2. ASSUME NEW i \in {3, 4}, NegotiateAfter(i, version)
            PROVE  pc' \in Labels /\ sending' \in Seq(Commands) /\ pc' # "before"
        BY <3>2, NegotiateTyped
      <3> QED BY <2>3, <3>1, <3>2 DEF SetupAnswered
    <2>4. CASE CommandAnswered \/ SlotFilled
      BY <2>4 DEF CommandAnswered, SlotFilled, Labels, Draining, TypeOK, CallTyped
    <2> QED
      BY <2>1, <2>2, <2>3, <2>4 DEF ReadSteps
  <1>6. CallTyped'
    BY <1>5 DEF ReadSteps, HelloAnswered, HelloRefused, HelloUnusable, TrackingAnswered,
       SetupAnswered, CommandAnswered, SlotFilled, TypeOK, CallTyped, Answers, Raise
  <1> QED
    BY <1>2, <1>3, <1>4, <1>6 DEF TypeOK

LEMMA TypeStep == TypeOK /\ [Next]_vars => TypeOK'
  <1> SUFFICES ASSUME TypeOK, [Next]_vars PROVE TypeOK'
    OBVIOUS
  <1>0. /\ \A op \in Commands : <<op>> \in Seq(Commands)
        /\ AllCommands \subseteq Commands
    BY DEF Commands
  <1>1. CASE Connect
    <2>1. config' \in AllConfigs /\ CountTyped'
      BY <1>1 DEF Connect, TypeOK, CountTyped
    <2>2. ClientTyped'
      BY <1>1 DEF Connect, TypeOK, ClientTyped
    <2>3. CallTyped'
      BY <1>1, NegotiateTyped DEF Connect, TypeOK, CallTyped
    <2>4. ServerTyped'
      BY <1>1, EmptyTyped DEF Connect, ServerTyped, FreshSession, Sessions
    <2>5. StreamTyped'
      <3>1. incoming' = <<>> /\ fed' = 0 /\ 0 \in 0..Len(<<>>)
        BY <1>1, EmptyTyped DEF Connect
      <3> QED BY <3>1, EmptyTyped, Zenon DEF StreamTyped
    <2> QED BY <2>1, <2>2, <2>3, <2>4, <2>5 DEF TypeOK
  <1>2. CASE Close
    <2>1. open' \in BOOLEAN /\ ServerTyped' /\ StreamTyped'
      BY <1>2, HangupTyped DEF Close, TypeOK
    <2> QED
      BY <1>2, <2>1, SteadyTyped DEF Close, TypeOK, ClientTyped
  <1>3. ASSUME Raise, poisoned' \in BOOLEAN,
               UNCHANGED <<config, version, info, inMulti, pushes, queue, answer, ticket,
                           entry, session, served, countVars, sentVars, connects>>
        PROVE  TypeOK'
    <2>1. CallTyped' /\ ServerTyped' /\ StreamTyped' /\ open' \in BOOLEAN
      BY <1>3, RaiseTyped
    <2> QED
      BY <1>3, <2>1, SteadyTyped DEF TypeOK, ClientTyped
  <1>4. CASE Fail \/ InterruptConnect \/ Desynchronised
    <2>1. poisoned' \in BOOLEAN
      BY <1>4 DEF Fail, InterruptConnect, Desynchronised, TypeOK, ClientTyped
    <2> QED BY <1>3, <1>4, <2>1 DEF Fail, InterruptConnect, Desynchronised
  <1>5. ASSUME NEW op \in Executed, Execute(op) PROVE TypeOK'
    <2>1. op \in Commands
      BY <1>0, CommandsAssumption
    <2>2. CallTyped'
      BY <1>0, <1>5, <2>1, EmptyTyped
      DEF Execute, Roundtrip, TypeOK, CallTyped, Draining, Labels
    <2> QED BY <1>5, <2>2, SteadyTyped DEF Execute, TypeOK
  <1>6. CASE LookUp
    <2>1. pc = "before"
      BY <1>6 DEF LookUp
    <2>2. CallTyped'
      <3>1. CASE pc' = "out" /\ command' = "none" /\ UNCHANGED <<sending, ticket>>
        BY <1>6, <3>1 DEF LookUp, TypeOK, CallTyped, Labels
      <3>2. CASE ticket' = TRUE /\ Roundtrip(command)
        BY <1>0, <1>6, <2>1, <3>2, EmptyTyped
        DEF LookUp, Roundtrip, TypeOK, CallTyped, Labels
      <3> QED BY <1>6, <3>1, <3>2 DEF LookUp
    <2> QED BY <1>6, <2>2, SteadyTyped DEF LookUp, TypeOK
  <1>7. ASSUME NEW op \in Pipelined, Push(op) PROVE TypeOK'
    <2>1. queue' \in Seq(Commands)
      BY <1>0, <1>7, CommandsAssumption DEF Push, TypeOK, ClientTyped
    <2> QED BY <1>7, <2>1, SteadyTyped DEF Push, TypeOK, ClientTyped
  <1>8. CASE ResetQueue
    BY <1>8, SteadyTyped, EmptyTyped DEF ResetQueue, TypeOK, ClientTyped
  <1>9. CASE ExecuteBatch
    BY <1>9, SteadyTyped, EmptyTyped DEF ExecuteBatch, TypeOK, ClientTyped, CallTyped, Labels
  <1>10. CASE Send
    <2>1. sending' \in Seq(Commands) /\ requests' \in Seq(Commands) /\ written' \in Nat
      BY <1>10, EmptyTyped DEF Send, TypeOK, CallTyped, ServerTyped, CountTyped
    <2> QED
      BY <1>10, <2>1, SteadyTyped
      DEF Send, TypeOK, CallTyped, ServerTyped, CountTyped, sentVars
  <1>11. CASE Recv
    BY <1>11, SteadyTyped DEF Recv, TypeOK, StreamTyped
  <1>12. CASE HandlePush
    <2>1. StreamTyped'
      BY <1>12, TakeTyped DEF HandlePush, Parsed, TypeOK
    <2>2. pushes' \in Nat /\ entry' \in Answers /\ ticket' \in BOOLEAN
      <3>1. pushes' = pushes \/ pushes' = pushes + 1
        BY <1>12 DEF HandlePush
      <3>2. entry' \in {entry, "none"} /\ ticket' \in {ticket, FALSE}
        BY <1>12 DEF HandlePush
      <3>3. pushes \in Nat /\ pushes + 1 \in Nat /\ entry \in Answers /\ ticket \in BOOLEAN
        BY DEF TypeOK, ClientTyped, CallTyped
      <3>4. pushes' \in Nat
        BY <3>1, <3>3, Zenon
      <3> QED BY <3>2, <3>3, <3>4, Answerable, Zenon
    <2>3. ClientTyped' /\ CallTyped'
      BY <1>12, <2>2 DEF HandlePush, TypeOK, ClientTyped, CallTyped
    <2> QED BY <1>12, <2>1, <2>3, SteadyTyped DEF HandlePush, TypeOK
  <1>13. CASE ReadSteps
    BY <1>13, ReadTyped
  <1>14. CASE Offer \/ Sweep \/ SweepEnds
    <2>1. CallTyped'
      BY <1>14, Answerable
      DEF Offer, Sweep, SweepEnds, TypeOK, CallTyped, Labels, Draining
    <2> QED BY <1>14, <2>1, SteadyTyped DEF Offer, Sweep, SweepEnds, TypeOK
  <1>15. CASE Serve
    <2>1. requests \in Seq(Commands) /\ requests # <<>> /\ Head(requests) \in Commands
          /\ Tail(requests) \in Seq(Commands)
      BY <1>15, TailFacts DEF Serve, TypeOK, ServerTyped
    <2>2. PICK a \in Granted(Head(requests)) \cup Refused(Head(requests)) :
              incoming' = Append(incoming, Reply(a.as, served + 1)) /\ session' = a.session
      BY <1>15 DEF Serve
    <2>3. session' \in Sessions /\ Reply(a.as, served + 1) \in Frames
      <3>1. a.session \in Sessions
            /\ a.as \in {"ok", "value", "untracked", "queued", "error", "garbage", "odd"}
        BY <2>1, <2>2, Served DEF TypeOK, ServerTyped
      <3>2. served + 1 \in Nat
        BY DEF TypeOK, ServerTyped
      <3> QED BY <2>2, <3>1, <3>2, ReplyTyped
    <2>4. StreamTyped'
      <3>1. incoming \in Seq(Frames) /\ fed \in 0..Len(incoming) /\ fed' = fed
        BY <1>15 DEF Serve, TypeOK, StreamTyped
      <3>2. incoming' \in Seq(Frames) /\ Len(incoming') = Len(incoming) + 1
            /\ Len(incoming) \in Nat
        BY <2>2, <2>3, <3>1, AppendFacts
      <3> QED BY <3>1, <3>2 DEF StreamTyped
    <2> QED
      BY <1>15, <2>1, <2>3, <2>4, SteadyTyped DEF Serve, TypeOK, ServerTyped
  <1>16. CASE ServerPush \/ Invalidate
    <2>1. PICK kind \in {"push", "invalidate", "wrapped push"} :
              incoming' = Append(incoming, [kind |-> kind, as |-> "push", at |-> served])
      BY <1>16 DEF ServerPush, Invalidate
    <2>2. StreamTyped'
      <3>1. incoming \in Seq(Frames) /\ fed \in 0..Len(incoming) /\ fed' = fed
            /\ served \in Nat
        BY <1>16 DEF ServerPush, Invalidate, TypeOK, StreamTyped, ServerTyped
      <3>2. incoming' \in Seq(Frames) /\ Len(incoming') = Len(incoming) + 1
            /\ Len(incoming) \in Nat
        <4>1. [kind |-> kind, as |-> "push", at |-> served] \in Frames
          BY <3>1, PushTyped
        <4> HIDE DEF Frames
        <4> QED BY <2>1, <3>1, <4>1, AppendFacts
      <3>3. fed' \in 0..Len(incoming')
        <4>2. fed \in 0..(Len(incoming) + 1)
          BY <3>1, <3>2, Widen, Zenon
        <4> QED BY <3>1, <3>2, <4>2, Zenon
      <3> QED BY <3>2, <3>3 DEF StreamTyped
    <2>3. CountTyped'
      <3>1. CASE ServerPush
        <4>1. pushed' = pushed + 1
          BY <3>1 DEF ServerPush
        <4>2. UNCHANGED <<written, taken, latest, told, connects>>
          BY <3>1 DEF ServerPush, countVars
        <4>3. CountTyped
          BY DEF TypeOK
        <4>4. pushed' \in Nat
          BY <4>1, <4>3, Widen, Zenon DEF CountTyped
        <4> QED BY <4>2, <4>3, <4>4 DEF CountTyped
      <3>2. CASE Invalidate
        <4>1. told' = told + 1
          BY <3>2 DEF Invalidate
        <4>2. UNCHANGED <<written, taken, latest, pushed, connects>>
          BY <3>2 DEF Invalidate, countVars
        <4>3. CountTyped
          BY DEF TypeOK
        <4>4. told' \in Nat
          BY <4>1, <4>3, Widen, Zenon DEF CountTyped
        <4> QED BY <4>2, <4>3, <4>4 DEF CountTyped
      <3> QED BY <1>16, <3>1, <3>2
    <2> QED
      BY <1>16, <2>2, <2>3, SteadyTyped DEF ServerPush, Invalidate, TypeOK
  <1>17. CASE LinkDown
    BY <1>17, EmptyTyped, SteadyTyped DEF LinkDown, TypeOK, ServerTyped
  <1>18. CASE UNCHANGED vars
    BY <1>18, SteadyTyped DEF vars, TypeOK
  <1> QED
    BY <1>1, <1>2, <1>4, <1>5, <1>6, <1>7, <1>8, <1>9, <1>10, <1>11, <1>12, <1>13, <1>14,
       <1>15, <1>16, <1>17, <1>18
    DEF Next, UserStep, CallStep, ServerStep, ReadSteps

\* Every variable keeps its type, whatever the bounds, quirks and commands.
THEOREM ConnectionTyped == Spec => []TypeOK
  BY InitTyped, TypeStep, PTL DEF Spec

-----------------------------------------------------------------------------
\* The stream stays aligned, and every step is one of the promise's.

Kept == Aligned' /\ [Promise!Next]_(Promise!channel)

LEMMA InitAligned == Init => Aligned /\ Promise!Init
  BY DEF Init, Aligned, Usable, Promise!Init, Negotiating

\* Where the connection ends up closed or poisoned.
LEMMA BrokenKept ==
  ASSUME ~Usable', pc' = "out", sending' = <<>>, UNCHANGED countVars
  PROVE  Kept
  <1>1. Aligned'
    BY DEF Aligned, Negotiating
  <1>2. Promise!Break
    BY DEF Promise!Break, countVars
  <1> QED BY <1>1, <1>2 DEF Kept, Promise!Next

\* Where only the call moves.
LEMMA CallKept ==
  ASSUME Aligned, UNCHANGED <<open, poisoned, incoming, served, requests, countVars>>,
         Usable => Due', pc' \in Negotiating \cup {"roundtrip", "batch"} => Usable,
         ~Usable => sending' = <<>>
  PROVE  Kept
  <1>1. Usable' = Usable /\ UNCHANGED Promise!channel
    BY DEF Usable, Promise!channel, countVars
  <1>2. Usable' => Stream(incoming, taken, served)'
    BY <1>1 DEF Aligned, countVars, Stream
  <1>3. Usable' => (served + Len(requests) <= written)'
    BY <1>1 DEF Aligned, countVars
  <1> QED BY <1>1, <1>2, <1>3 DEF Kept, Aligned

LEMMA ConnectKept ==
  ASSUME Connect
  PROVE  Kept
  <1>1. /\ open' = TRUE /\ poisoned' = FALSE /\ incoming' = <<>> /\ requests' = <<>>
        /\ written' = 0 /\ served' = 0 /\ taken' = 0 /\ latest' = 0 /\ ~open
    BY DEF Connect
  <1>2. \/ pc' = "out" /\ sending' = <<>>
        \/ pc' \in Negotiating /\ sending' = <<pc'>>
    BY NegotiateGoes DEF Connect
  <1>3. Due'
    BY <1>1, <1>2 DEF Due, Negotiating, Draining
  <1>4. Stream(<<>>, 0, 0)
    BY DEF Stream
  <1>5. Aligned'
    BY <1>1, <1>3, <1>4, EmptyTyped DEF Aligned, Usable
  <1>6. Promise!Reopen
    BY <1>1 DEF Promise!Reopen, Usable
  <1> QED BY <1>5, <1>6 DEF Kept, Promise!Next

LEMMA SendKept ==
  ASSUME TypeOK, Aligned, Send
  PROVE  Kept
  <1>1. Usable /\ UNCHANGED <<open, poisoned, incoming, served, taken, latest, pc>>
    BY DEF Send, Aligned, clientVars, streamVars
  <1>2. /\ taken = written /\ sending \in Seq(Commands) /\ sending # <<>>
        /\ written \in Nat /\ served \in Nat /\ requests \in Seq(Commands)
        /\ served + Len(requests) <= written
    BY <1>1 DEF Send, Aligned, Due, TypeOK, CallTyped, CountTyped, ServerTyped
  <1>3. Len(sending) \in Nat /\ Len(sending) >= 1 /\ Len(requests) \in Nat
        /\ Len(requests \o sending) = Len(requests) + Len(sending)
    BY <1>2
  <1>4. written' = written + Len(sending) /\ sending' = <<>>
        /\ requests' \in {requests \o sending, requests}
    BY DEF Send
  <1>5. (served + Len(requests) <= written)'
    BY <1>1, <1>2, <1>3, <1>4
  <1>6. Due'
    <2>1. Due /\ pc \notin Draining \cup {"out"}
      BY <1>1, <1>2 DEF Aligned, Due
    <2>2. pc \in Negotiating \cup {"roundtrip"} => written' = taken + 1
      BY <1>2, <1>4, <2>1 DEF Due
    <2>3. taken < written'
      BY <1>2, <1>3, <1>4
    <2> QED BY <1>1, <1>4, <2>1, <2>2, <2>3 DEF Due
  <1>7. Aligned'
    BY <1>1, <1>4, <1>5, <1>6 DEF Aligned, Stream, Usable
  <1>8. Promise!Ask
    BY <1>1, <1>2, <1>3, <1>4 DEF Promise!Ask, Usable
  <1> QED BY <1>7, <1>8 DEF Kept, Promise!Next

LEMMA HandlePushKept ==
  ASSUME TypeOK, Aligned, HandlePush
  PROVE  Kept
  <1>1. /\ Usable /\ fed > 0 /\ Head(incoming).kind # "reply"
        /\ incoming' = Tail(incoming)
        /\ UNCHANGED <<open, poisoned, served, requests, pc, sending, countVars>>
    BY DEF HandlePush, Parsed, IsPush, TakeFrame, serverVars
  <1>2. incoming \in Seq(Frames) /\ incoming # <<>> /\ taken \in Nat /\ served \in Nat
        /\ Head(incoming) = incoming[1]
    BY <1>1, TakeTyped, TailFacts DEF TypeOK, StreamTyped, CountTyped, ServerTyped
  <1>3. Stream(incoming, taken, served)
    BY <1>1 DEF Aligned
  <1>4. Head(incoming).at = taken
    BY <1>1, <1>2, <1>3 DEF Stream
  <1>5. Stream(Tail(incoming), taken, served)
    BY <1>2, <1>3, <1>4, StreamTaken
  <1>6. Stream(incoming, taken, served)' /\ (served + Len(requests) <= written)' /\ Due'
    BY <1>1, <1>5 DEF Aligned, Due, countVars
  <1>7. Aligned' /\ UNCHANGED Promise!channel
    BY <1>1, <1>6 DEF Aligned, Usable, Promise!channel, countVars
  <1> QED BY <1>7 DEF Kept

\* What the reader of a reply finds: its own.
LEMMA ReplyIsNext ==
  ASSUME TypeOK, Aligned, PushesBare, NEW as, ReadReply(as)
  PROVE  /\ Usable /\ taken < written /\ sending = <<>> /\ latest' = taken + 1
         /\ taken' = taken + 1 /\ written' = written
         /\ Stream(Tail(incoming), taken + 1, served)
         /\ pc # "batch" => written = taken + 1
         /\ pc \in Negotiating \cup {"roundtrip", "batch"}
  <1>1. /\ Usable /\ fed > 0 /\ IsValue(Head(incoming)) /\ Awaiting
        /\ taken' = taken + 1 /\ latest' = Head(incoming).at /\ written' = written
    BY DEF ReadReply, Parsed
  <1>2. incoming \in Seq(Frames) /\ incoming # <<>> /\ taken \in Nat /\ served \in Nat
        /\ Head(incoming) = incoming[1] /\ 1 \in 1..Len(incoming)
    BY <1>1, TakeTyped, TailFacts DEF TypeOK, StreamTyped, CountTyped, ServerTyped
  <1>3. Stream(incoming, taken, served)
    BY <1>1 DEF Aligned
  <1>4. Head(incoming).kind = "reply"
    BY <1>1, <1>2, <1>3 DEF Stream, IsValue, Wrapped
  <1>5. Head(incoming).at = taken + 1
    BY <1>2, <1>3, <1>4 DEF Stream
  <1>6. Stream(Tail(incoming), taken + 1, served)
    BY <1>2, <1>3, <1>5, StreamTaken
  <1>7. sending = <<>> /\ pc \in Negotiating \cup {"roundtrip", "batch"} /\ Due
    BY <1>1 DEF Awaiting, Aligned
  <1>8. taken < written /\ (pc # "batch" => written = taken + 1)
    BY <1>2, <1>7 DEF Due, TypeOK, CountTyped
  <1> QED BY <1>1, <1>5, <1>6, <1>7, <1>8

LEMMA ReadKept ==
  ASSUME TypeOK, Aligned, PushesBare, ReadSteps
  PROVE  Kept
  <1>1. PICK as : ReadReply(as)
    BY DEF ReadSteps, HelloAnswered, HelloRefused, HelloUnusable, TrackingAnswered,
       SetupAnswered, CommandAnswered, SlotFilled
  <1>2. /\ Usable /\ taken < written /\ sending = <<>> /\ latest' = taken + 1
        /\ taken' = taken + 1 /\ written' = written
        /\ Stream(Tail(incoming), taken + 1, served)
        /\ pc # "batch" => written = taken + 1
        /\ pc \in Negotiating \cup {"roundtrip", "batch"}
    BY <1>1, ReplyIsNext
  <1>3. Promise!Answer
    BY <1>2 DEF Promise!Answer, Usable
  <1>4. UNCHANGED <<poisoned, served>>
    BY <1>1 DEF ReadReply
  <1>5. ASSUME Stays, \/ pc' \in {"out", "after"} /\ sending' = <<>> /\ taken' = written
                      \/ pc' \in Negotiating /\ sending' = <<pc'>> /\ taken' = written
                      \/ pc' = "batch" /\ sending' = <<>> /\ taken' # written
        PROVE  Aligned'
    <2>1. incoming' = Tail(incoming) /\ UNCHANGED <<open, requests>> /\ Usable'
      BY <1>2, <1>4, <1>5 DEF Stays, TakeFrame, Usable
    <2>2. Stream(incoming, taken, served)' /\ (served + Len(requests) <= written)'
      BY <1>2, <1>4, <2>1 DEF Aligned
    <2>3. taken \in Nat /\ written \in Nat
      BY DEF TypeOK, CountTyped
    <2>4. Due'
      BY <1>2, <1>5, <2>3 DEF Due, Negotiating, Draining
    <2> QED BY <2>1, <2>2, <2>4 DEF Aligned
  <1>6. ASSUME Raise, pc \in Negotiating PROVE Aligned'
    BY <1>6 DEF Raise, Hangup, Aligned, Usable, Negotiating
  <1>7. Aligned'
    <2>1. CASE HelloAnswered \/ HelloRefused \/ TrackingAnswered
      BY <1>2, <1>5, <2>1, NegotiateGoes
      DEF HelloAnswered, HelloRefused, TrackingAnswered
    <2>2. CASE HelloUnusable
      BY <1>6, <2>2 DEF HelloUnusable, Negotiating
    <2>3. CASE SetupAnswered
      <3>1. PICK i \in {3, 4}, as3 \in {"ok", "error", "push"} :
                /\ pc = Steps[i]
                /\ ReadReply(as3)
                /\ IF as3 = "error"
                   THEN Raise
                   ELSE NegotiateAfter(i, version) /\ Stays /\ UNCHANGED command
        BY <2>3 DEF SetupAnswered
      <3>2. Steps[i] \in Negotiating
        BY DEF Steps, Negotiating
      <3>3. pc \in Negotiating
        BY <3>1, <3>2
      <3>4. CASE as3 = "error"
        BY <1>6, <3>1, <3>3, <3>4
      <3>5. CASE as3 # "error"
        <4>1. NegotiateAfter(i, version) /\ Stays /\ taken' = written
          BY <1>2, <3>1, <3>3, <3>5 DEF Negotiating
        <4>2. \/ pc' = "out" /\ sending' = <<>>
              \/ pc' \in Negotiating /\ sending' = <<pc'>>
          BY <4>1, NegotiateGoes
        <4> QED BY <1>5, <4>1, <4>2
      <3> QED BY <3>4, <3>5
    <2>4. CASE CommandAnswered
      BY <1>2, <1>5, <2>4 DEF CommandAnswered
    <2>5. CASE SlotFilled
      BY <1>2, <1>5, <2>5 DEF SlotFilled
    <2> QED BY <2>1, <2>2, <2>3, <2>4, <2>5 DEF ReadSteps
  <1> QED BY <1>3, <1>7 DEF Kept, Promise!Next

\* A frame arrives; v is then how many commands the server has answered.
LEMMA ArrivalKept ==
  ASSUME TypeOK, Aligned, NEW f \in Frames, incoming' = Append(incoming, f),
         NEW v \in Nat, served' = v,
         \/ f.kind = "reply" /\ f.at = v /\ v = served + 1
         \/ f.kind \in {"push", "invalidate"} /\ f.at = served /\ v = served,
         Len(requests') \in Nat, v + Len(requests') <= served + Len(requests),
         UNCHANGED <<open, poisoned, pc, sending, countVars>>
  PROVE  Kept
  <1>1. UNCHANGED Promise!channel /\ Usable' = Usable
    BY DEF Promise!channel, Usable, countVars
  <1>2. ASSUME Usable
        PROVE  Stream(incoming, taken, served)'
    <2>1. /\ incoming \in Seq(Frames) /\ taken \in Nat /\ served \in Nat
          /\ Stream(incoming, taken, served)
      BY <1>2 DEF Aligned, TypeOK, StreamTyped, CountTyped, ServerTyped
    <2>2. Stream(Append(incoming, f), taken, v)
      BY <2>1, StreamReplied, StreamPushed
    <2> QED BY <2>2 DEF countVars
  <1>3. ASSUME Usable
        PROVE  (served + Len(requests) <= written)'
    <2>1. served + Len(requests) <= written
      BY <1>3 DEF Aligned
    <2>2. served \in Nat /\ Len(requests) \in Nat /\ written \in Nat
      BY DEF TypeOK, ServerTyped, CountTyped
    <2> QED BY <2>1, <2>2 DEF countVars
  <1>4. Usable => Due'
    BY DEF Aligned, Due, countVars
  <1> QED BY <1>1, <1>2, <1>3, <1>4 DEF Kept, Aligned

LEMMA ServeKept ==
  ASSUME TypeOK, Aligned, Serve
  PROVE  Kept
  <1>1. requests \in Seq(Commands) /\ requests # <<>> /\ Head(requests) \in Commands
        /\ Len(requests) \in Nat /\ Len(Tail(requests)) = Len(requests) - 1
        /\ served \in Nat
    BY TailFacts DEF Serve, TypeOK, ServerTyped
  <1>2. PICK a \in Granted(Head(requests)) \cup Refused(Head(requests)) :
            incoming' = Append(incoming, Reply(a.as, served + 1))
    BY DEF Serve
  <1>3. a.as \in {"ok", "value", "untracked", "queued", "error", "garbage", "odd"}
    BY <1>1, Served DEF TypeOK, ServerTyped
  <1>4. /\ Reply(a.as, served + 1) \in Frames /\ Reply(a.as, served + 1).kind = "reply"
        /\ Reply(a.as, served + 1).at = served + 1 /\ served + 1 \in Nat
    BY <1>1, <1>3, ReplyTyped
  <1>5. /\ served' = served + 1 /\ requests' = Tail(requests)
        /\ UNCHANGED <<open, poisoned, pc, sending, countVars>>
    BY DEF Serve, clientVars, callVars
  <1>6. /\ (served + 1) + Len(requests') <= served + Len(requests)
        /\ Len(requests') \in Nat
    BY <1>1, <1>5
  <1> QED
    BY <1>2, <1>4, <1>5, <1>6, ArrivalKept

LEMMA PushArrivalKept ==
  ASSUME TypeOK, Aligned, PushesBare, ServerPush \/ Invalidate
  PROVE  Kept
  <1>1. PICK kind \in {"push", "invalidate"} :
            incoming' = Append(incoming, [kind |-> kind, as |-> "push", at |-> served])
    BY DEF ServerPush, Invalidate, PushesBare
  <1>2. served \in Nat /\ requests \in Seq(Commands) /\ Len(requests) \in Nat
    BY DEF TypeOK, ServerTyped
  <1>5. /\ [kind |-> kind, as |-> "push", at |-> served] \in Frames
        /\ [kind |-> kind, as |-> "push", at |-> served].kind = kind
        /\ [kind |-> kind, as |-> "push", at |-> served].at = served
    BY <1>2, PushTyped
  <1>3. UNCHANGED <<open, poisoned, pc, sending, countVars, served, requests>>
    BY DEF ServerPush, Invalidate, clientVars, callVars, serverVars
  <1>4. served + Len(requests') <= served + Len(requests) /\ Len(requests') \in Nat
    BY <1>2, <1>3
  <1> QED
    BY <1>1, <1>2, <1>3, <1>4, <1>5, ArrivalKept

LEMMA LinkDownKept ==
  ASSUME TypeOK, Aligned, LinkDown
  PROVE  Kept
  <1>1. /\ UNCHANGED <<open, poisoned, pc, sending, countVars, served, incoming>>
        /\ requests' = <<>>
    BY DEF LinkDown, clientVars, callVars, streamVars
  <1>2. UNCHANGED Promise!channel /\ Usable' = Usable
    BY <1>1 DEF Promise!channel, Usable, countVars
  <1>3. Usable => (served + Len(requests) <= written)'
    <2>1. served \in Nat /\ Len(requests) \in Nat /\ written \in Nat /\ Len(<<>>) = 0
      BY EmptyTyped DEF TypeOK, ServerTyped, CountTyped
    <2> QED BY <1>1, <2>1 DEF Aligned, countVars
  <1>4. Usable => Stream(incoming, taken, served)' /\ Due'
    BY <1>1 DEF Aligned, Due, Stream, countVars
  <1> QED BY <1>1, <1>2, <1>3, <1>4 DEF Kept, Aligned

\* A call that goes from one quiet place to another, or into a round trip.
Idle == pc \in Draining \cup {"out"}

LEMMA PauseKept ==
  ASSUME Aligned, Idle, UNCHANGED <<open, poisoned, incoming, served, requests, countVars>>,
         Idle', sending' = sending
  PROVE  Kept
  <1>1. Usable => Due'
    BY DEF Aligned, Due, Idle, Draining, Negotiating, countVars
  <1>2. pc' \notin Negotiating \cup {"roundtrip", "batch"}
    BY DEF Idle, Draining, Negotiating
  <1>3. ~Usable => sending' = <<>>
    BY DEF Aligned
  <1> QED BY <1>1, <1>2, <1>3, CallKept

LEMMA RoundtripKept ==
  ASSUME Aligned, Idle, UNCHANGED <<open, poisoned, incoming, served, requests, countVars>>,
         NEW op, Roundtrip(op)
  PROVE  Kept
  <1>1. CASE Usable
    <2>1. pc' = "roundtrip" /\ sending' = <<op>>
      BY <1>1 DEF Roundtrip
    <2>2. taken' = written'
      BY <1>1 DEF Aligned, Due, Idle, countVars
    <2>3. Due'
      BY <2>1, <2>2 DEF Due, Draining, Negotiating
    <2> QED BY <1>1, <2>1, <2>3, CallKept DEF Negotiating
  <1>2. CASE ~Usable
    BY <1>2, CallKept DEF Roundtrip, Negotiating
  <1> QED BY <1>1, <1>2

LEMMA StepKept == Inv /\ [Next]_vars => Kept
  <1> SUFFICES ASSUME TypeOK, Aligned, PushesBare, [Next]_vars PROVE Kept
    BY DEF Inv
  <1>1. CASE Close
    BY <1>1, BrokenKept DEF Close, Hangup, Usable, Aligned, Due, Draining, callVars
  <1>2. CASE Fail \/ InterruptConnect \/ Desynchronised
    <2>1. Raise /\ UNCHANGED countVars /\ (poisoned' = TRUE \/ pc \in Negotiating)
      BY <1>2 DEF Fail, InterruptConnect, Desynchronised
    <2> QED BY <2>1, BrokenKept DEF Raise, Hangup, Usable
  <1>3. CASE Connect
    BY <1>3, ConnectKept
  <1>4. ASSUME NEW op \in Executed, Execute(op) PROVE Kept
    <2>1. CASE Cacheable(op)
      BY <1>4, <2>1, PauseKept DEF Execute, Draining, Idle, clientVars, serverVars, streamVars
    <2>2. CASE ~Cacheable(op)
      BY <1>4, <2>2, RoundtripKept DEF Execute, Idle, clientVars, serverVars, streamVars
    <2> QED BY <2>1, <2>2
  <1>5. CASE LookUp
    <2>1. CASE Roundtrip(command)
      BY <1>5, <2>1, RoundtripKept
      DEF LookUp, Idle, Draining, clientVars, serverVars, streamVars
    <2>2. CASE ~Roundtrip(command)
      BY <1>5, <2>2, PauseKept
      DEF LookUp, Idle, Draining, clientVars, serverVars, streamVars
    <2> QED BY <2>1, <2>2
  <1>6. ASSUME NEW op \in Pipelined, Push(op) PROVE Kept
    BY <1>6, CallKept DEF Push, Aligned, Due, callVars, serverVars, streamVars, countVars
  <1>7. CASE ResetQueue
    BY <1>7, CallKept DEF ResetQueue, Aligned, Due, callVars, serverVars, streamVars, countVars
  <1>8. CASE ExecuteBatch
    BY <1>8, CallKept
    DEF ExecuteBatch, Aligned, Due, Draining, Negotiating, serverVars, streamVars, countVars
  <1>9. CASE Recv
    BY <1>9, CallKept DEF Recv, Aligned, Due, clientVars, callVars, serverVars, countVars
  <1>10. CASE Offer \/ Sweep \/ SweepEnds
    BY <1>10, CallKept
    DEF Offer, Sweep, SweepEnds, Aligned, Due, Draining, Negotiating, clientVars,
        serverVars, streamVars, countVars
  <1>11. CASE UNCHANGED vars
    BY <1>11, CallKept
    DEF vars, Aligned, Due, clientVars, callVars, serverVars, streamVars, countVars
  <1> QED
    BY <1>1, <1>2, <1>3, <1>4, <1>5, <1>6, <1>7, <1>8, <1>9, <1>10, <1>11, SendKept,
       HandlePushKept, ReadKept, ServeKept, PushArrivalKept, LinkDownKept
    DEF Next, UserStep, CallStep, ServerStep, ReadSteps

-----------------------------------------------------------------------------
\* The connection implements its promise: the reply a command gets is its own,
\* in the order of the commands, however pushes, batches, drains, interrupted
\* negotiations, failures and reconnections are interleaved with it.
THEOREM RepliesAreOwn == PushesBare /\ Spec => RepliesInOrder
  <1>1. PushesBare /\ Init => Inv /\ Promise!Init
    BY InitTyped, InitAligned DEF Inv
  <1>2. Inv /\ [Next]_vars => Inv' /\ [Promise!Next]_(Promise!channel)
    BY TypeStep, StepKept DEF Inv, Kept, PushesBare
  <1> QED
    BY <1>1, <1>2, PTL DEF Spec, RepliesInOrder, Promise!Spec

\* Between two commands there is nothing but pushes to be drained.
THEOREM OnlyPushesAreDrained == PushesBare /\ Spec => []OnlyPushesBetween
  <1>1. PushesBare /\ Init => Inv
    BY InitTyped, InitAligned DEF Inv
  <1>2. Inv /\ [Next]_vars => Inv'
    BY TypeStep, StepKept DEF Inv, Kept, PushesBare
  <1>3. Inv => OnlyPushesBetween
    <2> SUFFICES ASSUME Inv, Usable, pc \in Draining \cup {"out"}, NEW i \in 1..Len(incoming),
                        incoming[i].kind = "reply"
                 PROVE  FALSE
      BY DEF OnlyPushesBetween
    <2>1. incoming[i].at \in Nat /\ taken \in Nat /\ written \in Nat /\ served \in Nat
          /\ Len(requests) \in Nat
      BY FrameNumbers DEF Inv, TypeOK, StreamTyped, CountTyped, ServerTyped
    <2>2. taken < incoming[i].at /\ incoming[i].at <= served
      BY DEF Inv, Aligned, Stream
    <2>3. served + Len(requests) <= written /\ taken = written
      BY DEF Inv, Aligned, Due
    <2> QED BY <2>1, <2>2, <2>3
  <1> QED
    BY <1>1, <1>2, <1>3, PTL DEF Spec

-----------------------------------------------------------------------------
\* What the theorems ask of the server, besides PushesBare, and of the callers.
TrackingGranted == "refuses TRACKING" \notin Quirks
HelloGranted == "refuses HELLO to a caching client" \notin Quirks
FailedExecEnds == "keeps MULTI after a failed EXEC" \notin Quirks
NoReset == "RESET" \notin Executed \cup Pipelined
NoPipelinedMulti == "MULTI" \notin Pipelined

-----------------------------------------------------------------------------
\* Whose commands are on their way: those of the step of connect(), of the
\* execute() or of the batch in progress, and of nothing before it.

Current == IF pc \in Negotiating THEN {pc}
           ELSE IF pc = "roundtrip" THEN {command}
           ELSE Pipelined

OwnInv ==
    /\ config \in Configs
    /\ queue \in Seq(Pipelined)
    /\ command \in Executed \cup {"none"}
    /\ pc \in {"before", "roundtrip"} => command # "none"
    /\ Usable => sending \in Seq(Current) /\ requests \in Seq(Current)
    /\ Usable /\ pc \in Negotiating => Wanted(pc, version)

\* What connect() has achieved when it is at step p, or is over.
Ready(p) ==
    /\ p # "HELLO" => /\ version \in {2, 3} /\ session.proto = version
                      /\ version = 3 => session.named = config.named
    /\ p \notin {"HELLO", "TRACKING"} => (config.caching => session.tracking)
    /\ p \notin {"HELLO", "TRACKING", "SELECT"} => (config.db => session.db)
    /\ p \notin Negotiating => (config.named => session.named)

\* What an answer to the step in progress says of the session.
Effect(step) ==
    CASE step = "HELLO" -> session.proto = 3 /\ session.named = config.named
      [] step = "TRACKING" -> session.tracking
      [] step = "SELECT" -> session.db
      [] step = "SETNAME" -> session.named
Says(as) ==
    /\ as = "ok" => Effect(pc)
    /\ as = "error" => pc # "TRACKING" /\ (pc = "HELLO" => session.proto = 2)

\* The replies in the socket that were not read yet.
RepliesIn(s) == {s[i].as : i \in {j \in 1..Len(s) : s[j].kind = "reply"}}
Arrived == RepliesIn(incoming)

SetUpInv ==
    Usable =>
        /\ Ready(pc)
        /\ session.db => config.db
        /\ session.named => config.named
        /\ pc = "HELLO" /\ served = taken => session.proto = 2
        /\ pc \in Negotiating => \A as \in Arrived : Says(as)

TransactionInv ==
    Usable =>
        /\ session.multi => inMulti \/ (pc = "roundtrip" /\ command = "MULTI")
        /\ pc = "roundtrip" /\ command \in {"EXEC", "RESET"} /\ session.multi =>
              Arrived \subseteq {"garbage"}

CacheInv ==
    /\ {answer, entry} \subseteq {"none", "value"}
    /\ Usable /\ config.caching =>
          /\ pc # "HELLO" => version = 3
          /\ pc = "HELLO" => "error" \notin Arrived
    /\ Usable /\ pc = "roundtrip" /\ command = "GET" =>
          /\ "ok" \notin Arrived
          /\ "queued" \in Arrived => session.multi
          /\ "untracked" \in Arrived => ~(session.tracking /\ session.proto = 3)

PushInv ==
    Usable =>
        /\ session.tracking => config.caching
        /\ \A i \in 1..Len(incoming) : incoming[i].kind = "invalidate" => config.caching

-----------------------------------------------------------------------------
\* The replies in a stream that grows at its end and is read from its front.

LEMMA RepliesAppended ==
  ASSUME NEW s \in Seq(Frames), NEW f \in Frames
  PROVE  RepliesIn(Append(s, f)) =
            RepliesIn(s) \cup (IF f.kind = "reply" THEN {f.as} ELSE {})
  <1> DEFINE r == Append(s, f)
  <1>1. /\ Len(r) = Len(s) + 1 /\ Len(s) \in Nat
        /\ \A i \in 1..Len(s) : r[i] = s[i]
        /\ r[Len(s) + 1] = f
    BY AppendFacts
  <1> HIDE DEF r
  <1>2. ASSUME NEW i \in 1..Len(r), r[i].kind = "reply"
        PROVE  r[i].as \in RepliesIn(s) \cup (IF f.kind = "reply" THEN {f.as} ELSE {})
    <2>1. CASE i \in 1..Len(s)
      BY <1>1, <1>2, <2>1 DEF RepliesIn
    <2>2. CASE i = Len(s) + 1
      BY <1>1, <1>2, <2>2
    <2> QED
      BY <1>1, <2>1, <2>2
  <1>3. RepliesIn(s) \subseteq RepliesIn(r)
    BY <1>1 DEF RepliesIn
  <1>4. f.kind = "reply" => f.as \in RepliesIn(r)
    BY <1>1 DEF RepliesIn
  <1>5. RepliesIn(r) \subseteq RepliesIn(s) \cup (IF f.kind = "reply" THEN {f.as} ELSE {})
    BY <1>2 DEF RepliesIn
  <1> QED
    BY <1>3, <1>4, <1>5 DEF r

LEMMA RepliesTaken ==
  ASSUME NEW s \in Seq(Frames), s # <<>>
  PROVE  /\ RepliesIn(Tail(s)) \subseteq RepliesIn(s)
         /\ Head(s).kind = "reply" => Head(s).as \in RepliesIn(s)
  <1>1. /\ Len(s) \in Nat /\ Len(s) >= 1 /\ Len(Tail(s)) = Len(s) - 1
        /\ Head(s) = s[1]
        /\ \A i \in 1..Len(Tail(s)) : Tail(s)[i] = s[i + 1]
    BY TailFacts
  <1>2. \A i \in 1..Len(Tail(s)) : i + 1 \in 1..Len(s)
    BY <1>1
  <1> QED
    BY <1>1, <1>2 DEF RepliesIn

\* All replies are read: none is left in the stream.
LEMMA RepliesRead ==
  ASSUME NEW s \in Seq(Frames), NEW t \in Nat, NEW v \in Nat, Stream(s, t, v), v <= t
  PROVE  RepliesIn(s) = {}
  <1>1. ASSUME NEW i \in 1..Len(s) PROVE s[i].kind # "reply"
    <2>1. s[i].at \in Nat
      BY FrameNumbers
    <2> QED
      BY <2>1 DEF Stream
  <1> QED
    BY <1>1 DEF RepliesIn

\* A stream never ends before it starts.
LEMMA StreamGoesOn ==
  ASSUME NEW s \in Seq(Frames), NEW t \in Nat, NEW v \in Nat, Stream(s, t, v)
  PROVE  t <= v
  <1>1. CASE s = <<>>
    BY <1>1 DEF Stream
  <1>2. CASE s # <<>>
    <2>1. Len(s) \in 1..Len(s)
      BY <1>2
    <2> QED
      BY <1>2, <2>1 DEF Stream
  <1> QED
    BY <1>1, <1>2

LEMMA Numbers ==
  ASSUME TypeOK
  PROVE  /\ incoming \in Seq(Frames) /\ requests \in Seq(Commands)
         /\ Len(requests) \in Nat /\ (Len(requests) = 0 => requests = <<>>)
         /\ served \in Nat /\ taken \in Nat /\ written \in Nat
  <1>1. \A s \in Seq(Commands) : Len(s) \in Nat /\ (Len(s) = 0 => s = <<>>)
    OBVIOUS
  <1> QED
    BY <1>1 DEF TypeOK, StreamTyped, ServerTyped, CountTyped

\* Nothing is due: nothing is on its way, in either direction.
LEMMA NothingDue ==
  ASSUME TypeOK, Aligned, Usable, taken = written
  PROVE  requests = <<>> /\ Arrived = {}
  <1>1. Stream(incoming, taken, served) /\ served + Len(requests) <= written
    BY DEF Aligned
  <1>2. taken <= served
    BY <1>1, Numbers, StreamGoesOn
  <1>3. served <= taken /\ Len(requests) = 0
    BY <1>1, <1>2, Numbers
  <1> QED
    BY <1>1, <1>3, Numbers, RepliesRead DEF Arrived

\* Outside a batch one command at most is unanswered.
LEMMA OneDue ==
  ASSUME TypeOK, Aligned, Usable, pc # "batch"
  PROVE  /\ taken <= served
         /\ served # taken => requests = <<>> /\ sending = <<>>
         /\ requests # <<>> => served = taken /\ sending = <<>> /\ Arrived = {}
         /\ served = taken => Arrived = {}
  <1>1. Stream(incoming, taken, served) /\ served + Len(requests) <= written /\ Due
    BY DEF Aligned
  <1>2. taken <= served
    BY <1>1, Numbers, StreamGoesOn
  <1>3. \/ taken = written
        \/ sending = <<>> /\ written = taken + 1
    BY <1>1 DEF Due, TypeOK, CallTyped, Labels
  <1>4. served = taken => Arrived = {}
    BY <1>1, Numbers, RepliesRead DEF Arrived
  <1>5. CASE taken = written
    BY <1>1, <1>2, <1>4, <1>5, NothingDue, Numbers
  <1>6. CASE sending = <<>> /\ written = taken + 1
    BY <1>1, <1>2, <1>4, <1>6, Numbers
  <1> QED
    BY <1>3, <1>5, <1>6

\* What a reader finds when it takes its reply, and what it leaves.
LEMMA ReplyFound ==
  ASSUME TypeOK, Aligned, PushesBare, NEW as, ReadReply(as)
  PROVE  /\ Usable /\ sending = <<>> /\ as \in Arrived /\ as # "garbage"
         /\ incoming # <<>> /\ Head(incoming).kind = "reply"
         /\ pc # "batch" => requests = <<>> /\ RepliesIn(Tail(incoming)) = {}
         /\ taken' = written => requests = <<>>
         /\ taken' = taken + 1
  <1>1. /\ Usable /\ taken < written /\ sending = <<>> /\ taken' = taken + 1
        /\ Stream(Tail(incoming), taken + 1, served)
        /\ pc # "batch" => written = taken + 1
    BY ReplyIsNext
  <1>2. incoming \in Seq(Frames) /\ incoming # <<>> /\ Tail(incoming) \in Seq(Frames)
    BY TakeTyped, TailFacts DEF ReadReply, Parsed, TypeOK, StreamTyped
  <1>3. Head(incoming).kind = "reply" /\ as = Head(incoming).as /\ as # "garbage"
    <2>1. Stream(incoming, taken, served)
      BY <1>1 DEF Aligned
    <2>2. Head(incoming) = incoming[1] /\ 1 \in 1..Len(incoming)
      BY <1>2, TailFacts
    <2>3. Head(incoming).kind # "wrapped push"
      BY <2>1, <2>2 DEF Stream
    <2> QED
      BY <2>3 DEF ReadReply, IsValue, Wrapped
  <1>4. as \in Arrived
    BY <1>2, <1>3, RepliesTaken DEF Arrived
  <1>5. /\ taken + 1 \in Nat /\ served \in Nat /\ written \in Nat
        /\ Len(requests) \in Nat /\ (Len(requests) = 0 => requests = <<>>)
    BY Numbers
  <1>6. taken + 1 <= served
    BY <1>1, <1>2, <1>5, StreamGoesOn
  <1>7. served + Len(requests) <= written
    BY <1>1 DEF Aligned
  <1>8. ASSUME written = taken + 1
        PROVE  requests = <<>> /\ RepliesIn(Tail(incoming)) = {}
    <2>1. Len(requests) = 0 /\ served = taken + 1
      BY <1>5, <1>6, <1>7, <1>8
    <2>2. Stream(Tail(incoming), served, served) /\ served <= served
      BY <1>1, <1>5, <2>1
    <2>3. RepliesIn(Tail(incoming)) = {}
      BY <1>2, <1>5, <2>2, RepliesRead
    <2> QED
      BY <1>5, <2>1, <2>3
  <1> QED
    BY <1>1, <1>2, <1>3, <1>4, <1>8

-----------------------------------------------------------------------------
\* The steps that leave a connection to be used, by what they do to its session.

\* Only the call moves, or the server hangs up: nothing is said or heard.
Calm ==
    /\ UNCHANGED <<config, open, poisoned, version, inMulti, session, incoming, served,
                   taken, written, pushes, pushed>>
    /\ requests' \in {requests, <<>>}
    /\ \/ pc' = pc /\ UNCHANGED <<sending, command>>
       \/ /\ pc \in Draining \cup {"out"} /\ pc' \notin Negotiating
          /\ \/ sending' = sending
             \/ pc' = "roundtrip" /\ sending' = <<command'>>
             \/ pc' = "batch" /\ sending' = queue

\* A reply that leaves the connection to be used is taken, and the call goes on.
LEMMA ReadGoesOn ==
  ASSUME ReadSteps, Usable'
  PROVE  Usable /\ Stays /\ ~HelloUnusable
  <1>1. \/ ~HelloUnusable /\ Stays
        \/ Raise /\ pc \in Negotiating
    BY DEF ReadSteps, HelloAnswered, HelloRefused, HelloUnusable, TrackingAnswered,
       SetupAnswered, CommandAnswered, SlotFilled, Steps, Negotiating, Stays
  <1>2. PICK as : ReadReply(as)
    BY DEF ReadSteps, HelloAnswered, HelloRefused, HelloUnusable, TrackingAnswered,
       SetupAnswered, CommandAnswered, SlotFilled
  <1> QED
    BY <1>1, <1>2 DEF Raise, Hangup, Usable, Stays, ReadReply, Parsed

LEMMA UsableSteps ==
  ASSUME [Next]_vars, Usable'
  PROVE  \/ Connect
         \/ /\ Usable
            /\ \/ Calm \/ Send \/ HandlePush \/ Serve \/ ServerPush \/ Invalidate
               \/ ReadSteps /\ Stays /\ ~HelloUnusable
  <1>1. CASE Close \/ Fail \/ InterruptConnect \/ Desynchronised
    BY <1>1 DEF Close, Fail, InterruptConnect, Desynchronised, Raise, Hangup, Usable
  <1>2. ASSUME NEW op \in Executed, Execute(op) PROVE Usable /\ Calm
    BY <1>2 DEF Execute, Roundtrip, Calm, Usable, clientVars, serverVars, streamVars,
       countVars, sentVars, Negotiating
  <1>3. CASE LookUp
    BY <1>3 DEF LookUp, Roundtrip, Calm, Usable, clientVars, serverVars, streamVars,
       countVars, sentVars, Negotiating, Draining
  <1>4. ASSUME NEW op \in Pipelined, Push(op) PROVE Usable /\ Calm
    BY <1>4 DEF Push, Calm, Usable, callVars, serverVars, streamVars, countVars, sentVars
  <1>5. CASE ResetQueue \/ ExecuteBatch
    BY <1>5 DEF ResetQueue, ExecuteBatch, Calm, Usable, callVars, serverVars, streamVars,
       countVars, sentVars, Negotiating
  <1>6. CASE Recv \/ Offer
    BY <1>6 DEF Recv, Offer, Calm, Usable, clientVars, callVars, serverVars, streamVars,
       countVars, sentVars, Negotiating, Draining
  <1>7. CASE Sweep \/ SweepEnds
    BY <1>7 DEF Sweep, SweepEnds, Calm, Usable, clientVars, callVars, serverVars,
       streamVars, countVars, sentVars, Negotiating, Draining
  <1>8. CASE LinkDown
    BY <1>8 DEF LinkDown, Calm, Usable, clientVars, callVars, streamVars, countVars,
       sentVars
  <1>9. CASE UNCHANGED vars
    BY <1>9 DEF vars, Calm, Usable, clientVars, callVars, serverVars, streamVars,
       countVars, sentVars
  <1>10. CASE HandlePush \/ Send \/ Serve \/ ServerPush \/ Invalidate
    BY <1>10 DEF HandlePush, Send, Serve, ServerPush, Invalidate, Usable, clientVars
  <1>11. CASE ReadSteps
    BY <1>11, ReadGoesOn
  <1> QED
    BY <1>1, <1>2, <1>3, <1>4, <1>5, <1>6, <1>7, <1>8, <1>9, <1>10, <1>11
    DEF Next, UserStep, CallStep, ServerStep, ReadSteps

\* _negotiate() skips the steps that are not wanted, and no others.
LEMMA NegotiateOrder ==
  ASSUME NEW i \in 0..4, NEW v, NegotiateAfter(i, v)
  PROVE  /\ pc' \in {"out"} \cup Negotiating
         /\ pc' = "out" => sending' = <<>>
         /\ pc' \in Negotiating => sending' = <<pc'>> /\ Wanted(pc', v)
         /\ pc' = "HELLO" => i = 0
         /\ pc' # "HELLO" => i >= 1 \/ ~Wanted("HELLO", v)
         /\ pc' \notin {"HELLO", "TRACKING"} => i >= 2 \/ ~Wanted("TRACKING", v)
         /\ pc' \notin {"HELLO", "TRACKING", "SELECT"} => i >= 3 \/ ~Wanted("SELECT", v)
         /\ pc' = "out" => i = 4 \/ ~Wanted("SETNAME", v)
  <1> DEFINE left == {j \in 1..4 : j > i /\ Wanted(Steps[j], v)}
  <1>1. /\ Steps[1] = "HELLO" /\ Steps[2] = "TRACKING" /\ Steps[3] = "SELECT"
        /\ Steps[4] = "SETNAME"
    BY DEF Steps
  <1>2. CASE left = {}
    <2>1. pc' = "out" /\ sending' = <<>>
      BY <1>2 DEF NegotiateAfter
    <2>2. \A j \in 1..4 : j > i => ~Wanted(Steps[j], v)
      BY <1>2
    <2>3. /\ i < 1 => ~Wanted("HELLO", v)
          /\ i < 2 => ~Wanted("TRACKING", v)
          /\ i < 3 => ~Wanted("SELECT", v)
          /\ i < 4 => ~Wanted("SETNAME", v)
      BY <1>1, <2>2
    <2> QED
      BY <2>1, <2>3 DEF Negotiating
  <1>3. CASE left # {}
    <2>1. PICK j \in left : /\ \A k \in left : j <= k
                            /\ pc' = Steps[j] /\ sending' = <<Steps[j]>>
      BY <1>3 DEF NegotiateAfter
    <2>2. j \in 1..4 /\ j > i /\ Wanted(Steps[j], v)
      BY <2>1
    <2>3. \A k \in 1..4 : k > i /\ k < j => ~Wanted(Steps[k], v)
      BY <2>1, <2>2
    <2>4. /\ i < 1 /\ 1 < j => ~Wanted("HELLO", v)
          /\ i < 2 /\ 2 < j => ~Wanted("TRACKING", v)
          /\ i < 3 /\ 3 < j => ~Wanted("SELECT", v)
      BY <1>1, <2>3
    <2>5. j = 1 \/ j = 2 \/ j = 3 \/ j = 4
      BY <2>2
    <2> HIDE DEF left
    <2> QED
      BY <1>1, <2>1, <2>2, <2>4, <2>5 DEF Negotiating
  <1> QED
    BY <1>2, <1>3

\* What a server never sends as a reply.
LEMMA NoReplyIsAPush ==
  ASSUME NEW s \in Seq(Frames)
  PROVE  "push" \notin RepliesIn(s)
  <1>1. \A f \in Frames : f.kind = "reply" => f.as # "push"
    BY DEF Frames
  <1>2. \A i \in 1..Len(s) : s[i] \in Frames
    OBVIOUS
  <1> QED
    BY <1>1, <1>2 DEF RepliesIn

\* A reply that was read, by the call that goes on with it.
LEMMA ReadFound ==
  ASSUME TypeOK, Aligned, PushesBare, ReadSteps, Stays, ~HelloUnusable
  PROVE  \E as \in Arrived :
            /\ ReadReply(as) /\ as \notin {"push", "garbage"}
            /\ \/ /\ UNCHANGED <<inMulti, command, answer, entry>>
                  /\ \/ pc = "HELLO" /\ as = "ok" /\ version' = 3 /\ NegotiateAfter(1, 3)
                     \/ pc = "HELLO" /\ as = "error" /\ version' = 2 /\ NegotiateAfter(1, 2)
                     \/ pc = "TRACKING" /\ as \in {"ok", "error"} /\ UNCHANGED version
                           /\ NegotiateAfter(2, version)
                     \/ pc = "SELECT" /\ as = "ok" /\ UNCHANGED version
                           /\ NegotiateAfter(3, version)
                     \/ pc = "SETNAME" /\ as = "ok" /\ UNCHANGED version
                           /\ NegotiateAfter(4, version)
               \/ pc = "roundtrip" /\ CommandAnswered /\ pc' \in {"out", "after"}
               \/ pc = "batch" /\ SlotFilled /\ pc' \in {"out", "batch"}
  <1>1. ASSUME NEW as, ReadReply(as)
        PROVE  as \in Arrived /\ as \notin {"push", "garbage"} /\ open
    <2>1. as \in Arrived /\ as # "garbage" /\ Usable
      BY <1>1, ReplyFound
    <2>2. as # "push"
      BY <2>1, Numbers, NoReplyIsAPush DEF Arrived
    <2> QED
      BY <2>1, <2>2 DEF Usable
  <1>2. CASE HelloAnswered \/ HelloRefused \/ TrackingAnswered
    BY <1>1, <1>2 DEF HelloAnswered, HelloRefused, TrackingAnswered
  <1>3. CASE SetupAnswered
    <2>1. PICK i \in {3, 4}, as \in {"ok", "error", "push"} :
              /\ pc = Steps[i]
              /\ ReadReply(as)
              /\ IF as = "error"
                 THEN Raise
                 ELSE NegotiateAfter(i, version) /\ Stays /\ UNCHANGED command
      BY <1>3 DEF SetupAnswered
    <2>2. pc = IF i = 3 THEN "SELECT" ELSE "SETNAME"
      BY <2>1 DEF Steps
    <2>3. as \in Arrived /\ as \notin {"push", "garbage"} /\ open
      BY <1>1, <2>1
    <2>4. as = "ok"
      BY <2>1, <2>2, <2>3 DEF Raise, Hangup, Stays, Negotiating
    <2>5. UNCHANGED <<version, inMulti, command, answer, entry>>
      BY <1>3, <2>1, <2>4 DEF SetupAnswered
    <2> QED
      BY <2>1, <2>2, <2>3, <2>4, <2>5
  <1>4. CASE CommandAnswered
    BY <1>1, <1>4 DEF CommandAnswered
  <1>5. CASE SlotFilled
    BY <1>1, <1>5 DEF SlotFilled
  <1> QED
    BY <1>2, <1>3, <1>4, <1>5 DEF ReadSteps

-----------------------------------------------------------------------------
\* Only the commands of the call in progress are on their way.

LEMMA EmptyIsASequence == \A S : <<>> \in Seq(S) /\ (\A x \in S : <<x>> \in Seq(S))
  OBVIOUS

LEMMA InitOwn == Init => OwnInv
  BY EmptyIsASequence DEF Init, OwnInv, Usable

\* What the constructor and the caller gave stays as it is.
LEMMA CallerKept ==
  ASSUME OwnInv, [Next]_vars
  PROVE  /\ config' = config /\ config' \in Configs
         /\ queue' \in Seq(Pipelined)
         /\ command' \in Executed \cup {"none"}
         /\ pc' \in {"before", "roundtrip"} => command' # "none"
  <1>0. /\ config \in Configs /\ queue \in Seq(Pipelined)
        /\ command \in Executed \cup {"none"}
        /\ pc \in {"before", "roundtrip"} => command # "none"
        /\ "none" \notin Executed
    BY CommandsAssumption DEF OwnInv, AllCommands
  <1>1. CASE Connect
    <2>1. pc' \notin {"before", "roundtrip"}
      BY <1>1, NegotiateGoes DEF Connect, Negotiating
    <2> QED
      BY <1>0, <1>1, <2>1 DEF Connect
  <1>2. CASE Close
    BY <1>0, <1>2 DEF Close, callVars
  <1>3. CASE Fail \/ InterruptConnect \/ Desynchronised
    BY <1>0, <1>3 DEF Fail, InterruptConnect, Desynchronised, Raise
  <1>4. ASSUME NEW op \in Executed, Execute(op)
        PROVE  /\ config' = config /\ queue' = queue
               /\ command' \in Executed \cup {"none"}
               /\ pc' \in {"before", "roundtrip"} => command' # "none"
    BY <1>0, <1>4 DEF Execute, Roundtrip, clientVars
  <1>5. CASE LookUp
    BY <1>0, <1>5 DEF LookUp, Roundtrip, clientVars
  <1>6. ASSUME NEW op \in Pipelined, Push(op)
        PROVE  /\ config' = config /\ queue' \in Seq(Pipelined)
               /\ UNCHANGED <<command, pc>>
    BY <1>0, <1>6 DEF Push, callVars
  <1>7. CASE ResetQueue \/ ExecuteBatch
    BY <1>0, <1>7, EmptyIsASequence DEF ResetQueue, ExecuteBatch, callVars
  <1>8. CASE Send \/ Recv \/ HandlePush
    BY <1>0, <1>8 DEF Send, Recv, HandlePush, clientVars, callVars
  <1>9. CASE Offer \/ Sweep \/ SweepEnds
    BY <1>0, <1>9 DEF Offer, Sweep, SweepEnds, clientVars
  <1>10. CASE Serve \/ ServerPush \/ Invalidate \/ LinkDown \/ UNCHANGED vars
    BY <1>0, <1>10 DEF Serve, ServerPush, Invalidate, LinkDown, vars, clientVars, callVars
  <1>11. CASE ReadSteps
    <2>1. config' = config /\ queue' = queue /\ command' \in {command, "none"}
      BY <1>11 DEF ReadSteps, HelloAnswered, HelloRefused, HelloUnusable, TrackingAnswered,
         SetupAnswered, CommandAnswered, SlotFilled, ReadReply, Raise
    <2>2. \/ pc' \notin {"before", "roundtrip"}
          \/ pc' = pc /\ command' = command
      <3>1. CASE HelloAnswered \/ HelloRefused \/ TrackingAnswered
        BY <3>1, NegotiateGoes
        DEF HelloAnswered, HelloRefused, TrackingAnswered, Negotiating
      <3>2. CASE SetupAnswered
        <4>1. PICK i \in {3, 4} : Raise \/ NegotiateAfter(i, version)
          BY <3>2 DEF SetupAnswered
        <4> QED
          BY <4>1, NegotiateGoes DEF Raise, Negotiating
      <3>3. CASE HelloUnusable \/ CommandAnswered \/ SlotFilled
        BY <3>3 DEF HelloUnusable, CommandAnswered, SlotFilled, Raise
      <3> QED
        BY <1>11, <3>1, <3>2, <3>3 DEF ReadSteps
    <2> QED
      BY <1>0, <2>1, <2>2
  <1> QED
    BY <1>0, <1>1, <1>2, <1>3, <1>4, <1>5, <1>6, <1>7, <1>8, <1>9, <1>10, <1>11
    DEF Next, UserStep, CallStep, ServerStep, ReadSteps

LEMMA SequencesKept ==
  ASSUME NEW S, NEW s \in Seq(S), NEW r \in Seq(S)
  PROVE  s \o r \in Seq(S) /\ (s # <<>> => Tail(s) \in Seq(S) /\ Head(s) \in S)
  OBVIOUS

LEMMA OwnStep ==
  ASSUME TypeOK, Aligned, PushesBare, OwnInv, [Next]_vars
  PROVE  OwnInv'
  <1> DEFINE Own == sending' \in Seq(Current') /\ requests' \in Seq(Current')
             Wants == pc' \in Negotiating => Wanted(pc', version')
  <1>0. config' = config
    BY CallerKept
  <1>1. ASSUME Usable' PROVE Own /\ Wants
    <2>1. CASE Connect
      <3>1. requests' = <<>> /\ \E v : v = version' /\ NegotiateAfter(0, v)
        BY <2>1 DEF Connect
      <3>2. /\ pc' \in {"out"} \cup Negotiating
            /\ pc' = "out" => sending' = <<>>
            /\ pc' \in Negotiating => sending' = <<pc'>> /\ Wanted(pc', version')
        BY <3>1, NegotiateOrder
      <3> QED
        BY <3>1, <3>2, EmptyIsASequence DEF Current
    <2>2. CASE Usable /\ Calm /\ pc' = pc /\ UNCHANGED <<sending, command>>
      <3>1. Current' = Current /\ version' = version
        BY <2>2 DEF Current, Calm
      <3> QED
        BY <2>2, <3>1, EmptyIsASequence DEF OwnInv, Calm
    <2>3. ASSUME Usable, Calm, pc \in Draining \cup {"out"}, pc' \notin Negotiating,
                 \/ sending' = sending
                 \/ pc' = "roundtrip" /\ sending' = <<command'>>
                 \/ pc' = "batch" /\ sending' = queue
          PROVE  Own /\ Wants
      <3>1. taken = written /\ sending = <<>>
        BY <2>3 DEF Aligned, Due
      <3>2. requests' = <<>>
        BY <2>3, <3>1, NothingDue DEF Calm
      <3>3. sending' \in Seq(Current')
        <4>1. pc' = "roundtrip" => Current' = {command'}
          BY DEF Current, Negotiating
        <4>2. pc' = "batch" => Current' = Pipelined
          BY DEF Current, Negotiating
        <4> QED
          BY <2>3, <3>1, <4>1, <4>2, EmptyIsASequence DEF OwnInv
      <3> QED
        BY <2>3, <3>2, <3>3, EmptyIsASequence
    <2>4. CASE Usable /\ Send
      <3>1. Current' = Current /\ UNCHANGED <<pc, version>> /\ sending' = <<>>
            /\ requests' \in {requests, requests \o sending}
        BY <2>4 DEF Current, Send, clientVars
      <3>2. sending \in Seq(Current) /\ requests \in Seq(Current)
            /\ (pc \in Negotiating => Wanted(pc, version))
        BY <2>4 DEF OwnInv
      <3>3. requests \o sending \in Seq(Current)
        BY <3>2, SequencesKept
      <3> QED
        BY <3>1, <3>2, <3>3, EmptyIsASequence
    <2>5. CASE Usable /\ (HandlePush \/ ServerPush \/ Invalidate)
      <3>1. Current' = Current /\ UNCHANGED <<pc, version, sending, requests>>
        BY <2>5 DEF Current, HandlePush, ServerPush, Invalidate, clientVars, callVars,
           serverVars
      <3> QED
        BY <2>5, <3>1 DEF OwnInv
    <2>6. CASE Usable /\ Serve
      <3>1. Current' = Current /\ UNCHANGED <<pc, version, sending>>
            /\ requests # <<>> /\ requests' = Tail(requests)
        BY <2>6 DEF Current, Serve, clientVars, callVars
      <3>2. sending \in Seq(Current) /\ requests \in Seq(Current)
            /\ (pc \in Negotiating => Wanted(pc, version))
        BY <2>6 DEF OwnInv
      <3>3. Tail(requests) \in Seq(Current)
        BY <3>1, <3>2, SequencesKept
      <3> QED
        BY <3>1, <3>2, <3>3
    <2>7. CASE ReadSteps /\ Stays /\ ~HelloUnusable
      <3>1. PICK as \in Arrived :
              /\ ReadReply(as) /\ as \notin {"push", "garbage"}
              /\ \/ pc \in Negotiating /\ \E i \in 1..4 : NegotiateAfter(i, version')
                 \/ pc = "roundtrip" /\ CommandAnswered /\ pc' \in {"out", "after"}
                 \/ pc = "batch" /\ SlotFilled /\ pc' \in {"out", "batch"}
        BY <2>7, ReadFound DEF Negotiating
      <3>2. requests' = requests /\ Usable /\ sending = <<>>
            /\ (pc # "batch" => requests = <<>>)
        BY <2>7, <3>1, ReplyFound DEF Stays
      <3>3. CASE pc \in Negotiating /\ \E i \in 1..4 : NegotiateAfter(i, version')
        <4>1. /\ pc' \in {"out"} \cup Negotiating
              /\ pc' = "out" => sending' = <<>>
              /\ pc' \in Negotiating => sending' = <<pc'>> /\ Wanted(pc', version')
          BY <3>3, NegotiateOrder
        <4>2. requests = <<>>
          BY <3>2, <3>3 DEF Negotiating
        <4> QED
          BY <3>2, <4>1, <4>2, EmptyIsASequence DEF Current
      <3>4. CASE pc = "roundtrip" /\ CommandAnswered /\ pc' \in {"out", "after"}
        <4>1. sending' = <<>> /\ requests' = <<>>
          BY <3>2, <3>4 DEF CommandAnswered
        <4> QED
          BY <3>4, <4>1, EmptyIsASequence DEF Negotiating
      <3>5. CASE pc = "batch" /\ SlotFilled /\ pc' \in {"out", "batch"}
        <4>1. sending' = <<>> /\ Current = Pipelined /\ Current' = Pipelined
          BY <3>2, <3>5 DEF SlotFilled, Current, Negotiating
        <4> QED
          BY <3>2, <3>5, <4>1, EmptyIsASequence DEF OwnInv, Negotiating
      <3> QED
        BY <3>1, <3>3, <3>4, <3>5
    <2> QED
      BY <1>1, <2>1, <2>2, <2>3, <2>4, <2>5, <2>6, <2>7, UsableSteps DEF Calm
  <1> QED
    BY <1>0, <1>1, CallerKept DEF OwnInv, Wanted

-----------------------------------------------------------------------------
\* What the server answers, and what that does to the session.

\* A refusal leaves the session as it is.
LEMMA Refusals ==
  ASSUME NEW op \in Commands, NEW r \in Refused(op)
  PROVE  /\ r.session = session
         /\ r.as \in {"error", "garbage", "odd"}
         /\ op = "HELLO" /\ r.as = "error" /\ config.caching => ~HelloGranted
         /\ op = "TRACKING" /\ r.as = "error" => ~TrackingGranted
         /\ op = "EXEC" /\ r.as = "error" /\ session.multi => ~FailedExecEnds
         /\ op \in {"EXEC", "RESET"} => r.as # "odd"
         /\ op = "RESET" => r.as = "garbage"
  <1> DEFINE Errs == \/ op \in {"SELECT", "SETNAME", "GET", "SET"}
                     \/ op = "MULTI" /\ session.multi
                     \/ op = "EXEC" /\ ~session.multi
                     \/ op = "EXEC" /\ "keeps MULTI after a failed EXEC" \in Quirks
                     \/ op = "HELLO" /\ ~config.caching /\ "refuses HELLO" \in Quirks
                     \/ op = "HELLO" /\ "refuses HELLO to a caching client" \in Quirks
                     \/ op = "TRACKING" /\ "refuses TRACKING" \in Quirks
             As == (IF Errs THEN {"error"} ELSE {})
                      \cup (IF "sends garbage" \in Quirks
                            THEN {"garbage"} \cup (IF op = "HELLO" THEN {"odd"} ELSE {})
                            ELSE {})
  <1>0. Refused(op) = {[as |-> x, session |-> session] : x \in As}
    BY Zenon DEF Refused
  <1>1. \A x \in As : /\ x = "error" => Errs
                      /\ x \in {"error", "garbage", "odd"} /\ (x = "odd" => op = "HELLO")
    OBVIOUS
  <1> HIDE DEF As
  <1>2. PICK x \in As : r = [as |-> x, session |-> session]
    BY <1>0
  <1>3. r.as = x /\ r.session = session
    BY <1>2
  <1> QED
    BY <1>1, <1>2, <1>3 DEF HelloGranted, TrackingGranted, FailedExecEnds

\* The steps of connect() change what they are about.
LEMMA SetUpGrants ==
  ASSUME session \in Sessions, config \in AllConfigs,
         NEW op \in Negotiating, NEW a \in Granted(op)
  PROVE  /\ a.as = "ok" /\ a.session.multi = session.multi
         /\ IF op = "HELLO"
            THEN a.session.proto = 3 /\ a.session.named = config.named
            ELSE a.session.proto = session.proto
         /\ IF op = "TRACKING" THEN a.session.tracking
            ELSE a.session.tracking = session.tracking
         /\ IF op = "SELECT" THEN a.session.db ELSE a.session.db = session.db
         /\ op = "SETNAME" => a.session.named
         /\ op \in {"TRACKING", "SELECT"} => a.session.named = session.named
  <1>1. CASE op = "HELLO"
    <2>1. a = [as |-> "ok", session |-> [session EXCEPT !.proto = 3, !.named = config.named]]
      BY <1>1 DEF Granted
    <2> QED
      BY <1>1, <2>1 DEF Sessions
  <1>2. CASE op = "TRACKING"
    <2>1. a = [as |-> "ok", session |-> [session EXCEPT !.tracking = TRUE]]
      BY <1>2 DEF Granted
    <2> QED
      BY <1>2, <2>1 DEF Sessions
  <1>3. CASE op = "SELECT"
    <2>1. a = [as |-> "ok", session |-> [session EXCEPT !.db = TRUE]]
      BY <1>3 DEF Granted
    <2> QED
      BY <1>3, <2>1 DEF Sessions
  <1>4. CASE op = "SETNAME"
    <2>1. a = [as |-> "ok", session |-> [session EXCEPT !.named = TRUE]]
      BY <1>4 DEF Granted
    <2> QED
      BY <1>4, <2>1 DEF Sessions
  <1> QED
    BY <1>1, <1>2, <1>3, <1>4 DEF Negotiating

\* The callers' commands leave the set-up alone, all but RESET.
LEMMA CallerGrants ==
  ASSUME session \in Sessions, NEW op \in AllCommands, NEW a \in Granted(op)
  PROVE  /\ op # "RESET" =>
               /\ a.session.proto = session.proto /\ a.session.tracking = session.tracking
               /\ a.session.db = session.db /\ a.session.named = session.named
         /\ op \in {"EXEC", "RESET"} => ~a.session.multi
         /\ op \in {"GET", "SET"} => a.session.multi = session.multi
         /\ op = "RESET" => ~a.session.tracking
         /\ op = "GET" =>
               a.as = IF session.multi THEN "queued"
                      ELSE IF session.tracking /\ session.proto = 3 THEN "value"
                      ELSE "untracked"
  <1>1. CASE op = "MULTI"
    <2>1. a = [as |-> "ok", session |-> [session EXCEPT !.multi = TRUE]]
      BY <1>1 DEF Granted
    <2> QED
      BY <1>1, <2>1 DEF Sessions
  <1>2. CASE op = "EXEC"
    <2>1. PICK x \in {"ok", "error"} :
              a = [as |-> x, session |-> [session EXCEPT !.multi = FALSE]]
      BY <1>2 DEF Granted
    <2> QED
      BY <1>2, <2>1 DEF Sessions
  <1>3. CASE op = "RESET"
    <2>1. a.session = FreshSession
      BY <1>3 DEF Granted
    <2> QED
      BY <1>3, <2>1 DEF FreshSession
  <1>4. CASE op = "SET"
    <2>1. a.session = session
      BY <1>4 DEF Granted
    <2> QED
      BY <1>4, <2>1
  <1>5. CASE op = "GET"
    <2>1. a = [as |-> IF session.multi THEN "queued"
                      ELSE IF session.tracking /\ session.proto = 3 THEN "value"
                      ELSE "untracked",
               session |-> session]
      BY <1>5 DEF Granted
    <2> QED
      BY <1>5, <2>1
  <1> QED
    BY <1>1, <1>2, <1>3, <1>4, <1>5 DEF AllCommands

\* What the server answers is the command of the call in progress.
LEMMA CommandServed ==
  ASSUME TypeOK, Aligned, OwnInv, Usable, Serve
  PROVE  \E op \in Current : \E a \in Granted(op) \cup Refused(op) :
            /\ session' = a.session /\ Arrived' = Arrived \cup {a.as}
            /\ \/ pc = "batch" /\ op \in Pipelined
               \/ pc = "roundtrip" /\ op = command /\ op \in Executed
                     /\ Arrived = {} /\ taken = served
               \/ pc \in Negotiating /\ op = pc /\ Arrived = {} /\ taken = served
            /\ UNCHANGED <<config, clientVars, callVars, taken>> /\ served' = served + 1
  <1>1. requests \in Seq(Current) /\ requests # <<>>
    BY DEF Serve, OwnInv
  <1>2. requests \in Seq(Commands) /\ Head(requests) \in Current
        /\ Head(requests) \in Commands
    BY <1>1, Numbers, SequencesKept
  <1>3. PICK a \in Granted(Head(requests)) \cup Refused(Head(requests)) :
            /\ incoming' = Append(incoming, Reply(a.as, served + 1))
            /\ session' = a.session
    BY DEF Serve
  <1>4. Arrived' = Arrived \cup {a.as}
    <2>1. a.as \in {"ok", "value", "untracked", "queued", "error", "garbage", "odd"}
      BY <1>2, Served DEF TypeOK, ServerTyped
    <2>2. incoming \in Seq(Frames) /\ served + 1 \in Nat
      BY Numbers
    <2>3. Reply(a.as, served + 1) \in Frames /\ Reply(a.as, served + 1).kind = "reply"
          /\ Reply(a.as, served + 1).as = a.as
      BY <2>1, <2>2, ReplyTyped DEF Reply
    <2> QED
      BY <1>3, <2>2, <2>3, RepliesAppended DEF Arrived
  <1>5. pc \notin Draining \cup {"out"}
    BY <1>1, NothingDue DEF Aligned, Due
  <1>6. pc # "batch" => Arrived = {} /\ taken = served
    BY <1>1, OneDue
  <1>7. \/ pc = "batch" /\ Current = Pipelined
        \/ pc = "roundtrip" /\ Current = {command} /\ command \in Executed
        \/ pc \in Negotiating /\ Current = {pc}
    <2>1. pc \in Negotiating \cup {"roundtrip", "batch"}
      BY <1>5 DEF TypeOK, CallTyped, Labels
    <2>2. pc = "roundtrip" => command \in Executed
      BY DEF OwnInv
    <2> QED
      BY <2>1, <2>2 DEF Current, Negotiating
  <1>8. UNCHANGED <<config, clientVars, callVars, taken>> /\ served' = served + 1
    BY DEF Serve, countVars
  <1>9. a \in Granted(Head(requests)) \cup Refused(Head(requests))
    BY <1>3
  <1>10. \/ pc = "batch" /\ Head(requests) \in Pipelined
         \/ pc = "roundtrip" /\ Head(requests) = command /\ Head(requests) \in Executed
               /\ Arrived = {} /\ taken = served
         \/ pc \in Negotiating /\ Head(requests) = pc /\ Arrived = {} /\ taken = served
    BY <1>2, <1>6, <1>7 DEF Negotiating
  <1> QED
    BY <1>2, <1>3, <1>4, <1>8, <1>9, <1>10

\* A push comes or is consumed: nothing is said about the session.
LEMMA PushesSayNothing ==
  ASSUME TypeOK, HandlePush \/ ServerPush \/ Invalidate
  PROVE  /\ Arrived' \subseteq Arrived
         /\ UNCHANGED <<config, open, poisoned, version, inMulti, pc, sending, command,
                        answer, session, requests, served, taken, written>>
         /\ entry' \in {entry, "none"}
  <1>1. incoming \in Seq(Frames) /\ served \in Nat
    BY Numbers
  <1>2. CASE HandlePush
    <2>1. incoming # <<>> /\ incoming' = Tail(incoming)
      BY <1>2, TakeTyped DEF HandlePush, Parsed, TakeFrame, TypeOK
    <2>2. Arrived' \subseteq Arrived
      BY <1>1, <2>1, RepliesTaken DEF Arrived
    <2> QED
      BY <1>2, <2>2 DEF HandlePush, serverVars, countVars
  <1>3. CASE ServerPush \/ Invalidate
    <2>1. PICK kind \in {"push", "invalidate", "wrapped push"} :
              incoming' = Append(incoming, [kind |-> kind, as |-> "push", at |-> served])
      BY <1>3 DEF ServerPush, Invalidate
    <2>2. /\ [kind |-> kind, as |-> "push", at |-> served] \in Frames
          /\ [kind |-> kind, as |-> "push", at |-> served].kind # "reply"
      BY <1>1, PushTyped
    <2>3. Arrived' = Arrived
      BY <1>1, <2>1, <2>2, RepliesAppended DEF Arrived
    <2> QED
      BY <1>3, <2>3 DEF ServerPush, Invalidate, clientVars, callVars, serverVars, countVars
  <1> QED
    BY <1>2, <1>3

-----------------------------------------------------------------------------
\* A connection is set up as it was constructed.

LEMMA InitSetUp == Init => SetUpInv
  BY DEF Init, SetUpInv, Usable

LEMMA SetUpSteady ==
  ASSUME SetUpInv, Usable, UNCHANGED <<config, version, session, served, taken>>,
         Arrived' \subseteq Arrived, pc' = pc \/ (pc \notin Negotiating /\ pc' \notin Negotiating)
  PROVE  SetUpInv'
  <1>1. Ready(pc)'
    BY DEF SetUpInv, Ready, Negotiating
  <1>2. ASSUME pc' \in Negotiating, NEW as \in Arrived'
        PROVE  Says(as)'
    <2>1. Says(as) /\ pc' = pc
      BY <1>2 DEF SetUpInv
    <2> QED
      BY <2>1 DEF Says, Effect
  <1>3. pc' = "HELLO" /\ served' = taken' => session'.proto = 2
    BY DEF SetUpInv, Negotiating
  <1> QED
    BY <1>1, <1>2, <1>3 DEF SetUpInv

LEMMA SetUpConnect ==
  ASSUME TypeOK, Connect
  PROVE  SetUpInv'
  <1>1. /\ session' = FreshSession /\ incoming' = <<>> /\ config' = config
        /\ NegotiateAfter(0, version')
        /\ config.protocol # 3 => version' = 2
    BY DEF Connect
  <1>2. /\ pc' \in {"out"} \cup Negotiating
        /\ pc' # "HELLO" => ~Wanted("HELLO", version')
        /\ pc' \notin {"HELLO", "TRACKING"} => ~Wanted("TRACKING", version')
        /\ pc' \notin {"HELLO", "TRACKING", "SELECT"} => ~Wanted("SELECT", version')
        /\ pc' = "out" => ~Wanted("SETNAME", version')
    BY <1>1, NegotiateOrder
  <1>3. Arrived' = {}
    BY <1>1, EmptyTyped DEF Arrived, RepliesIn
  <1>4. /\ pc' # "HELLO" => version' = 2
        /\ pc' \notin {"HELLO", "TRACKING"} => ~config.caching
        /\ pc' \notin {"HELLO", "TRACKING", "SELECT"} => ~config.db
        /\ pc' = "out" /\ version' = 2 => ~config.named
    BY <1>1, <1>2 DEF Wanted
  <1>6. session'.proto = 2
    BY <1>1 DEF FreshSession
  <1>7. pc' \notin Negotiating => pc' = "out" /\ pc' # "HELLO"
    BY <1>2 DEF Negotiating
  <1>5. Ready(pc)'
    BY <1>1, <1>4, <1>6, <1>7 DEF Ready
  <1> QED
    BY <1>1, <1>3, <1>5 DEF SetUpInv, FreshSession

LEMMA SetUpServe ==
  ASSUME TypeOK, Aligned, TrackingGranted, NoReset, OwnInv, SetUpInv, Usable, Serve
  PROVE  SetUpInv'
  <1>1. PICK op \in Current : \E a \in Granted(op) \cup Refused(op) :
            /\ session' = a.session /\ Arrived' = Arrived \cup {a.as}
            /\ \/ pc = "batch" /\ op \in Pipelined
               \/ pc = "roundtrip" /\ op = command /\ op \in Executed
                     /\ Arrived = {} /\ taken = served
               \/ pc \in Negotiating /\ op = pc /\ Arrived = {} /\ taken = served
            /\ UNCHANGED <<config, clientVars, callVars, taken>> /\ served' = served + 1
    BY CommandServed
  <1>2. PICK a \in Granted(op) \cup Refused(op) :
            /\ session' = a.session /\ Arrived' = Arrived \cup {a.as}
            /\ \/ pc = "batch" /\ op \in Pipelined
               \/ pc = "roundtrip" /\ op = command /\ op \in Executed
                     /\ Arrived = {} /\ taken = served
               \/ pc \in Negotiating /\ op = pc /\ Arrived = {} /\ taken = served
            /\ UNCHANGED <<config, clientVars, callVars, taken>> /\ served' = served + 1
    BY <1>1
  <1>3. UNCHANGED <<pc, version, config, taken>> /\ served' = served + 1
    BY <1>2 DEF clientVars, callVars
  <1>4. session \in Sessions /\ config \in AllConfigs /\ served \in Nat
    BY DEF TypeOK, ServerTyped
  <1>5. CASE pc \in Negotiating
    <2>1. op = pc /\ Arrived' = {a.as} /\ taken' # served'
      BY <1>2, <1>3, <1>4, <1>5 DEF Negotiating
    <2>2. CASE a \in Refused(op)
      <3>1. session' = session /\ a.as \in {"error", "garbage", "odd"}
            /\ (op = "TRACKING" => a.as # "error")
        BY <1>2, <1>5, <2>1, <2>2, Refusals DEF Commands
      <3>2. Says(a.as)'
        BY <1>2, <1>3, <1>5, <2>1, <3>1 DEF Says, SetUpInv
      <3>3. Ready(pc)'
        BY <1>3, <3>1 DEF Ready, SetUpInv
      <3> QED
        BY <1>3, <2>1, <3>1, <3>2, <3>3 DEF SetUpInv
    <2>3. CASE a \in Granted(op)
      <3>1. /\ a.as = "ok"
            /\ IF op = "HELLO"
               THEN a.session.proto = 3 /\ a.session.named = config.named
               ELSE a.session.proto = session.proto
            /\ IF op = "TRACKING" THEN a.session.tracking
               ELSE a.session.tracking = session.tracking
            /\ IF op = "SELECT" THEN a.session.db ELSE a.session.db = session.db
            /\ op = "SETNAME" => a.session.named
            /\ op \in {"TRACKING", "SELECT"} => a.session.named = session.named
        BY <1>4, <1>5, <2>1, <2>3, SetUpGrants
      <3>2. Effect(pc)'
        BY <1>2, <1>3, <1>5, <2>1, <3>1 DEF Effect, Negotiating
      <3>3. Wanted(pc, version)
        BY <1>5 DEF OwnInv
      <3>4. Ready(pc)'
        BY <1>2, <1>3, <1>5, <2>1, <3>1, <3>3 DEF Ready, SetUpInv, Negotiating, Wanted
      <3>5. (session'.db => config.db) /\ (session'.named => config.named)
        BY <1>2, <1>3, <1>5, <2>1, <3>1, <3>3 DEF SetUpInv, Negotiating, Wanted
      <3> QED
        BY <1>3, <2>1, <3>1, <3>2, <3>4, <3>5 DEF SetUpInv, Says
    <2> QED
      BY <2>2, <2>3
  <1>6. CASE pc \notin Negotiating
    <2>1. op \in AllCommands /\ op # "RESET" /\ op \in Commands
      BY <1>2, <1>6, CommandsAssumption DEF NoReset, Commands
    <2>2. /\ a.session.proto = session.proto /\ a.session.tracking = session.tracking
          /\ a.session.db = session.db /\ a.session.named = session.named
      BY <1>4, <2>1, CallerGrants, Refusals
    <2>3. Ready(pc)'
      BY <1>2, <1>3, <2>2 DEF Ready, SetUpInv
    <2> QED
      BY <1>2, <1>3, <1>6, <2>2, <2>3 DEF SetUpInv, Negotiating
  <1> QED
    BY <1>5, <1>6

LEMMA SetUpRead ==
  ASSUME TypeOK, Aligned, PushesBare, OwnInv, SetUpInv, ReadSteps, Stays, ~HelloUnusable
  PROVE  SetUpInv'
  <1>1. PICK as \in Arrived :
            /\ ReadReply(as)
            /\ \/ \/ pc = "HELLO" /\ as = "ok" /\ version' = 3 /\ NegotiateAfter(1, 3)
                  \/ pc = "HELLO" /\ as = "error" /\ version' = 2 /\ NegotiateAfter(1, 2)
                  \/ pc = "TRACKING" /\ as \in {"ok", "error"} /\ UNCHANGED version
                        /\ NegotiateAfter(2, version)
                  \/ pc = "SELECT" /\ as = "ok" /\ UNCHANGED version
                        /\ NegotiateAfter(3, version)
                  \/ pc = "SETNAME" /\ as = "ok" /\ UNCHANGED version
                        /\ NegotiateAfter(4, version)
               \/ pc \in {"roundtrip", "batch"} /\ UNCHANGED version
                     /\ pc' \in {"out", "after", "batch"}
    BY ReadFound DEF CommandAnswered, SlotFilled
  <1>2. /\ Usable /\ (pc # "batch" => Arrived' = {})
        /\ UNCHANGED <<config, session>>
    BY <1>1, ReplyFound DEF Stays, TakeFrame, ReadReply, Arrived
  <1>3. pc \in Negotiating => Says(as)
    BY <1>1, <1>2 DEF SetUpInv
  <1>4. CASE pc \in {"roundtrip", "batch"}
    BY <1>1, <1>2, <1>4 DEF SetUpInv, Ready, Negotiating
  <1>5. CASE pc = "HELLO"
    <2>1. /\ \E v \in {2, 3} : NegotiateAfter(1, v) /\ v = version'
          /\ session.proto = version' /\ version' \in {2, 3}
          /\ version' = 3 => session.named = config.named
      <3>1. Says(as)
        BY <1>3, <1>5 DEF Negotiating
      <3>2. \/ as = "ok" /\ version' = 3 /\ NegotiateAfter(1, 3)
            \/ as = "error" /\ version' = 2 /\ NegotiateAfter(1, 2)
        BY <1>1, <1>5
      <3>3. as = "ok" => session.proto = 3 /\ session.named = config.named
        BY <1>5, <3>1 DEF Says, Effect
      <3>4. as = "error" => session.proto = 2
        BY <1>5, <3>1 DEF Says
      <3>5. version' \in {2, 3} /\ session.proto = version'
            /\ (version' = 3 => session.named = config.named)
        <4>1. (as = "ok" /\ version' = 3) \/ (as = "error" /\ version' = 2)
          BY <3>2
        <4>2. CASE as = "ok"
          <5>1. version' = 3
            BY <4>1, <4>2
          <5> QED
            BY <3>3, <4>2, <5>1
        <4>3. CASE as = "error"
          <5>1. version' = 2
            BY <4>1, <4>3
          <5> QED
            BY <3>4, <4>3, <5>1
        <4> QED
          BY <4>1, <4>2, <4>3
      <3>6. \E v \in {2, 3} : NegotiateAfter(1, v) /\ v = version'
        BY <3>2, Zenon
      <3> QED
        BY <3>5, <3>6, Zenon
    <2>2. /\ pc' \in {"out"} \cup Negotiating /\ pc' # "HELLO"
          /\ pc' \notin {"HELLO", "TRACKING"} => ~Wanted("TRACKING", version')
          /\ pc' \notin {"HELLO", "TRACKING", "SELECT"} => ~Wanted("SELECT", version')
          /\ pc' = "out" => ~Wanted("SETNAME", version')
      BY <2>1, NegotiateOrder
    <2>3. Ready(pc)'
      BY <1>2, <2>1, <2>2 DEF Ready, Wanted, Negotiating
    <2> QED
      BY <1>2, <1>5, <2>2, <2>3 DEF SetUpInv
  <1>6. CASE pc = "TRACKING"
    <2>1. /\ NegotiateAfter(2, version) /\ session.tracking /\ version' = version
          /\ Ready("TRACKING")
      BY <1>1, <1>2, <1>3, <1>6 DEF Says, Effect, Negotiating, SetUpInv
    <2>2. /\ pc' \in {"out"} \cup Negotiating /\ pc' # "HELLO"
          /\ pc' \notin {"HELLO", "TRACKING", "SELECT"} => ~Wanted("SELECT", version)
          /\ pc' = "out" => ~Wanted("SETNAME", version)
      BY <2>1, NegotiateOrder
    <2>3. Ready(pc)'
      BY <1>2, <2>1, <2>2 DEF Ready, Wanted, Negotiating
    <2> QED
      BY <1>2, <1>6, <2>2, <2>3 DEF SetUpInv
  <1>7. CASE pc = "SELECT"
    <2>1. /\ NegotiateAfter(3, version) /\ session.db /\ version' = version
          /\ Ready("SELECT")
      BY <1>1, <1>2, <1>3, <1>7 DEF Says, Effect, Negotiating, SetUpInv
    <2>2. /\ pc' \in {"out"} \cup Negotiating /\ pc' # "HELLO"
          /\ pc' = "out" => ~Wanted("SETNAME", version)
      BY <2>1, NegotiateOrder
    <2>3. Ready(pc)'
      BY <1>2, <2>1, <2>2 DEF Ready, Wanted, Negotiating
    <2> QED
      BY <1>2, <1>7, <2>2, <2>3 DEF SetUpInv
  <1>8. CASE pc = "SETNAME"
    <2>1. /\ NegotiateAfter(4, version) /\ session.named /\ version' = version
          /\ Ready("SETNAME")
      BY <1>1, <1>2, <1>3, <1>8 DEF Says, Effect, Negotiating, SetUpInv
    <2>2. pc' \in {"out"} \cup Negotiating /\ pc' # "HELLO"
      BY <2>1, NegotiateOrder
    <2>3. Ready(pc)'
      BY <1>2, <2>1, <2>2 DEF Ready, Negotiating
    <2> QED
      BY <1>2, <1>8, <2>2, <2>3 DEF SetUpInv
  <1> QED
    BY <1>1, <1>4, <1>5, <1>6, <1>7, <1>8

LEMMA SetUpStep ==
  ASSUME TypeOK, Aligned, PushesBare, TrackingGranted, NoReset, OwnInv, SetUpInv,
         [Next]_vars
  PROVE  SetUpInv'
  <1>1. CASE ~Usable'
    BY <1>1 DEF SetUpInv
  <1>2. CASE Connect
    BY <1>2, SetUpConnect
  <1>3. CASE Usable /\ (Calm \/ Send)
    <2>1. /\ UNCHANGED <<config, version, session, served, taken, incoming>>
          /\ pc' = pc \/ (pc \notin Negotiating /\ pc' \notin Negotiating)
      BY <1>3 DEF Calm, Send, clientVars, streamVars, Draining, Negotiating
    <2>2. Arrived' = Arrived
      BY <2>1 DEF Arrived
    <2> QED
      BY <1>3, <2>1, <2>2, SetUpSteady
  <1>4. CASE Usable /\ (HandlePush \/ ServerPush \/ Invalidate)
    BY <1>4, PushesSayNothing, SetUpSteady
  <1>5. CASE Usable /\ Serve
    BY <1>5, SetUpServe
  <1>6. CASE ReadSteps /\ Stays /\ ~HelloUnusable
    BY <1>6, SetUpRead
  <1> QED
    BY <1>1, <1>2, <1>3, <1>4, <1>5, <1>6, UsableSteps

-----------------------------------------------------------------------------
\* The client knows of every transaction.

LEMMA InitTransaction == Init => TransactionInv
  BY DEF Init, TransactionInv, Usable

LEMMA TransactionServe ==
  ASSUME TypeOK, Aligned, FailedExecEnds, NoPipelinedMulti, OwnInv, TransactionInv,
         Usable, Serve
  PROVE  TransactionInv'
  <1>1. PICK op \in Current : \E a \in Granted(op) \cup Refused(op) :
            /\ session' = a.session /\ Arrived' = Arrived \cup {a.as}
            /\ \/ pc = "batch" /\ op \in Pipelined
               \/ pc = "roundtrip" /\ op = command /\ op \in Executed
                     /\ Arrived = {} /\ taken = served
               \/ pc \in Negotiating /\ op = pc /\ Arrived = {} /\ taken = served
            /\ UNCHANGED <<config, clientVars, callVars, taken>> /\ served' = served + 1
    BY CommandServed
  <1>2. PICK a \in Granted(op) \cup Refused(op) :
            /\ session' = a.session /\ Arrived' = Arrived \cup {a.as}
            /\ \/ pc = "batch" /\ op \in Pipelined
               \/ pc = "roundtrip" /\ op = command /\ op \in Executed
                     /\ Arrived = {} /\ taken = served
               \/ pc \in Negotiating /\ op = pc /\ Arrived = {} /\ taken = served
            /\ UNCHANGED <<config, clientVars, callVars, taken>> /\ served' = served + 1
    BY <1>1
  <1>3. UNCHANGED <<pc, command, inMulti>>
    BY <1>2 DEF clientVars, callVars
  <1>4. session \in Sessions /\ config \in AllConfigs
    BY DEF TypeOK, ServerTyped
  <1>5. session.multi => inMulti \/ (pc = "roundtrip" /\ command = "MULTI")
    BY DEF TransactionInv
  <1>6. CASE pc \in Negotiating
    <2>1. op = pc /\ op \in Negotiating /\ op \in Commands
      BY <1>2, <1>6 DEF Negotiating, Commands
    <2>2. a.session.multi = session.multi
      BY <1>4, <2>1, SetUpGrants, Refusals
    <2> QED
      BY <1>2, <1>3, <1>5, <1>6, <2>2 DEF TransactionInv, Negotiating
  <1>7. CASE pc \notin Negotiating
    <2>1. op \in AllCommands /\ op \in Commands
      BY <1>2, <1>7, CommandsAssumption DEF Commands
    <2>2. op # "MULTI" => (a.session.multi => session.multi)
      BY <1>4, <2>1, CallerGrants, Refusals DEF AllCommands
    <2>3. op = "MULTI" => pc = "roundtrip" /\ command = "MULTI"
      BY <1>2, <1>7 DEF NoPipelinedMulti
    <2>4. session'.multi => inMulti' \/ (pc' = "roundtrip" /\ command' = "MULTI")
      BY <1>2, <1>3, <1>5, <2>2, <2>3
    <2>5. ASSUME pc = "roundtrip", command \in {"EXEC", "RESET"}, a.session.multi
          PROVE  Arrived' \subseteq {"garbage"}
      <3>1. op = command /\ Arrived' = {a.as} /\ a \in Refused(op)
        BY <1>2, <1>4, <2>1, <2>5, CallerGrants DEF Negotiating
      <3>2. /\ a.session = session /\ a.as \in {"error", "garbage", "odd"}
            /\ op = "EXEC" /\ a.as = "error" /\ session.multi => ~FailedExecEnds
            /\ op \in {"EXEC", "RESET"} => a.as # "odd"
            /\ op = "RESET" => a.as = "garbage"
        BY <2>1, <3>1, Refusals
      <3> QED
        BY <2>5, <3>1, <3>2
    <2> QED
      BY <1>2, <1>3, <2>4, <2>5 DEF TransactionInv
  <1> QED
    BY <1>6, <1>7

LEMMA TransactionRead ==
  ASSUME TypeOK, Aligned, PushesBare, TransactionInv, ReadSteps, Stays, ~HelloUnusable
  PROVE  TransactionInv'
  <1>1. PICK as \in Arrived :
            /\ ReadReply(as) /\ as # "garbage"
            /\ \/ pc \notin {"roundtrip", "batch"} /\ UNCHANGED inMulti
                     /\ \E i \in 1..4, v \in {2, 3, version} : NegotiateAfter(i, v)
               \/ pc = "roundtrip" /\ CommandAnswered /\ pc' \in {"out", "after"}
               \/ pc = "batch" /\ SlotFilled /\ pc' \in {"out", "batch"}
    BY ReadFound
  <1>2. Usable /\ session' = session
    BY <1>1, ReplyFound DEF ReadReply
  <1>3. session.multi => inMulti \/ (pc = "roundtrip" /\ command = "MULTI")
    BY <1>2 DEF TransactionInv
  <1>4. pc' # "roundtrip"
    BY <1>1, NegotiateGoes DEF Negotiating
  <1>5. CASE pc # "roundtrip"
    <2>1. inMulti' = inMulti
      BY <1>1, <1>5 DEF SlotFilled
    <2> QED
      BY <1>2, <1>3, <1>4, <1>5, <2>1 DEF TransactionInv
  <1>6. CASE pc = "roundtrip"
    <2>1. inMulti' = IF inMulti THEN command \notin {"EXEC", "RESET"} ELSE command = "MULTI"
      BY <1>1, <1>6 DEF CommandAnswered
    <2>2. session.multi => command \notin {"EXEC", "RESET"}
      BY <1>1, <1>2, <1>6 DEF TransactionInv
    <2> QED
      BY <1>2, <1>3, <1>4, <2>1, <2>2 DEF TransactionInv
  <1> QED
    BY <1>5, <1>6

LEMMA TransactionStep ==
  ASSUME TypeOK, Aligned, PushesBare, FailedExecEnds, NoPipelinedMulti, OwnInv,
         TransactionInv, [Next]_vars
  PROVE  TransactionInv'
  <1>1. CASE ~Usable'
    BY <1>1 DEF TransactionInv
  <1>2. CASE Connect
    BY <1>2 DEF Connect, TransactionInv, FreshSession
  <1>3. CASE Usable /\ (Send \/ HandlePush \/ ServerPush \/ Invalidate)
    <2>1. /\ UNCHANGED <<session, inMulti, pc, command>>
          /\ Arrived' \subseteq Arrived
      BY <1>3, PushesSayNothing DEF Send, clientVars, streamVars, Arrived
    <2> QED
      BY <1>3, <2>1 DEF TransactionInv
  <1>4. CASE Usable /\ Calm /\ pc' = pc /\ UNCHANGED <<sending, command>>
    <2>1. UNCHANGED <<session, inMulti>> /\ Arrived' = Arrived
      BY <1>4 DEF Calm, Arrived
    <2> QED
      BY <1>4, <2>1 DEF TransactionInv
  <1>5. CASE Usable /\ Calm /\ pc \in Draining \cup {"out"}
    <2>1. UNCHANGED <<session, inMulti>> /\ Arrived' = Arrived
      BY <1>5 DEF Calm, Arrived
    <2>2. taken = written
      BY <1>5 DEF Aligned, Due
    <2>3. Arrived = {}
      BY <1>5, <2>2, NothingDue
    <2> QED
      BY <1>5, <2>1, <2>3 DEF TransactionInv, Draining
  <1>6. CASE Usable /\ Serve
    BY <1>6, TransactionServe
  <1>7. CASE ReadSteps /\ Stays /\ ~HelloUnusable
    BY <1>7, TransactionRead
  <1> QED
    BY <1>1, <1>2, <1>3, <1>4, <1>5, <1>6, <1>7, UsableSteps DEF Calm

-----------------------------------------------------------------------------
\* Only values that the server will invalidate are kept.

LEMMA InitCache == Init => CacheInv
  BY DEF Init, CacheInv, Usable

\* What is cached and what is known of the version, where nothing is heard.
LEMMA CacheSteady ==
  ASSUME CacheInv, Usable, UNCHANGED <<config, version, session>>,
         Arrived' \subseteq Arrived, {answer, entry}' \subseteq {"none", "value"},
         \/ UNCHANGED <<pc, command>>
         \/ pc # "HELLO" /\ pc' \notin {"HELLO", "roundtrip"}
         \/ pc # "HELLO" /\ pc' # "HELLO" /\ Arrived' = {}
  PROVE  CacheInv'
  BY DEF CacheInv

LEMMA CacheConnect ==
  ASSUME OwnInv, CacheInv, Connect
  PROVE  CacheInv'
  <1>1. /\ config' = config /\ incoming' = <<>> /\ UNCHANGED <<answer, entry>>
        /\ config.protocol = 3 => NegotiateAfter(0, version)
    BY DEF Connect
  <1>2. Arrived' = {}
    BY <1>1, EmptyTyped DEF Arrived, RepliesIn
  <1>3. config.caching => config.protocol = 3
    BY ConfigsAssumption DEF OwnInv
  <1>4. config.caching => pc' = "HELLO"
    <2>1. ASSUME config.protocol = 3, pc' # "HELLO" PROVE FALSE
      <3>1. ~Wanted("HELLO", version)
        BY <1>1, <2>1, NegotiateOrder
      <3> QED
        BY <2>1, <3>1 DEF Wanted
    <2> QED
      BY <1>3, <2>1
  <1>5. pc' # "roundtrip"
    BY NegotiateGoes DEF Connect, Negotiating
  <1> QED
    BY <1>1, <1>2, <1>4, <1>5 DEF CacheInv

LEMMA CacheServe ==
  ASSUME TypeOK, Aligned, HelloGranted, OwnInv, CacheInv, Usable, Serve
  PROVE  CacheInv'
  <1>1. PICK op \in Current : \E a \in Granted(op) \cup Refused(op) :
            /\ session' = a.session /\ Arrived' = Arrived \cup {a.as}
            /\ \/ pc = "batch" /\ op \in Pipelined
               \/ pc = "roundtrip" /\ op = command /\ op \in Executed
                     /\ Arrived = {} /\ taken = served
               \/ pc \in Negotiating /\ op = pc /\ Arrived = {} /\ taken = served
            /\ UNCHANGED <<config, clientVars, callVars, taken>> /\ served' = served + 1
    BY CommandServed
  <1>2. PICK a \in Granted(op) \cup Refused(op) :
            /\ session' = a.session /\ Arrived' = Arrived \cup {a.as}
            /\ \/ pc = "batch" /\ op \in Pipelined
               \/ pc = "roundtrip" /\ op = command /\ op \in Executed
                     /\ Arrived = {} /\ taken = served
               \/ pc \in Negotiating /\ op = pc /\ Arrived = {} /\ taken = served
            /\ UNCHANGED <<config, clientVars, callVars, taken>> /\ served' = served + 1
    BY <1>1
  <1>3. UNCHANGED <<config, version, pc, command, answer, entry>>
    BY <1>2 DEF clientVars, callVars
  <1>4. session \in Sessions /\ config \in AllConfigs
    BY DEF TypeOK, ServerTyped
  <1>5. ASSUME config.caching, pc = "HELLO"
        PROVE  "error" \notin Arrived'
    <2>1. op = "HELLO" /\ op \in Commands /\ op \in Negotiating /\ Arrived' = {a.as}
      BY <1>2, <1>5 DEF Commands, Negotiating
    <2>2. a.as # "error"
      BY <1>4, <1>5, <2>1, SetUpGrants, Refusals
    <2> QED
      BY <2>1, <2>2
  <1>6. ASSUME pc = "roundtrip", command = "GET"
        PROVE  /\ "ok" \notin Arrived'
               /\ "queued" \in Arrived' => a.session.multi
               /\ "untracked" \in Arrived' =>
                     ~(a.session.tracking /\ a.session.proto = 3)
    <2>1. op = "GET" /\ op \in Commands /\ op \in AllCommands /\ Arrived' = {a.as}
      BY <1>2, <1>6 DEF Commands, AllCommands, Negotiating
    <2>2. CASE a \in Granted(op)
      <3>1. a.as = IF session.multi THEN "queued"
                   ELSE IF session.tracking /\ session.proto = 3 THEN "value"
                   ELSE "untracked"
        BY <1>4, <2>1, <2>2, CallerGrants
      <3>2. /\ a.session.proto = session.proto /\ a.session.tracking = session.tracking
            /\ a.session.multi = session.multi
        <4>1. op # "RESET" /\ op \in {"GET", "SET"}
          BY <2>1
        <4> QED
          BY <1>4, <2>1, <2>2, <4>1, CallerGrants
      <3> QED
        BY <2>1, <3>1, <3>2
    <2>3. CASE a \in Refused(op)
      <3>1. a.as \in {"error", "garbage", "odd"}
        BY <2>1, <2>3, Refusals
      <3> QED
        BY <2>1, <3>1
    <2> QED
      BY <2>2, <2>3
  <1> QED
    BY <1>2, <1>3, <1>5, <1>6 DEF CacheInv

\* What a cacheable reply is: between commands, on a connection that tracks.
LEMMA CacheableIsTracked ==
  ASSUME TypeOK, Aligned, PushesBare, SetUpInv, TransactionInv, CacheInv,
         pc = "roundtrip", NEW as \in {"ok", "value", "untracked", "queued", "error", "push"},
         ReadReply(as), as # "error", Cacheable(command)
  PROVE  as = "value"
  <1>1. Usable /\ as \in Arrived /\ as # "push"
    <2>1. Usable /\ as \in Arrived
      BY ReplyFound
    <2> QED
      BY <2>1, Numbers, NoReplyIsAPush DEF Arrived
  <1>2. config.caching /\ command = "GET" /\ ~inMulti
    BY DEF Cacheable
  <1>3. version = 3 /\ session.proto = version /\ session.tracking
    BY <1>1, <1>2 DEF SetUpInv, Ready, CacheInv, Negotiating
  <1>4. ~session.multi
    BY <1>1, <1>2 DEF TransactionInv
  <1>5. /\ "ok" \notin Arrived
        /\ "queued" \in Arrived => session.multi
        /\ "untracked" \in Arrived => ~(session.tracking /\ session.proto = 3)
    BY <1>1, <1>2 DEF CacheInv
  <1> QED
    BY <1>1, <1>3, <1>4, <1>5

LEMMA CacheRead ==
  ASSUME TypeOK, Aligned, PushesBare, OwnInv, SetUpInv, TransactionInv, CacheInv,
         ReadSteps, Stays, ~HelloUnusable
  PROVE  CacheInv'
  <1>1. PICK as \in Arrived :
            /\ ReadReply(as)
            /\ \/ /\ UNCHANGED <<answer, entry>>
                  /\ \/ pc = "HELLO" /\ as = "ok" /\ version' = 3 /\ NegotiateAfter(1, 3)
                     \/ pc = "HELLO" /\ as = "error" /\ version' = 2 /\ NegotiateAfter(1, 2)
                     \/ pc # "HELLO" /\ UNCHANGED version
                           /\ \E i \in 2..4 : NegotiateAfter(i, version)
               \/ pc = "roundtrip" /\ CommandAnswered /\ pc' \in {"out", "after"}
               \/ pc = "batch" /\ SlotFilled /\ pc' \in {"out", "batch"}
    BY ReadFound
  <1>2. Usable /\ config' = config /\ pc \in Negotiating \cup {"roundtrip", "batch"}
    BY <1>1, ReplyFound, ReplyIsNext DEF ReadReply
  <1>3. pc' # "HELLO" /\ pc' # "roundtrip"
    <2>1. ASSUME NEW i \in 1..4, NEW v, NegotiateAfter(i, v)
          PROVE  pc' # "HELLO" /\ pc' # "roundtrip"
      BY <2>1, NegotiateOrder DEF Negotiating
    <2>2. 1 \in 1..4 /\ 2..4 \subseteq 1..4
      OBVIOUS
    <2>3. \/ \E i \in 1..4, v \in {2, 3, version} : NegotiateAfter(i, v)
          \/ pc' \in {"out", "after", "batch"}
      BY <1>1, <2>2
    <2> QED
      BY <2>1, <2>3
  <1>4. config.caching => version' = 3
    <2>1. CASE pc = "HELLO"
      <3>1. config.caching => as # "error"
        BY <1>1, <1>2, <2>1 DEF CacheInv
      <3> QED
        BY <1>1, <2>1, <3>1
    <2>2. CASE pc # "HELLO"
      <3>1. version' = version
        BY <1>1, <2>2 DEF CommandAnswered, SlotFilled
      <3> QED
        BY <1>2, <2>2, <3>1 DEF CacheInv
    <2> QED
      BY <2>1, <2>2
  <1>5. {answer', entry'} \subseteq {"none", "value"}
    <2>1. CASE pc = "roundtrip" /\ CommandAnswered
      <3>1. PICK r \in {"ok", "value", "untracked", "queued", "error", "push"} :
                /\ ReadReply(r)
                /\ IF r # "error" /\ Cacheable(command)
                   THEN pc' = "after" /\ answer' = r /\ UNCHANGED command
                   ELSE pc' = "out" /\ command' = "none" /\ UNCHANGED answer
        BY <2>1 DEF CommandAnswered
      <3>2. r # "error" /\ Cacheable(command) => r = "value"
        BY <2>1, <3>1, CacheableIsTracked
      <3>3. answer' \in {answer, "value"} /\ entry' = entry
        BY <2>1, <3>1, <3>2 DEF CommandAnswered
      <3> QED
        BY <3>3 DEF CacheInv
    <2>2. CASE UNCHANGED <<answer, entry>>
      BY <2>2 DEF CacheInv
    <2> QED
      BY <1>1, <2>1, <2>2 DEF SlotFilled
  <1> QED
    BY <1>2, <1>3, <1>4, <1>5 DEF CacheInv

LEMMA CacheStep ==
  ASSUME TypeOK, Aligned, PushesBare, HelloGranted, OwnInv, SetUpInv, TransactionInv,
         CacheInv, [Next]_vars
  PROVE  CacheInv'
  <1>0. {answer', entry'} \subseteq {"none", "value"} \/ ReadSteps
    <2>1. \/ answer' \in {answer, "none"} /\ entry' \in {answer, entry, "none"}
          \/ ReadSteps
      <3>1. CASE Connect \/ Close \/ ResetQueue \/ ExecuteBatch \/ Sweep \/ SweepEnds
        BY <3>1 DEF Connect, Close, ResetQueue, ExecuteBatch, Sweep, SweepEnds, callVars
      <3>2. CASE \E op \in Executed : Execute(op)
        BY <3>2 DEF Execute
      <3>3. CASE \E op \in Pipelined : Push(op)
        BY <3>3 DEF Push, callVars
      <3>4. CASE Fail \/ InterruptConnect \/ Desynchronised
        BY <3>4 DEF Fail, InterruptConnect, Desynchronised
      <3>5. CASE LookUp \/ Send \/ Recv \/ Offer \/ HandlePush
        BY <3>5 DEF LookUp, Send, Recv, Offer, HandlePush, callVars
      <3>6. CASE Serve \/ ServerPush \/ Invalidate \/ LinkDown \/ UNCHANGED vars
        BY <3>6 DEF Serve, ServerPush, Invalidate, LinkDown, vars, callVars
      <3> QED
        BY <3>1, <3>2, <3>3, <3>4, <3>5, <3>6
        DEF Next, UserStep, CallStep, ServerStep, ReadSteps
    <2> QED
      BY <2>1 DEF CacheInv
  <1>1. CASE ~Usable' /\ ~ReadSteps
    BY <1>0, <1>1 DEF CacheInv
  <1>2. CASE ~Usable' /\ ReadSteps
    <2>1. CASE ~CommandAnswered
      BY <1>2, <2>1 DEF ReadSteps, HelloAnswered, HelloRefused, HelloUnusable,
         TrackingAnswered, SetupAnswered, SlotFilled, CacheInv
    <2>2. CASE CommandAnswered
      <3>1. PICK as : ReadReply(as) /\ Stays
        BY <2>2 DEF CommandAnswered
      <3> QED
        BY <1>2, <3>1 DEF Stays, ReadReply, Parsed, Usable
    <2> QED
      BY <2>1, <2>2
  <1>3. CASE Connect
    BY <1>3, CacheConnect
  <1>4. CASE Usable /\ ~ReadSteps /\ (Send \/ HandlePush \/ ServerPush \/ Invalidate)
    <2>1. /\ UNCHANGED <<config, version, session, pc, command>>
          /\ Arrived' \subseteq Arrived
      BY <1>4, PushesSayNothing DEF Send, clientVars, streamVars, Arrived
    <2> QED
      BY <1>0, <1>4, <2>1, CacheSteady
  <1>5. CASE Usable /\ ~ReadSteps /\ Calm
    <2>1. UNCHANGED <<config, version, session>> /\ Arrived' = Arrived
      BY <1>5 DEF Calm, Arrived
    <2>2. CASE UNCHANGED <<pc, command>>
      BY <1>0, <1>5, <2>1, <2>2, CacheSteady
    <2>3. CASE pc \in Draining \cup {"out"} /\ pc' \notin Negotiating
      <3>1. taken = written
        BY <1>5, <2>3 DEF Aligned, Due
      <3>2. Arrived = {} /\ pc # "HELLO" /\ pc' # "HELLO"
        BY <1>5, <2>3, <3>1, NothingDue DEF Draining, Negotiating
      <3> QED
        BY <1>0, <1>5, <2>1, <3>2, CacheSteady
    <2> QED
      BY <1>5, <2>2, <2>3 DEF Calm
  <1>6. CASE Usable /\ Serve
    BY <1>6, CacheServe
  <1>7. CASE ReadSteps /\ Stays /\ ~HelloUnusable
    BY <1>7, CacheRead
  <1>8. CASE ReadSteps /\ Usable'
    BY <1>7, <1>8, ReadGoesOn
  <1> QED
    BY <1>1, <1>2, <1>3, <1>4, <1>5, <1>6, <1>7, <1>8, UsableSteps

-----------------------------------------------------------------------------
\* Every push is counted once.

PushesIn(s) == {i \in 1..Len(s) : s[i].kind = "push"}

LEMMA PushesFinite ==
  ASSUME NEW s \in Seq(Frames)
  PROVE  IsFiniteSet(PushesIn(s)) /\ Cardinality(PushesIn(s)) \in Nat
  <1>1. Len(s) \in Int /\ 1 \in Int
    OBVIOUS
  <1>2. IsFiniteSet(1..Len(s))
    BY <1>1, FS_Interval
  <1>3. PushesIn(s) \in SUBSET (1..Len(s))
    BY DEF PushesIn
  <1>4. IsFiniteSet(PushesIn(s))
    BY <1>2, <1>3, FS_Subset
  <1> QED
    BY <1>4, FS_CardinalityType

LEMMA PushesAppended ==
  ASSUME NEW s \in Seq(Frames), NEW f \in Frames
  PROVE  Cardinality(PushesIn(Append(s, f))) =
            IF f.kind = "push" THEN Cardinality(PushesIn(s)) + 1
            ELSE Cardinality(PushesIn(s))
  <1> DEFINE r == Append(s, f)
             n == Len(s) + 1
  <1>1. /\ Len(r) = n /\ Len(s) \in Nat
        /\ \A i \in 1..Len(s) : r[i] = s[i]
        /\ r[n] = f
    BY AppendFacts
  <1> HIDE DEF r
  <1>2. n \notin PushesIn(s)
    BY <1>1 DEF PushesIn
  <1>3. CASE f.kind = "push"
    <2>1. PushesIn(r) = PushesIn(s) \cup {n}
      BY <1>1, <1>3 DEF PushesIn
    <2> HIDE DEF n
    <2>2. Cardinality(PushesIn(s) \cup {n}) = Cardinality(PushesIn(s)) + 1
      BY <1>2, PushesFinite, FS_AddElement
    <2> QED
      BY <1>3, <2>1, <2>2 DEF r
  <1>4. CASE f.kind # "push"
    <2>1. PushesIn(r) = PushesIn(s)
      BY <1>1, <1>4 DEF PushesIn
    <2> QED
      BY <1>4, <2>1 DEF r
  <1> QED
    BY <1>3, <1>4

LEMMA PushesTaken ==
  ASSUME NEW s \in Seq(Frames), s # <<>>
  PROVE  Cardinality(PushesIn(s)) =
            IF Head(s).kind = "push" THEN Cardinality(PushesIn(Tail(s))) + 1
            ELSE Cardinality(PushesIn(Tail(s)))
  <1> DEFINE r == Tail(s)
             S == PushesIn(r)
             T == PushesIn(s) \ {1}
             f == [i \in S |-> i + 1]
  <1>1. /\ Len(s) \in Nat /\ Len(s) >= 1 /\ Len(r) = Len(s) - 1
        /\ Head(s) = s[1] /\ r \in Seq(Frames)
        /\ \A i \in 1..Len(r) : r[i] = s[i + 1]
    BY TailFacts
  <1> HIDE DEF r
  <1>2. \A i \in S : i \in Nat /\ i + 1 \in T
    BY <1>1 DEF PushesIn
  <1>3. \A j \in T : j \in Nat /\ j - 1 \in S /\ (j - 1) + 1 = j
    BY <1>1 DEF PushesIn
  <1>4. ExistsBijection(S, T)
    <2> HIDE DEF S, T
    <2>1. f \in [S -> T]
      BY <1>2
    <2>2. \A i, j \in S : f[i] = f[j] => i = j
      BY <1>2
    <2>3. \A j \in T : \E i \in S : f[i] = j
      BY <1>3
    <2> HIDE DEF f
    <2>4. f \in Injection(S, T)
      BY <2>1, <2>2 DEF Injection, IsInjective
    <2>5. f \in Surjection(S, T)
      BY <2>1, <2>3 DEF Surjection
    <2>6. f \in Bijection(S, T)
      BY <2>4, <2>5 DEF Bijection
    <2> QED
      BY <2>6 DEF ExistsBijection
  <1>5. IsFiniteSet(S) /\ Cardinality(S) \in Nat
    BY <1>1, PushesFinite
  <1>6. IsFiniteSet(T) /\ Cardinality(T) = Cardinality(S)
    <2> HIDE DEF S, T
    <2> QED
      BY <1>4, <1>5, FS_Bijection
  <1>7. CASE Head(s).kind = "push"
    <2>1. 1 \in PushesIn(s)
      BY <1>1, <1>7 DEF PushesIn
    <2>2. PushesIn(s) = T \cup {1} /\ 1 \notin T
      BY <2>1
    <2>3. Cardinality(T \cup {1}) = Cardinality(T) + 1
      <3> HIDE DEF T
      <3> QED
        BY <1>6, <2>2, FS_AddElement
    <2> QED
      BY <1>6, <1>7, <2>2, <2>3 DEF r
  <1>8. CASE Head(s).kind # "push"
    <2>1. PushesIn(s) = T
      BY <1>1, <1>8 DEF PushesIn
    <2> QED
      BY <1>6, <1>8, <2>1 DEF r
  <1> QED
    BY <1>7, <1>8

LEMMA InitCounted == Init => PushInv /\ PushesCounted
  BY DEF Init, PushInv, PushesCounted, Usable

\* Only a caching connection is tracked, or sent an invalidation.
LEMMA TrackedServe ==
  ASSUME TypeOK, Aligned, OwnInv, PushInv, Usable, Serve
  PROVE  session'.tracking => config'.caching
  <1>1. PICK op \in Current : \E a \in Granted(op) \cup Refused(op) :
            /\ session' = a.session /\ Arrived' = Arrived \cup {a.as}
            /\ \/ pc = "batch" /\ op \in Pipelined
               \/ pc = "roundtrip" /\ op = command /\ op \in Executed
                     /\ Arrived = {} /\ taken = served
               \/ pc \in Negotiating /\ op = pc /\ Arrived = {} /\ taken = served
            /\ UNCHANGED <<config, clientVars, callVars, taken>> /\ served' = served + 1
    BY CommandServed
  <1>2. PICK a \in Granted(op) \cup Refused(op) : session' = a.session
    BY <1>1
  <1>3. session \in Sessions /\ config \in AllConfigs /\ config' = config
    BY <1>1 DEF TypeOK, ServerTyped
  <1>4. session.tracking => config.caching
    BY DEF PushInv
  <1>5. CASE pc \in Negotiating
    <2>1. op = pc /\ op \in Negotiating /\ op \in Commands
      BY <1>1, <1>5 DEF Negotiating, Commands
    <2>2. op = "TRACKING" => config.caching
      BY <1>5, <2>1 DEF OwnInv, Wanted
    <2>3. op # "TRACKING" => a.session.tracking = session.tracking
      BY <1>3, <2>1, SetUpGrants, Refusals
    <2> QED
      BY <1>2, <1>3, <1>4, <2>2, <2>3
  <1>6. CASE pc \notin Negotiating
    <2>1. op \in AllCommands /\ op \in Commands
      BY <1>1, <1>6, CommandsAssumption DEF Commands
    <2>2. a.session.tracking => session.tracking
      <3>1. CASE a \in Granted(op)
        BY <1>3, <2>1, <3>1, CallerGrants
      <3>2. CASE a \in Refused(op)
        BY <2>1, <3>2, Refusals
      <3> QED
        BY <3>1, <3>2
    <2> QED
      BY <1>2, <1>3, <1>4, <2>2
  <1> QED
    BY <1>5, <1>6

\* A frame arrives on a connection that can be used.
LEMMA FrameCounted ==
  ASSUME TypeOK, Usable, PushInv, PushesCounted, NEW f \in Frames,
         incoming' = Append(incoming, f), config' = config, pushes' = pushes,
         f.kind = "invalidate" => config.caching,
         pushed' = IF f.kind = "push" THEN pushed + 1 ELSE pushed,
         session'.tracking => config.caching
  PROVE  PushInv' /\ PushesCounted'
  <1>1. incoming \in Seq(Frames) /\ pushed \in Nat /\ pushes \in Nat
    BY DEF TypeOK, StreamTyped, CountTyped, ClientTyped
  <1>2. /\ Len(incoming') = Len(incoming) + 1 /\ Len(incoming) \in Nat
        /\ \A i \in 1..Len(incoming) : incoming'[i] = incoming[i]
        /\ incoming'[Len(incoming) + 1] = f
    BY <1>1, AppendFacts
  <1>3. \A i \in 1..Len(incoming') : incoming'[i].kind = "invalidate" => config.caching
    <2> SUFFICES ASSUME NEW i \in 1..Len(incoming'), incoming'[i].kind = "invalidate"
                 PROVE  config.caching
      OBVIOUS
    <2>1. CASE i \in 1..Len(incoming)
      BY <1>2, <2>1 DEF PushInv
    <2>2. CASE i = Len(incoming) + 1
      BY <1>2, <2>2
    <2> QED
      BY <1>2, <2>1, <2>2
  <1>4. Cardinality(PushesIn(incoming')) =
            IF f.kind = "push" THEN Cardinality(PushesIn(incoming)) + 1
            ELSE Cardinality(PushesIn(incoming))
    BY <1>1, PushesAppended
  <1>5. Cardinality(PushesIn(incoming)) \in Nat
    BY <1>1, PushesFinite
  <1>6. pushed = pushes + Cardinality(PushesIn(incoming))
    BY DEF PushesCounted, PushesIn
  <1>7. pushed' = pushes' + Cardinality(PushesIn(incoming'))
    BY <1>1, <1>4, <1>5, <1>6
  <1> QED
    BY <1>3, <1>7 DEF PushInv, PushesCounted, PushesIn

\* A frame is taken: a push is counted, if it is not one for the cache.
LEMMA TakenCounted ==
  ASSUME TypeOK, Usable, PushInv, PushesCounted, incoming # <<>>,
         incoming' = Tail(incoming), UNCHANGED <<config, session, pushed>>,
         Head(incoming).kind \in {"reply", "push", "invalidate"},
         pushes' = IF Head(incoming).kind = "push" THEN pushes + 1 ELSE pushes
  PROVE  PushInv' /\ PushesCounted'
  <1>1. incoming \in Seq(Frames) /\ pushed \in Nat /\ pushes \in Nat
    BY DEF TypeOK, StreamTyped, CountTyped, ClientTyped
  <1>2. /\ Len(incoming') = Len(incoming) - 1 /\ Len(incoming) \in Nat
        /\ \A i \in 1..Len(incoming') : incoming'[i] = incoming[i + 1]
        /\ incoming' \in Seq(Frames)
    BY <1>1, TailFacts
  <1>3. \A i \in 1..Len(incoming') : incoming'[i].kind = "invalidate" => config.caching
    <2> SUFFICES ASSUME NEW i \in 1..Len(incoming'), incoming'[i].kind = "invalidate"
                 PROVE  config.caching
      OBVIOUS
    <2>1. i + 1 \in 1..Len(incoming) /\ incoming[i + 1].kind = "invalidate"
      BY <1>2
    <2> QED
      BY <2>1 DEF PushInv
  <1>4. Cardinality(PushesIn(incoming)) =
            IF Head(incoming).kind = "push" THEN Cardinality(PushesIn(incoming')) + 1
            ELSE Cardinality(PushesIn(incoming'))
    BY <1>1, PushesTaken
  <1>5. Cardinality(PushesIn(incoming')) \in Nat
    BY <1>2, PushesFinite
  <1>6. pushed = pushes + Cardinality(PushesIn(incoming))
    BY DEF PushesCounted, PushesIn
  <1>7. pushed' = pushes' + Cardinality(PushesIn(incoming'))
    BY <1>1, <1>4, <1>5, <1>6
  <1> QED
    BY <1>3, <1>7 DEF PushInv, PushesCounted, PushesIn

LEMMA CountedStep ==
  ASSUME TypeOK, Aligned, PushesBare, OwnInv, PushInv, PushesCounted, [Next]_vars
  PROVE  PushInv' /\ PushesCounted'
  <1>1. CASE ~Usable'
    BY <1>1 DEF PushInv, PushesCounted
  <1>2. CASE Connect
    <2>1. /\ incoming' = <<>> /\ pushed' = 0 /\ pushes' = 0 /\ session' = FreshSession
      BY <1>2 DEF Connect
    <2>2. PushesIn(<<>>) = {} /\ Cardinality(PushesIn(<<>>)) = 0 /\ Len(<<>>) = 0
      BY EmptyTyped, FS_EmptySet DEF PushesIn
    <2>3. PushesCounted'
      BY <2>1, <2>2 DEF PushesCounted, PushesIn
    <2>4. PushInv'
      BY <2>1, <2>2 DEF PushInv, FreshSession
    <2> QED
      BY <2>3, <2>4
  <1>3. CASE Usable /\ (Calm \/ Send)
    BY <1>3 DEF Calm, Send, clientVars, streamVars, sentVars, PushInv, PushesCounted
  <1>4. CASE Usable /\ HandlePush
    <2>1. incoming # <<>> /\ incoming' = Tail(incoming)
      BY <1>4, TakeTyped DEF HandlePush, Parsed, TakeFrame, TypeOK
    <2>2. /\ Head(incoming).kind \in {"push", "invalidate"}
          /\ UNCHANGED <<config, session, pushed>>
          /\ pushes' = IF config.caching /\ Head(incoming).kind = "invalidate"
                       THEN pushes ELSE pushes + 1
      BY <1>4 DEF HandlePush, IsPush, serverVars, sentVars
    <2>3. Head(incoming).kind = "invalidate" => config.caching
      <3>1. Head(incoming) = incoming[1] /\ 1 \in 1..Len(incoming)
        BY <2>1, Numbers, TailFacts
      <3> QED
        BY <1>4, <3>1 DEF PushInv
    <2>4. pushes' = IF Head(incoming).kind = "push" THEN pushes + 1 ELSE pushes
      BY <2>2, <2>3
    <2> QED
      BY <1>4, <2>1, <2>2, <2>4, TakenCounted
  <1>5. CASE Usable /\ ServerPush
    <2>1. /\ incoming' = Append(incoming, [kind |-> "push", as |-> "push", at |-> served])
          /\ pushed' = pushed + 1 /\ UNCHANGED <<config, pushes, session>>
      BY <1>5 DEF ServerPush, PushesBare, clientVars, serverVars
    <2>2. served \in Nat
      BY Numbers
    <2>3. [kind |-> "push", as |-> "push", at |-> served] \in Frames
      BY <2>2, PushTyped
    <2>4. session'.tracking => config.caching
      BY <1>5, <2>1 DEF PushInv
    <2> QED
      BY <1>5, <2>1, <2>3, <2>4, FrameCounted
  <1>6. CASE Usable /\ Invalidate
    <2>1. /\ incoming' = Append(incoming, [kind |-> "invalidate", as |-> "push", at |-> served])
          /\ session.tracking /\ UNCHANGED <<config, pushes, session, pushed>>
      BY <1>6 DEF Invalidate, clientVars, serverVars
    <2>2. served \in Nat
      BY Numbers
    <2>3. [kind |-> "invalidate", as |-> "push", at |-> served] \in Frames
      BY <2>2, PushTyped
    <2>4. config.caching
      BY <1>6, <2>1 DEF PushInv
    <2> QED
      BY <1>6, <2>1, <2>3, <2>4, FrameCounted
  <1>7. CASE Usable /\ Serve
    <2>1. requests \in Seq(Commands) /\ requests # <<>> /\ Head(requests) \in Commands
      BY <1>7, Numbers, TailFacts DEF Serve
    <2>2. PICK a \in Granted(Head(requests)) \cup Refused(Head(requests)) :
              incoming' = Append(incoming, Reply(a.as, served + 1))
      BY <1>7 DEF Serve
    <2>3. a.as \in {"ok", "value", "untracked", "queued", "error", "garbage", "odd"}
          /\ served + 1 \in Nat
      BY <2>1, Served, Numbers DEF TypeOK, ServerTyped
    <2>4. Reply(a.as, served + 1) \in Frames /\ Reply(a.as, served + 1).kind = "reply"
      BY <2>3, ReplyTyped
    <2>5. UNCHANGED <<config, pushes, pushed>>
      BY <1>7 DEF Serve, clientVars, sentVars
    <2>6. session'.tracking => config.caching
      BY <1>7, <2>5, TrackedServe
    <2> QED
      BY <1>7, <2>2, <2>4, <2>5, <2>6, FrameCounted
  <1>8. CASE ReadSteps /\ Stays /\ ~HelloUnusable
    <2>1. PICK as : ReadReply(as)
      BY <1>8, ReadFound
    <2>2. /\ Usable /\ incoming # <<>> /\ Head(incoming).kind = "reply"
          /\ incoming' = Tail(incoming) /\ UNCHANGED <<config, session, pushed, pushes>>
      BY <1>8, <2>1, ReplyFound DEF Stays, TakeFrame, ReadReply, sentVars
    <2> QED
      BY <2>2, TakenCounted
  <1> QED
    BY <1>1, <1>2, <1>3, <1>4, <1>5, <1>6, <1>7, <1>8, UsableSteps

-----------------------------------------------------------------------------
LEMMA InitOwned == PushesBare /\ Init => Inv /\ OwnInv
  BY InitTyped, InitAligned, InitOwn DEF Inv

LEMMA StepOwned == Inv /\ OwnInv /\ [Next]_vars => (Inv /\ OwnInv)'
  BY TypeStep, StepKept, OwnStep DEF Inv, Kept, PushesBare

\* What the server has pushed is what pushes_discarded says and what is still
\* to be read, on every connection that can be used, however its calls end.
THEOREM PushesAreCounted == PushesBare /\ Spec => []PushesCounted
  <1> DEFINE I == Inv /\ OwnInv /\ PushInv /\ PushesCounted
  <1>1. PushesBare /\ Init => I
    BY InitOwned, InitCounted
  <1>2. I /\ [Next]_vars => I'
    BY StepOwned, CountedStep DEF Inv
  <1>3. I => PushesCounted
    OBVIOUS
  <1> QED
    BY <1>1, <1>2, <1>3, PTL DEF Spec

\* A connection that connect() has handed over is set up as its constructor was
\* told, and so believes; what a server may refuse is only what execute()
\* raises for, or the HELLO of a client that does without.
THEOREM ConnectionsAreSetUp ==
    PushesBare /\ TrackingGranted /\ NoReset /\ Spec => []SetUp
  <1> DEFINE I == Inv /\ OwnInv /\ TrackingGranted /\ NoReset /\ SetUpInv
  <1>1. PushesBare /\ TrackingGranted /\ NoReset /\ Init => I
    BY InitOwned, InitSetUp
  <1>2. I /\ [Next]_vars => I'
    BY StepOwned, SetUpStep DEF Inv, TrackingGranted, NoReset
  <1>3. I => SetUp
    <2> SUFFICES ASSUME I, Usable, pc \notin Negotiating
                 PROVE  /\ session.proto = version
                        /\ session.db = config.db
                        /\ session.named = config.named
                        /\ config.caching => session.tracking
      BY DEF SetUp
    <2>1. session.db \in BOOLEAN /\ session.named \in BOOLEAN
          /\ config.db \in BOOLEAN /\ config.named \in BOOLEAN
      BY DEF Inv, TypeOK, ServerTyped, Sessions, AllConfigs
    <2>2. Ready(pc) /\ (session.db => config.db) /\ (session.named => config.named)
      BY DEF SetUpInv
    <2> QED
      BY <2>1, <2>2 DEF Ready, Negotiating
  <1> QED
    BY <1>1, <1>2, <1>3, PTL DEF Spec

\* Between two commands the client knows of an open transaction, if it opens
\* none by a pipeline and the server ends one with every EXEC.
THEOREM TransactionsAreKnown ==
    PushesBare /\ FailedExecEnds /\ NoPipelinedMulti /\ Spec => []TransactionKnown
  <1> DEFINE I == Inv /\ OwnInv /\ FailedExecEnds /\ NoPipelinedMulti /\ TransactionInv
  <1>1. PushesBare /\ FailedExecEnds /\ NoPipelinedMulti /\ Init => I
    BY InitOwned, InitTransaction
  <1>2. I /\ [Next]_vars => I'
    BY StepOwned, TransactionStep DEF Inv, FailedExecEnds, NoPipelinedMulti
  <1>3. I => TransactionKnown
    BY DEF TransactionInv, TransactionKnown
  <1> QED
    BY <1>1, <1>2, <1>3, PTL DEF Spec

\* What is cached is a value whose change the server will announce, on the
\* first connection as on every later one.
THEOREM TrackedValuesAreCached ==
    /\ PushesBare /\ TrackingGranted /\ HelloGranted /\ FailedExecEnds
    /\ NoReset /\ NoPipelinedMulti
    /\ Spec
    => []OnlyTrackedCached
  <1> DEFINE Asked == TrackingGranted /\ HelloGranted /\ FailedExecEnds /\ NoReset
                         /\ NoPipelinedMulti
             I == Inv /\ OwnInv /\ Asked /\ SetUpInv /\ TransactionInv /\ CacheInv
  <1>1. PushesBare /\ Asked /\ Init => I
    BY InitOwned, InitSetUp, InitTransaction, InitCache
  <1>2. I /\ [Next]_vars => I'
    BY StepOwned, SetUpStep, TransactionStep, CacheStep
    DEF Inv, TrackingGranted, HelloGranted, FailedExecEnds, NoReset, NoPipelinedMulti
  <1>3. I => OnlyTrackedCached
    BY DEF CacheInv, OnlyTrackedCached
  <1> QED
    BY <1>1, <1>2, <1>3, PTL DEF Spec
=============================================================================
