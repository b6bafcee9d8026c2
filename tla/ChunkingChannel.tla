--------------------------- MODULE ChunkingChannel ---------------------------
(***************************************************************************)
(* The chunking channel (harness/channels/chunking.py) and its corpus      *)
(* (harness/support/corpus.py) over the parser.  The channel cuts a stream *)
(* byte by byte, at each position, at frame boundaries, at random and with *)
(* empty feeds in between; RespParser's caller feeds any number of bytes,  *)
(* none included, so every one of those schedules is a behaviour here.     *)
(*                                                                         *)
(* A payload keeps its structure (a CRLF in it, a format and its colon)    *)
(* and one byte of its text; equal texts have equal bytes.                 *)
(***************************************************************************)
EXTENDS RespGrammar, Comparator

-----------------------------------------------------------------------------
\* The constructors of the corpus.

Mark(t, n) == <<[t |-> t, n |-> n]>>
Crlf == <<CR, LF>>
Frame(t, n) == Mark(t, n) \o Crlf
Text(k) == <<[t |-> "data", n |-> k]>>

blob(payload) == Frame("blob", Len(payload)) \o payload \o Crlf
verbatim(fmt, payload) ==
    LET body == fmt \o <<Colon>> \o payload
    IN  Frame("verbatim", Len(body)) \o body \o Crlf
blob_error(text) == Frame("bloberr", Len(text)) \o text \o Crlf
attr(pairs) ==
    FoldLeft(LAMBDA out, kv : out \o blob(kv[1]) \o kv[2],
             Frame("attr", Len(pairs)), pairs)
nest(depth, leaf) == FlattenSeq([i \in 1 .. depth |-> Frame("array", 1)]) \o leaf

Num(n) == Frame("number", n)
Ok == Mark("simple", 0) \o Text(0) \o Crlf
Err == Mark("error", 0) \o Text(1) \o Crlf
True == Frame("bool", 1)
False == Frame("bool", 0)
Null == Frame("null", 0)
txt == Text(2) \o Text(3) \o Text(2)
mkd == Text(4) \o Text(5) \o Text(6)
TwoLines == Text(7) \o Crlf \o Text(8)
A == Text(10)
B == Text(11)

\* GROUPS: seven groups of frames; doubles and big numbers are numbers.
Groups == [
    resp2_scalars |->
        <<Ok, Err, Num(42), Num(-7), blob(A), blob(<<>>), Frame("array", 0)>>,
    resp3_scalars |-> <<Num(325), Num(3), True, False, Num(3492)>>,
    length_prefixed |->
        <<blob(TwoLines), verbatim(txt, A), verbatim(mkd, B),
          verbatim(txt, TwoLines), blob_error(TwoLines)>>,
    nested_arrays |->
        <<nest(6, Num(9)), nest(6, blob(A)),
          Frame("array", 3) \o Num(1) \o blob(A) \o True,
          Frame("array", 2) \o Frame("array", 2) \o Num(1) \o Num(2)
              \o Frame("array", 2) \o Num(3) \o Num(4)>>,
    maps_and_sets |->
        <<Frame("map", 2) \o blob(A) \o Num(1) \o blob(B) \o Num(2),
          Frame("map", 2) \o blob(A) \o Num(1) \o blob(A) \o Num(2),
          Frame("set", 3) \o Num(1) \o Num(2) \o Num(3),
          Frame("map", 0), Frame("set", 0),
          Frame("map", 1) \o blob(A) \o attr(<<<<B, Num(60)>>>>) \o blob(B),
          Frame("set", 2) \o Num(1) \o attr(<<<<A, True>>>>) \o Num(2),
          attr(<<<<A, Num(1)>>>>) \o Ok,
          attr(<<<<A, Num(1)>>>>) \o attr(<<<<B, Num(2)>>>>) \o Ok,
          nest(2, attr(<<<<A, True>>>>) \o blob(B)),
          Frame("attr", 0) \o Ok>>,
    push_frames |->
        <<Ok \o Frame("push", 2) \o blob(A) \o Frame("array", 1) \o blob(B) \o Ok,
          Frame("push", 2) \o blob(A) \o Frame("map", 1) \o blob(B) \o Num(1),
          Frame("push", 2) \o blob(A) \o Num(1)
              \o Frame("push", 2) \o blob(B) \o Num(2)>>,
    nulls_and_empties |->
        <<Null, Frame("blob", -1), Frame("array", -1),
          Null \o Frame("blob", -1) \o Frame("array", -1),
          Frame("array", 3) \o Null \o Frame("blob", -1) \o Frame("array", -1)>>]

\* The channel feeds a group as one stream; here its halves are two (bound).
group(name) ==
    LET frames == Groups[name]
        half == Len(frames) \div 2
    IN  {FlattenSeq(SubSeq(frames, 1, half)),
         FlattenSeq(SubSeq(frames, half + 1, Len(frames)))}

\* CURATED and PATHOLOGICAL: frames that are cut at every position.
Curated ==
    {Frame("array", 4)
        \o Frame("array", 7) \o Num(1) \o Num(25) \o True \o Null \o blob(A)
            \o Num(12) \o Num(-9)
        \o Frame("map", 1) \o blob(A)
            \o Frame("set", 2) \o Num(1) \o attr(<<<<B, False>>>>) \o Num(2)
        \o verbatim(txt, A) \o blob_error(TwoLines),
     attr(<<<<Text(12), Num(1)>>>>)
        \o Frame("array", 2) \o attr(<<<<Text(13), Num(2)>>>>) \o blob(A)
        \o nest(1, attr(<<<<Text(14), Num(3)>>>>) \o blob(B))}
Pathological == {blob(A), verbatim(txt, A)}

-----------------------------------------------------------------------------
\* The cases that say what a frame is.

List(items) == [t |-> "list", p |-> items]
Number(n) == [t |-> "number", p |-> Mark("number", n)]
Dict(pairs) == [t |-> "dict", p |-> FlattenSeq(pairs)]
With(v, pairs) == [t |-> "attributed", p |-> <<v, Dict(pairs)>>]

AbsoluteValues ==
    {[frame |-> Null, value |-> None],
     [frame |-> Frame("array", -1), value |-> None],
     [frame |-> True, value |-> [t |-> "bool", p |-> Mark("bool", 1)]],
     [frame |-> False, value |-> [t |-> "bool", p |-> Mark("bool", 0)]],
     [frame |-> Num(3492), value |-> Number(3492)],
     [frame |-> blob_error(TwoLines), value |-> [t |-> "error", p |-> TwoLines]],
     [frame |-> Frame("push", 2) \o blob(A) \o nest(1, blob(B)),
      value |-> [t |-> "push", p |-> <<Str(A), List(<<Str(B)>>)>>]],
     [frame |-> verbatim(txt, A),
      value |-> [t |-> "verbatim", p |-> txt \o <<Colon>> \o A]]}

AttributeCases ==
    LET top == Text(12)
        mid == Text(13)
        low == Text(14)
    IN {[frame |-> attr(<<<<top, Num(60)>>>>) \o Ok,
         value |-> With(Str(Text(0)), <<<<Str(top), Number(60)>>>>)],
        [frame |-> attr(<<<<top, Num(1)>>>>)
            \o Frame("array", 2) \o attr(<<<<mid, Num(2)>>>>) \o blob(A)
            \o nest(1, attr(<<<<low, Num(3)>>>>) \o blob(B)),
         value |->
            With(List(<<With(Str(A), <<<<Str(mid), Number(2)>>>>),
                        List(<<With(Str(B), <<<<Str(low), Number(3)>>>>)>>)>>),
                 <<<<Str(top), Number(1)>>>>)],
        [frame |-> attr(<<<<A, Num(1)>>, <<top, Num(10)>>>>)
            \o attr(<<<<B, Num(2)>>, <<top, Num(20)>>>>) \o Ok,
         value |->
            With(Str(Text(0)), <<<<Str(A), Number(1)>>, <<Str(top), Number(20)>>,
                                 <<Str(B), Number(2)>>>>)],
        \* test_attributed_delegation: as a set member it is what it wraps.
        [frame |-> Frame("set", 2) \o attr(<<<<A, Num(1)>>>>) \o blob(B) \o blob(B),
         value |-> [t |-> "set",
                    p |-> <<With(Str(B), <<<<Str(A), Number(1)>>>>)>>]]}

Told == AbsoluteValues \cup AttributeCases
Corpus == UNION {group(name) : name \in DOMAIN Groups} \cup Curated \cup Pathological
              \cup {c.frame : c \in Told}

-----------------------------------------------------------------------------
\* Properties.

\* However it was cut, a frame the channel names a value for is that value and
\* no more: one reply, with its attributes at their own depth.  And a stream of
\* whole frames is used up: when it was drained the parser is as it was made,
\* with replies to show for it (D24), no frame open, no attribute waiting for
\* the next reply and no byte kept.
FramesMeanWhatTheySay ==
    mode = "starved" /\ fed = Len(stream) =>
        /\ \A c \in Told : c.frame = stream => replies = <<c.value>>
        /\ stream \in Corpus => Fresh /\ replies # <<>>

\* The comparator of the oracle channel accepts a reply for what redis-py got
\* if and only if the two are the same reply: True is not 1, a set is its
\* members in any order, and nothing else is forgiven.  What the chunking
\* channel holds equal, the oracle channel accepts.
ComparatorTells ==
    [][Len(replies') = Len(replies) + 1 =>
          \A i \in 1 .. Len(replies') :
              LET v == Last(replies')
                  w == replies'[i]
              IN  Plainly(w) =>
                    /\ Accepts(v, RedisPy(w)) <=> SameReply(v, w)
                    /\ strict_describe(v) = strict_describe(w) =>
                            Accepts(v, RedisPy(w))]_vars
=============================================================================
