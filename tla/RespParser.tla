----------------------------- MODULE RespParser -----------------------------
(***************************************************************************)
(* The incremental parser (resp3_wire/parser.py) and the caller that feeds *)
(* it a stream in chunks of any size and drains it.                        *)
(*                                                                         *)
(* A call of gets() is the steps between Gets and the step that returns or *)
(* raises: one per token (_step) and one per turn of the loop in _emit.    *)
(* Nothing is fed meanwhile, since a parser has one caller at a time.      *)
(***************************************************************************)
EXTENDS RespWire

CONSTANTS
    Streams,           \* the byte streams a server may send
    CompactThreshold   \* _COMPACT_THRESHOLD

ASSUME StreamsAssumption == Streams \subseteq Seq(Symbols)
ASSUME CompactThresholdAssumption == CompactThreshold \in Nat \ {0}

VARIABLES
    \* the world
    stream,     \* what the server sends
    fed,        \* how much of it feed() was given
    replies,    \* what gets() returned
    mode,       \* "ready", "gets" while a call runs, "starved" once it returned
                \* NEED_MORE, "failed" once it raised
    \* the parser
    buf,        \* _buf
    pos,        \* _pos: how much of buf is consumed
    scanFrom,   \* _scan_from
    stack,      \* _stack, the innermost frame first
    pending,    \* _pending: the type and length of a payload
    rootAttrs,  \* _root_attrs
    value       \* the value _emit has in hand

worldVars == <<stream, fed, replies>>
bufVars == <<buf, pos, scanFrom>>
frameVars == <<stack, rootAttrs>>
vars == <<worldVars, mode, bufVars, frameVars, pending, value>>

NoBlob == Byte("none")
Nothing == [t |-> "nothing", p |-> <<>>]

\* __init__() and reset() leave the same state.
Fresh ==
    /\ buf = <<>> /\ pos = 0 /\ scanFrom = 0
    /\ stack = <<>> /\ pending = NoBlob /\ rootAttrs = None

Init ==
    /\ stream \in Streams
    /\ fed = 0 /\ replies = <<>> /\ mode = "ready" /\ value = Nothing
    /\ Fresh

-----------------------------------------------------------------------------
\* The caller.

\* What feed() makes of the buffer before it appends: nothing is left of one that
\* is consumed, and the consumed part of a long one is cut off.
Unread == SubSeq(buf, pos + 1, Len(buf))

\* Mutant: a buffer that is consumed for the most part is dropped.
DrainedMostly == pos > 0 /\ pos + 1 >= Len(buf)

Drained == pos > 0 /\ pos = Len(buf)
Compactable == pos >= CompactThreshold /\ 2 * pos >= Len(buf)

\* Mutant: the scan position is not moved along with the buffer.
FeedUnshifted(n) ==
    /\ mode \in {"ready", "starved"}
    /\ n \in 0..(Len(stream) - fed)
    /\ LET data == SubSeq(stream, fed + 1, fed + n)
       IN \/ /\ Drained
             /\ buf' = data /\ pos' = 0 /\ scanFrom' = 0
          \/ /\ ~Drained /\ Compactable
             /\ buf' = Unread \o data /\ pos' = 0 /\ UNCHANGED scanFrom
          \/ /\ ~Drained /\ ~Compactable
             /\ buf' = buf \o data /\ UNCHANGED <<pos, scanFrom>>
    /\ fed' = fed + n
    /\ mode' = "ready"
    /\ UNCHANGED <<stream, replies, frameVars, pending, value>>

Feed(n) ==
    /\ mode \in {"ready", "starved"}
    /\ n \in 0..(Len(stream) - fed)
    /\ LET data == SubSeq(stream, fed + 1, fed + n)
       IN \/ /\ Drained
             /\ buf' = data /\ pos' = 0 /\ scanFrom' = 0
          \/ /\ ~Drained /\ Compactable
             /\ buf' = Unread \o data /\ pos' = 0 /\ scanFrom' = scanFrom - pos
          \/ /\ ~Drained /\ ~Compactable
             /\ buf' = buf \o data /\ UNCHANGED <<pos, scanFrom>>
    /\ fed' = fed + n
    /\ mode' = "ready"
    /\ UNCHANGED <<stream, replies, frameVars, pending, value>>

Gets ==
    /\ mode \in {"ready", "starved"}
    /\ mode' = "gets"
    /\ UNCHANGED <<worldVars, bufVars, frameVars, pending, value>>

\* The connection is closed and opened again; the server begins anew.
Reset ==
    /\ mode # "gets"
    /\ buf' = <<>> /\ pos' = 0 /\ scanFrom' = 0
    /\ stack' = <<>> /\ pending' = NoBlob /\ rootAttrs' = None /\ value' = Nothing
    /\ fed' = 0 /\ replies' = <<>> /\ mode' = "ready"
    /\ UNCHANGED stream

-----------------------------------------------------------------------------
\* One token: _step().

Fails == mode' = "failed" /\ UNCHANGED <<worldVars, frameVars, pending, value>>
Starves == mode' = "starved" /\ UNCHANGED <<worldVars, frameVars, pending, value>>

\* The search for a line's end begins where the last one gave up.
SearchFrom == IF scanFrom > pos THEN scanFrom ELSE pos
CrlfAt(i) == i + 2 <= Len(buf) /\ buf[i + 1] = CR /\ buf[i + 2] = LF
FirstCrlf(end) == /\ end >= SearchFrom /\ CrlfAt(end)
                  /\ \A i \in SearchFrom..(end - 1) : ~CrlfAt(i)
Line(end) == SubSeq(buf, pos + 1, end)

AtToken == mode = "gets" /\ value = Nothing

\* Mutant: the last byte is not looked at again.
GiveUpScanPast ==
    /\ scanFrom' = Len(buf)
    /\ UNCHANGED <<buf, pos>>

\* All was looked at, but a CR that came last may be half of a CRLF.
GiveUpScan ==
    /\ scanFrom' = IF Len(buf) - 1 > pos THEN Len(buf) - 1 ELSE pos
    /\ UNCHANGED <<buf, pos>>

LineMissing ==
    /\ AtToken /\ pending = NoBlob
    /\ \A i \in SearchFrom..Len(buf) : ~CrlfAt(i)
    /\ GiveUpScan
    /\ Starves

\* _read_line() returns a line and moves past it.
ReadLine(end) ==
    /\ AtToken /\ pending = NoBlob
    /\ FirstCrlf(end)
    /\ pos' = end + 2 /\ scanFrom' = end + 2
    /\ UNCHANGED buf

LineBad(end) ==
    /\ ReadLine(end) /\ Malformed(Line(end))
    /\ Fails

LineAnnounces(end) ==
    /\ ReadLine(end) /\ ~Malformed(Line(end)) /\ OpensBlob(Line(end))
    /\ pending' = Line(end)[1]
    /\ UNCHANGED <<worldVars, mode, frameVars, value>>

LineOpens(end) ==
    /\ ReadLine(end) /\ ~Malformed(Line(end)) /\ Opens(Line(end))
    /\ LET frame == [kind |-> Line(end)[1].t, remaining |-> Width(Line(end)),
                     items |-> <<>>, attrs |-> None]
       IN stack' = <<frame>> \o stack
    /\ UNCHANGED <<worldVars, mode, rootAttrs, pending, value>>

\* Mutant: attributes are kept for the reply, at whatever depth they were read.
MergeAttrsAtRoot(attrs, open) ==
    /\ rootAttrs' = Merged(rootAttrs, attrs)
    /\ stack' = open

\* _merge_attrs(): attributes wait at the depth they were read at.
MergeAttrs(attrs, open) ==
    \/ /\ open = <<>>
       /\ rootAttrs' = Merged(rootAttrs, attrs)
       /\ stack' = open
    \/ /\ open # <<>>
       /\ stack' = <<[open[1] EXCEPT !.attrs = Merged(@, attrs)]>> \o Tail(open)
       /\ UNCHANGED rootAttrs

LineIsEmptyAttr(end) ==
    /\ ReadLine(end) /\ ~Malformed(Line(end)) /\ IsEmptyAttr(Line(end))
    /\ MergeAttrs(DictOf(<<>>), stack)
    /\ UNCHANGED <<worldVars, mode, pending, value>>

LineIsValue(end) ==
    /\ ReadLine(end)
    /\ ~(Malformed(Line(end)) \/ OpensBlob(Line(end)) \/ Opens(Line(end))
         \/ IsEmptyAttr(Line(end)))
    /\ value' = ValueOf(Line(end))
    /\ UNCHANGED <<worldVars, mode, frameVars, pending>>

\* _finish_blob(): the payload is taken when its CRLF is there as well.
PayloadEnd == pos + pending.n

PayloadMissing ==
    /\ AtToken /\ pending # NoBlob
    /\ Len(buf) < PayloadEnd + 2
    /\ Starves
    /\ UNCHANGED bufVars

PayloadSound ==
    /\ CrlfAt(PayloadEnd)
    /\ pending.t = "verbatim" => buf[pos + 4] = Colon

PayloadBad ==
    /\ AtToken /\ pending # NoBlob
    /\ Len(buf) >= PayloadEnd + 2 /\ ~PayloadSound
    /\ Fails
    /\ UNCHANGED bufVars

PayloadComplete ==
    /\ AtToken /\ pending # NoBlob
    /\ Len(buf) >= PayloadEnd + 2 /\ PayloadSound
    /\ value' = PayloadValue(pending.t, SubSeq(buf, pos + 1, PayloadEnd))
    /\ pos' = PayloadEnd + 2 /\ scanFrom' = PayloadEnd + 2
    /\ pending' = NoBlob
    /\ UNCHANGED <<worldVars, mode, buf, frameVars>>

-----------------------------------------------------------------------------
\* Placing a value: the loop of _emit().

Placing == mode = "gets" /\ value # Nothing

\* A value outside all frames is a reply, and gets() returns it; a buffer that
\* is used up is released (_release_if_drained).
Return ==
    /\ Placing /\ stack = <<>>
    /\ replies' = Append(replies, Decorated(value, rootAttrs))
    /\ rootAttrs' = None
    /\ value' = Nothing
    /\ mode' = "ready"
    /\ IF Drained THEN buf' = <<>> /\ pos' = 0 /\ scanFrom' = 0 ELSE UNCHANGED bufVars
    /\ UNCHANGED <<stream, fed, stack, pending>>

\* The innermost frame with the value in it.
Filled == [stack[1] EXCEPT !.items = Append(@, Decorated(value, stack[1].attrs)),
                           !.attrs = None,
                           !.remaining = @ - 1]
Finishes == Placing /\ stack # <<>> /\ Filled.remaining = 0

PlaceInside ==
    /\ Placing /\ stack # <<>> /\ Filled.remaining > 0
    /\ stack' = <<Filled>> \o Tail(stack)
    /\ value' = Nothing
    /\ UNCHANGED <<worldVars, mode, bufVars, rootAttrs, pending>>

FinishFails ==
    /\ Finishes /\ ~Buildable(Filled.kind, Filled.items)
    /\ stack' = Tail(stack)
    /\ value' = Nothing
    /\ mode' = "failed"
    /\ UNCHANGED <<worldVars, bufVars, rootAttrs, pending>>

FinishAttr ==
    /\ Finishes /\ Buildable(Filled.kind, Filled.items)
    /\ Filled.kind = "attr"
    /\ MergeAttrs(Build("attr", Filled.items), Tail(stack))
    /\ value' = Nothing
    /\ UNCHANGED <<worldVars, mode, bufVars, pending>>

FinishFrame ==
    /\ Finishes /\ Buildable(Filled.kind, Filled.items)
    /\ Filled.kind # "attr"
    /\ stack' = Tail(stack)
    /\ value' = Build(Filled.kind, Filled.items)
    /\ UNCHANGED <<worldVars, mode, bufVars, rootAttrs, pending>>

Next ==
    \/ \E n \in 0..Len(stream) : Feed(n)
    \/ Gets \/ Reset
    \/ LineMissing
    \/ \E end \in 0..Len(buf) :
          \/ LineBad(end) \/ LineAnnounces(end) \/ LineOpens(end)
          \/ LineIsEmptyAttr(end) \/ LineIsValue(end)
    \/ PayloadMissing \/ PayloadBad \/ PayloadComplete
    \/ Return \/ PlaceInside \/ FinishFails \/ FinishAttr \/ FinishFrame

Spec == Init /\ [][Next]_vars

-----------------------------------------------------------------------------
\* Properties.

BufferTypeOK ==
    /\ stream \in Seq(Symbols) /\ fed \in 0..Len(stream)
    /\ buf \in Seq(Symbols)
    /\ pos \in 0..Len(buf) /\ scanFrom \in Nat
    /\ pending \in Symbols \cup {NoBlob} /\ pending.n \in Nat

\* The positions lie in the buffer, a payload has a length, a frame on the stack
\* still lacks values, and a value is in hand only during a call and between
\* payloads.
TypeOK ==
    /\ BufferTypeOK
    /\ mode \in {"ready", "gets", "starved", "failed"}
    /\ \A i \in 1..Len(stack) :
          /\ stack[i].kind \in {"array", "map", "set", "push", "attr"}
          /\ stack[i].remaining \in Nat \ {0}
    /\ value # Nothing => mode = "gets" /\ pending = NoBlob

\* No line's end lies before the place where the next search for one begins, so
\* the search finds the same line that one from the start would, wherever the
\* stream was cut: between CR and LF, or before a compaction of the buffer.  The
\* last byte is always looked at again, since an LF may come after it.
ScanSound ==
    /\ pos <= scanFrom
    /\ scanFrom = pos \/ scanFrom < Len(buf)
    /\ \A i \in pos..(scanFrom - 1) : ~CrlfAt(i)

\* Where in the stream the parser is.
Position == fed - (Len(buf) - pos)

BufferIsSuffix == Position >= 0 /\ Unread = SubSeq(stream, Position + 1, fed)

\* No byte is lost, repeated or moved.  What is unread is the end of what was fed,
\* and appending to the buffer, releasing it or compacting it leaves the parser at
\* the place in the stream where it was.
NoByteLost ==
    /\ []BufferIsSuffix
    /\ [][buf' # buf /\ fed' >= fed => Position' = Position]_vars
=============================================================================
