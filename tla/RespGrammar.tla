---------------------------- MODULE RespGrammar -----------------------------
(***************************************************************************)
(* What a stream means, by recursive descent, and that RespParser finds    *)
(* exactly that, however the stream is cut.                                *)
(***************************************************************************)
EXTENDS RespParser

Good(v, at) == [st |-> "good", v |-> v, at |-> at]
More == [st |-> "more", v |-> None, at |-> 0]
Bad == [st |-> "bad", v |-> None, at |-> 0]

\* Position i of s is followed by a CRLF; the line from i ends before the first.
EndsAt(s, i) == i + 1 <= Len(s) /\ s[i] = CR /\ s[i + 1] = LF
HasLine(s, i) == \E j \in i..Len(s) : EndsAt(s, j)
LineEnd(s, i) == CHOOSE j \in i..Len(s) :
                    EndsAt(s, j) /\ \A l \in i..(j - 1) : ~EndsAt(s, l)

\* The payload that line announces, from i on.
Payload(s, i, line) ==
    LET end == i + line[1].n
        bytes == SubSeq(s, i, end - 1)
    IN IF Len(s) < end + 1 THEN More
       ELSE IF ~EndsAt(s, end) \/ (line[1].t = "verbatim" /\ bytes[4] # Colon) THEN Bad
       ELSE Good(PayloadValue(line[1].t, bytes), end + 2)

\* Attributes in front of a value, which may have more of them itself.
WithAttrs(v, attrs) ==
    IF v.t = "attributed" THEN Decorated(v.p[1], Merged(attrs, v.p[2]))
                          ELSE Decorated(v, attrs)

RECURSIVE ValueAt(_, _), ValuesAt(_, _, _)

\* n values from i on.
ValuesAt(s, i, n) ==
    IF n = 0 THEN Good(<<>>, i)
    ELSE LET first == ValueAt(s, i)
             rest == ValuesAt(s, first.at, n - 1)
         IN IF first.st # "good" THEN first
            ELSE IF rest.st # "good" THEN rest
            ELSE Good(<<first.v>> \o rest.v, rest.at)

\* The value at i, with the attributes in front of it.
ValueAt(s, i) ==
    IF ~HasLine(s, i) THEN More
    ELSE LET end == LineEnd(s, i)
             line == SubSeq(s, i, end - 1)
             kind == line[1].t
             inner == ValuesAt(s, end + 2, Width(line))
             after == ValueAt(s, inner.at)
         IN IF Malformed(line) THEN Bad
            ELSE IF OpensBlob(line) THEN Payload(s, end + 2, line)
            ELSE IF kind # "attr" /\ ~Opens(line) THEN Good(ValueOf(line), end + 2)
            ELSE IF inner.st # "good" THEN inner
            ELSE IF ~Buildable(kind, inner.v) THEN Bad
            ELSE IF kind # "attr" THEN Good(Build(kind, inner.v), inner.at)
            ELSE IF after.st # "good" THEN after
            ELSE Good(WithAttrs(after.v, Build("attr", inner.v)), after.at)

RECURSIVE RepliesFrom(_, _)

\* The replies in s from i on, and whether they end in a malformed one.
RepliesFrom(s, i) ==
    LET first == ValueAt(s, i)
        rest == RepliesFrom(s, first.at)
    IN IF first.st = "good" THEN [rest EXCEPT !.values = <<first.v>> \o @]
       ELSE [values |-> <<>>, bad |-> first.st = "bad"]

\* When the caller has drained the parser, gets() has returned exactly the
\* replies in what was fed, metadata included, and it has raised if and only if
\* they end in a malformed one ("for any byte sequence and any partition of it",
\* RespParser's docstring).
RepliesExact ==
    mode \in {"starved", "failed"} =>
        LET meaning == RepliesFrom(SubSeq(stream, 1, fed), 1)
        IN replies = meaning.values /\ (mode = "failed" <=> meaning.bad)
=============================================================================
