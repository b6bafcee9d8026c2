---------------------------- MODULE MCRespParser ----------------------------
(***************************************************************************)
(* RespParser on a line followed by any two of the tokens below and on     *)
(* nested frames followed by three, and on the chunking channel's corpus,  *)
(* cut everywhere.                                                         *)
(***************************************************************************)
EXTENDS ChunkingChannel

X == Byte("data")

\* Lines, one with a CR in it, two that are nulls; malformed ones, empty, no
\* number, no kind.
Lines == {Mark("number", 1) \o Crlf, Mark("simple", 0) \o <<CR, X>> \o Crlf,
          Mark("bool", 1) \o Crlf, Mark("blob", -1) \o Crlf, Mark("array", -2) \o Crlf,
          Mark("set", 0) \o Crlf, Mark("attr", 0) \o Crlf}
BadLines == {Crlf, Mark("number", 1) \o <<X>> \o Crlf, Mark("push", 0) \o Crlf}

\* Frames that open, and so nest.
Openers == {Mark("array", 2) \o Crlf, Mark("map", 1) \o Crlf, Mark("set", 2) \o Crlf,
            Mark("push", 1) \o Crlf, Mark("attr", 1) \o Crlf}

\* Payloads: one that is a CRLF, one without its end, a verbatim string that
\* equals a simple one, and one whose format has no colon.
Blobs == {Mark("blob", 2) \o Crlf \o Crlf \o Crlf,
          Mark("blob", 1) \o Crlf \o <<X, X, LF>>,
          Mark("verbatim", 6) \o Crlf \o <<X, X, X, Colon, CR, X>> \o Crlf,
          Mark("verbatim", 4) \o Crlf \o <<X, X, X, X>> \o Crlf}

Tokens == Lines \cup BadLines \cup Openers \cup Blobs

\* A frame that opens, or a line that leaves something behind (a CR, attributes
\* of which there are none), and the tokens after it, good or bad.
Leaves == {Mark("simple", 0) \o <<CR, X>> \o Crlf, Mark("attr", 0) \o Crlf}
Flat == {a \o b \o c : a \in Openers \cup Leaves, b, c \in Tokens}

\* Frames within frames, filled to the end, attributes at every depth.
Fillers == {Mark("number", 1) \o Crlf, Mark("attr", 0) \o Crlf}
Nested == {a \o b \o c \o d \o e : a, b \in Openers, c, d, e \in Fillers}

MCStreams == Tokens \cup Flat \cup Nested \cup Corpus
=============================================================================
