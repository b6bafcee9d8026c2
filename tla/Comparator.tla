----------------------------- MODULE Comparator -----------------------------
(***************************************************************************)
(* How the oracle channel decides that a reply is the one redis-py gets:   *)
(* the value crosses a process boundary in a tagged encoding               *)
(* (harness/support/wire_codec.py) and is compared structurally            *)
(* (harness/support/compare.py).  An error's code is the first byte of its *)
(* text; integers and floats are numbers.                                  *)
(***************************************************************************)
EXTENDS RespWire, SequencesExt

Payload4(v) == SubSeq(v.p, 5, Len(v.p))
Bytes(v) == IF v.t = "verbatim" THEN Payload4(v) ELSE v.p

\* What a reply is after redis-py, encode_value and decode_value: a list for a
\* set, bytes for a verbatim string, the bare code for an error (probe.py).
\* redis-py raises on attributes and keeps pushes to itself.
RECURSIVE RedisPy(_)
RedisPy(v) ==
    CASE v.t = "verbatim" -> Str(Bytes(v))
      [] v.t = "error" -> [t |-> "exc", p |-> SubSeq(v.p, 1, 1)]
      [] v.t \in {"list", "set"} ->
            [t |-> "list", p |-> [i \in 1 .. Len(v.p) |-> RedisPy(v.p[i])]]
      [] v.t = "dict" ->
            [t |-> "dict", p |-> [i \in 1 .. Len(v.p) |-> RedisPy(v.p[i])]]
      [] OTHER -> v

RECURSIVE Plainly(_)
\* No attribute and no push anywhere: the replies the oracle can be asked for.
Plainly(v) ==
    /\ v.t \notin {"attributed", "push"}
    /\ v.t \in {"list", "set", "dict"} => \A i \in 1 .. Len(v.p) : Plainly(v.p[i])

-----------------------------------------------------------------------------
\* compare.py.

ClassOf == [none |-> "NONE", number |-> "INT", str |-> "BYTES",
            verbatim |-> "BYTES", list |-> "LIST", dict |-> "DICT",
            set |-> "SET", error |-> "ERROR", exc |-> "EXC", push |-> "PUSH",
            attributed |-> "UNKNOWN", bool |-> "BOOL"]
\* Mutant: an isinstance test for int, which a bool passes, comes first.
type_classIntFirst(v) == IF v.t = "bool" THEN "INT" ELSE ClassOf[v.t]
type_class(v) == ClassOf[v.t]

ErrorCode(v) == SubSeq(v.p, 1, 1)

canonical_key(v) ==
    LET class == type_class(v)
    IN  CASE class = "BYTES" -> <<class, Bytes(v)>>
          [] class \in {"INT", "BOOL"} -> <<class, Key(v).p>>
          [] class = "NONE" -> <<class, <<>>>>
          [] class \in {"ERROR", "EXC"} -> <<class, ErrorCode(v)>>
          [] OTHER -> <<class, v>>

\* Sorted by canonical_key: any total order of the keys does.
SortedBy(order, items) ==
    LET rank(v) == CHOOSE i \in DOMAIN order : order[i] = canonical_key(v)
    IN  SortSeq(items, LAMBDA x, y : rank(x) < rank(y))

KeysIn(v) == {v.p[i] : i \in {j \in 1 .. Len(v.p) : j % 2 = 1}}
At(v, k) == v.p[1 + (CHOOSE i \in 1 .. Len(v.p) : i % 2 = 1 /\ v.p[i] = k)]

RECURSIVE Accepts(_, _)
Pairwise(as, es) ==
    Len(as) = Len(es) /\ \A i \in 1 .. Len(as) : Accepts(as[i], es[i])

\* compare(actual, expected) raises no Divergence.
Accepts(actual, expected) ==
    LET a == Bare(actual)
        aClass == type_class(a)
        eClass == type_class(expected)
        unordered == aClass = "SET" /\ eClass \in {"SET", "LIST"}
        errors == {aClass, eClass} \subseteq {"ERROR", "EXC"}
        bare == [i \in 1 .. Len(a.p) |-> Bare(a.p[i])]
        order == SetToSeq({canonical_key(x) : x \in ToSet(bare) \cup ToSet(expected.p)})
        sameKeys == {canonical_key(k) : k \in KeysIn(a)}
                        = {canonical_key(k) : k \in KeysIn(expected)}
    IN  CASE errors -> ErrorCode(a) = ErrorCode(expected)
          [] unordered ->
                Pairwise(SortedBy(order, bare), SortedBy(order, expected.p))
          [] aClass # eClass -> FALSE
          [] aClass = "NONE" -> TRUE
          [] aClass = "BYTES" -> Bytes(a) = Bytes(expected)
          [] aClass \in {"INT", "BOOL"} -> Key(a) = Key(expected)
          [] aClass = "LIST" -> Pairwise(a.p, expected.p)
          [] aClass = "DICT" ->
                /\ sameKeys
                /\ \A k \in KeysIn(expected) :
                      \E l \in KeysIn(a) : /\ canonical_key(l) = canonical_key(k)
                                           /\ Accepts(At(a, l), At(expected, k))
          [] OTHER -> FALSE

\* strict_describe, with what it sorts as a set.
RECURSIVE strict_describe(_)
strict_describe(v) ==
    LET each == [i \in 1 .. Len(v.p) |-> strict_describe(v.p[i])]
    IN  CASE v.t \in {"attributed", "list", "push"} -> <<v.t, each>>
          [] v.t = "set" -> <<v.t, ToSet(each)>>
          [] v.t = "dict" -> <<v.t, {<<each[i], each[i + 1]>> :
                                        i \in {j \in 1 .. Len(each) : j % 2 = 1}}>>
          [] OTHER -> <<v.t, v.p>>

-----------------------------------------------------------------------------
\* What compare() stands for, without sorting: the same reply up to attributes,
\* formats, the wording of errors and the order of a set's members.
RECURSIVE SameReply(_, _)
SameReply(actual, w) ==
    LET v == Bare(actual)
        items == 1 .. Len(v.p)
        keys == {i \in items : i % 2 = 1}
        wholes == {"list", "set"}
    IN  IF {v.t, w.t} \subseteq {"str", "verbatim"} THEN Bytes(v) = Bytes(w)
        ELSE IF v.t = "error" /\ w.t = "error" THEN ErrorCode(v) = ErrorCode(w)
        ELSE IF v.t \in wholes /\ w.t \in wholes
        THEN /\ Len(v.p) = Len(w.p)
             /\ \E f \in Permutations(items) :
                    /\ v.t = "list" => f = [i \in items |-> i]
                    /\ \A i \in items : SameReply(v.p[i], w.p[f[i]])
        ELSE IF v.t = "dict" /\ w.t = "dict"
        THEN /\ Len(v.p) = Len(w.p)
             /\ \A i \in keys : \E j \in keys :
                    SameReply(v.p[i], w.p[j]) /\ SameReply(v.p[i + 1], w.p[j + 1])
        ELSE v = w
=============================================================================
