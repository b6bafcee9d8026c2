------------------------------ MODULE RespWire ------------------------------
(***************************************************************************)
(* What the parser reads and what it makes of it (resp3_wire/parser.py,    *)
(* protocol.py), without the question of how much has arrived.             *)
(*                                                                         *)
(* A symbol stands for a byte, except that the type byte of a frame and    *)
(* the number written after it are one symbol.  Reading that number is     *)
(* never interrupted: the parser looks at a line when all of it is there.  *)
(* Values are records [t, p] so that any two can be compared.              *)
(***************************************************************************)
EXTENDS Integers, Sequences

Byte(t) == [t |-> t, n |-> 0]
CR == Byte("cr")
LF == Byte("lf")
Colon == Byte("colon")

\* Type byte -> the least count that may follow it, where a count follows.
Least == [map |-> 0, set |-> 0, attr |-> 0, bloberr |-> 0, push |-> 1, verbatim |-> 4]
\* Any count may follow these; a negative one, whichever it is, makes a null.
Nullable == {"array", "blob"}
Plain == {"simple", "error"}
Scalars == {"number", "bool", "null"}

Types == DOMAIN Least \cup Nullable \cup Plain \cup Scalars

Symbols == [t : Types \cup {"cr", "lf", "colon", "data"}, n : Int]

-----------------------------------------------------------------------------
\* Lines.

\* _step() raises ProtocolError: an empty line, an unknown type byte, a payload
\* where none may be, a number that is none, a count below the least.
Malformed(line) ==
    line # <<>> =>
        \/ line[1].t \notin Types
        \/ line[1].t \notin Plain /\ Len(line) > 1
        \/ line[1].t \in DOMAIN Least /\ line[1].n < Least[line[1].t]

\* The line announces a payload, of so many bytes.
OpensBlob(line) == line[1].t \in {"blob", "verbatim", "bloberr"} /\ line[1].n >= 0

\* Mutant: a frame with no values is opened like any other.
OpensAny(line) ==
    line[1].t \in {"array", "map", "set", "push", "attr"} /\ line[1].n >= 0

\* The line announces values; a map or an attribute holds pairs of them.
Opens(line) ==
    line[1].t \in {"array", "map", "set", "push", "attr"} /\ line[1].n >= 1
Width(line) == IF line[1].t \in {"map", "attr"} THEN 2 * line[1].n ELSE line[1].n

IsEmptyAttr(line) == line[1].t = "attr" /\ line[1].n = 0

-----------------------------------------------------------------------------
\* Values.

Str(bytes) == [t |-> "str", p |-> bytes]
None == [t |-> "none", p |-> <<>>]

\* The value a line is by itself.
ValueOf(line) ==
    LET type == line[1].t
    IN CASE type = "simple" -> Str(Tail(line))
         [] type = "error"  -> [t |-> "error", p |-> Tail(line)]
         [] type \in {"number", "bool"} -> [t |-> type, p |-> <<line[1]>>]
         [] type = "null" \/ (type \in Nullable /\ line[1].n < 0) -> None
         [] type = "array" /\ line[1].n = 0 -> [t |-> "list", p |-> <<>>]
         [] type = "map" -> [t |-> "dict", p |-> <<>>]
         [] type = "set" -> [t |-> "set", p |-> <<>>]

\* The value a payload is; a verbatim one keeps its format and colon here.
PayloadValue(type, bytes) ==
    CASE type = "blob" -> Str(bytes)
      [] type = "verbatim" -> [t |-> "verbatim", p |-> bytes]
      [] type = "bloberr" -> [t |-> "error", p |-> bytes]

Decorated(v, attrs) ==
    IF attrs = None THEN v ELSE [t |-> "attributed", p |-> <<v, attrs>>]
Bare(v) == IF v.t = "attributed" THEN v.p[1] ELSE v

Hashable(v) == Bare(v).t \notin {"list", "dict", "set", "push"}

\* Values that Python holds equal have one key: Attributed as what it wraps,
\* VerbatimBytes as bytes, True and False as 1 and 0.
Key(v) ==
    LET b == Bare(v)
    IN CASE b.t = "verbatim" -> Str(SubSeq(b.p, 5, Len(b.p)))
         [] b.t = "bool" -> [t |-> "number", p |-> <<[b.p[1] EXCEPT !.t = "number"]>>]
         [] OTHER -> b

\* The first of these places, in order, for every key that stands at one.
Firsts(items, places) ==
    SelectSeq([i \in 1..Len(items) |-> i],
              LAMBDA i : i \in places /\ \A j \in places :
                             j < i => Key(items[j]) # Key(items[i]))

\* _build_dict(): a key stays where it came first, the last value wins.
DictOf(items) ==
    LET keyPlaces == {i \in 1..Len(items) : i % 2 = 1}
        keys == Firsts(items, keyPlaces)
        last(i) == CHOOSE j \in keyPlaces :
                      /\ Key(items[j]) = Key(items[i])
                      /\ \A l \in keyPlaces : l > j => Key(items[l]) # Key(items[i])
    IN [t |-> "dict",
        p |-> [m \in 1..(2 * Len(keys)) |->
                 IF m % 2 = 1 THEN items[keys[(m + 1) \div 2]]
                              ELSE items[last(keys[m \div 2]) + 1]]]

SetOf(items) ==
    LET members == Firsts(items, 1..Len(items))
    IN [t |-> "set", p |-> [m \in 1..Len(members) |-> items[members[m]]]]

\* Mutant: the attributes read first win.
MergedFirstWins(old, new) == IF old = None THEN new ELSE DictOf(new.p \o old.p)

\* Attributes read before others of the same value: later keys win.
Merged(old, new) == IF old = None THEN new ELSE DictOf(old.p \o new.p)

\* A finished frame is a value, unless a key of a map cannot be hashed or a push
\* does not begin with a string.
Buildable(kind, items) ==
    /\ kind \in {"map", "attr"} =>
          \A i \in 1..Len(items) : i % 2 = 1 => Hashable(items[i])
    /\ kind = "push" => items[1].t \in {"str", "verbatim"}

\* _finalize(); a set with a member that cannot be hashed becomes a list.
Build(kind, items) ==
    CASE kind \in {"map", "attr"} -> DictOf(items)
      [] kind = "set" /\ \A i \in 1..Len(items) : Hashable(items[i]) -> SetOf(items)
      [] kind = "push" -> [t |-> "push", p |-> items]
      [] OTHER -> [t |-> "list", p |-> items]
=============================================================================
