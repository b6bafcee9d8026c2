-------------------------- MODULE RespParserProofs --------------------------
(***************************************************************************)
(* Theorems about RespParser, for every set of streams, every way to cut   *)
(* them and every compaction threshold.                                    *)
(***************************************************************************)
EXTENDS RespParser, SequenceTheorems, TLAPS

\* What feed() appends is a sequence of symbols, as long as the caller says.
LEMMA DataType ==
  ASSUME BufferTypeOK, NEW n \in 0..(Len(stream) - fed)
  PROVE  /\ SubSeq(stream, fed + 1, fed + n) \in Seq(Symbols)
         /\ Len(SubSeq(stream, fed + 1, fed + n)) = n
         /\ \A i \in 1..n : SubSeq(stream, fed + 1, fed + n)[i] = stream[fed + i]
  BY DEF BufferTypeOK

\* What is unread is as long as the positions say.
LEMMA UnreadType ==
  ASSUME BufferTypeOK
  PROVE  /\ Unread \in Seq(Symbols)
         /\ Len(Unread) = Len(buf) - pos
         /\ \A i \in 1..(Len(buf) - pos) : Unread[i] = buf[pos + i]
  BY DEF BufferTypeOK, Unread

\* A line that is read ends in the buffer, behind the place read so far.
LEMMA ReadLineBounds ==
  ASSUME BufferTypeOK, NEW end \in 0..Len(buf), ReadLine(end)
  PROVE  /\ pos <= end /\ end + 2 <= Len(buf)
         /\ pos' = end + 2 /\ scanFrom' = end + 2 /\ buf' = buf
  BY DEF BufferTypeOK, ReadLine, FirstCrlf, SearchFrom, CrlfAt

\* The first symbol of a line that is not malformed.
LEMMA LineHead ==
  ASSUME BufferTypeOK, NEW end \in 0..Len(buf), ReadLine(end), ~Malformed(Line(end))
  PROVE  Line(end)[1] \in Symbols
  <1>1. Line(end) \in Seq(Symbols)
    BY ReadLineBounds DEF BufferTypeOK, Line
  <1>2. Line(end) # <<>>
    BY DEF Malformed
  <1> QED
    BY <1>1, <1>2

\* Every symbol of a stream has its type, and so does the buffer at the start.
LEMMA InitBuffer == Init => BufferTypeOK
  BY StreamsAssumption DEF Init, Fresh, BufferTypeOK, NoBlob, Byte

\* The step feed() takes, whatever it does to the buffer.
LEMMA FeedType ==
  ASSUME BufferTypeOK, ScanSound, NEW n \in 0..Len(stream), Feed(n)
  PROVE  BufferTypeOK'
  <1> DEFINE data == SubSeq(stream, fed + 1, fed + n)
  <1>0. n \in 0..(Len(stream) - fed) /\ fed' = fed + n /\ UNCHANGED <<stream, pending>>
    BY DEF Feed
  <1>1. data \in Seq(Symbols) /\ Len(data) = n
    BY <1>0, DataType
  <1>2. fed' \in 0..Len(stream')
    BY <1>0 DEF BufferTypeOK
  <1>3. CASE Drained /\ buf' = data /\ pos' = 0 /\ scanFrom' = 0
    BY <1>0, <1>1, <1>2, <1>3 DEF BufferTypeOK
  <1>4. CASE Compactable /\ buf' = Unread \o data /\ pos' = 0 /\ scanFrom' = scanFrom - pos
    BY <1>0, <1>1, <1>2, <1>4, UnreadType DEF BufferTypeOK, ScanSound
  <1>5. CASE buf' = buf \o data /\ UNCHANGED <<pos, scanFrom>>
    BY <1>0, <1>1, <1>2, <1>5 DEF BufferTypeOK
  <1> QED
    BY <1>3, <1>4, <1>5 DEF Feed

-----------------------------------------------------------------------------
\* Two sequences put together, position by position.
LEMMA ConcatPointwise ==
  ASSUME NEW a \in Seq(Symbols), NEW b \in Seq(Symbols)
  PROVE  /\ Len(a \o b) = Len(a) + Len(b)
         /\ \A i \in 1..Len(a) : (a \o b)[i] = a[i]
         /\ \A i \in 1..Len(b) : (a \o b)[Len(a) + i] = b[i]
  OBVIOUS

\* The unread part of a buffer is the end of a stream, position by position.
LEMMA SameEnd ==
  ASSUME NEW s \in Seq(Symbols), NEW b \in Seq(Symbols),
         NEW p \in 0..Len(b), NEW f \in 0..Len(s), Len(b) - p <= f
  PROVE  SubSeq(b, p + 1, Len(b)) = SubSeq(s, f - (Len(b) - p) + 1, f)
           <=> \A i \in 1..(Len(b) - p) : b[p + i] = s[f - (Len(b) - p) + i]
  <1> DEFINE k == Len(b) - p
             u == SubSeq(b, p + 1, Len(b))
             e == SubSeq(s, f - k + 1, f)
  <1>1. /\ u \in Seq(Symbols) /\ Len(u) = k
        /\ \A i \in 1..k : u[i] = b[p + i]
    OBVIOUS
  <1>2. /\ e \in Seq(Symbols) /\ Len(e) = k
        /\ \A i \in 1..k : e[i] = s[f - k + i]
    OBVIOUS
  <1>3. u = e <=> \A i \in 1..k : u[i] = e[i]
    BY <1>1, <1>2, SeqEqual
  <1> QED
    BY <1>1, <1>2, <1>3

LEMMA SuffixPointwise ==
  BufferTypeOK =>
    (BufferIsSuffix <=>
       /\ Len(buf) - pos <= fed
       /\ \A i \in 1..(Len(buf) - pos) : buf[pos + i] = stream[Position + i])
  <1> SUFFICES ASSUME BufferTypeOK
               PROVE  BufferIsSuffix <=>
                        /\ Len(buf) - pos <= fed
                        /\ \A i \in 1..(Len(buf) - pos) : buf[pos + i] = stream[Position + i]
    OBVIOUS
  <1>1. Position >= 0 <=> Len(buf) - pos <= fed
    BY DEF BufferTypeOK, Position
  <1>2. CASE Len(buf) - pos <= fed
    BY <1>1, <1>2, SameEnd DEF BufferTypeOK, BufferIsSuffix, Unread, Position
  <1>3. CASE ~(Len(buf) - pos <= fed)
    BY <1>1, <1>3 DEF BufferIsSuffix
  <1> QED
    BY <1>2, <1>3

\* What the three properties of the buffer need of each other.
Sound == BufferTypeOK /\ ScanSound /\ BufferIsSuffix

\* A step that leaves the buffer alone.
LEMMA SteadySound ==
  ASSUME Sound, UNCHANGED <<stream, fed, bufVars>>,
         pending' \in Symbols \cup {NoBlob}, pending'.n \in Nat
  PROVE  Sound'
  BY DEF Sound, bufVars, BufferTypeOK, ScanSound, CrlfAt, BufferIsSuffix, Unread, Position

\* A step after which the buffer is empty.
LEMMA EmptySound ==
  ASSUME Sound, stream' = stream, NEW f \in 0..Len(stream), fed' = f, buf' = <<>>, pos' = 0,
         scanFrom' = 0, pending' \in Symbols \cup {NoBlob}, pending'.n \in Nat
  PROVE  Sound'
  <1>1. BufferTypeOK'
    BY DEF Sound, BufferTypeOK
  <1>2. ScanSound'
    BY DEF ScanSound
  <1>3. f \in Nat /\ SubSeq(stream, f + 1, f) = <<>>
    BY SubSeqEmpty DEF Sound, BufferTypeOK
  <1>4. SubSeq(<<>>, 1, 0) = <<>>
    OBVIOUS
  <1>5. Position' = f
    BY <1>3 DEF Position
  <1>6. BufferIsSuffix'
    BY <1>3, <1>4, <1>5 DEF Sound, BufferTypeOK, BufferIsSuffix, Unread
  <1> QED
    BY <1>1, <1>2, <1>6 DEF Sound

\* A step that reads on: the position moves, the buffer stays.
LEMMA AdvanceSound ==
  ASSUME Sound, UNCHANGED <<stream, fed, buf>>,
         NEW q \in pos..Len(buf), pos' = q, scanFrom' = q,
         pending' \in Symbols \cup {NoBlob}, pending'.n \in Nat
  PROVE  Sound'
  <1>0. Len(buf) \in Nat /\ pos \in Nat /\ q \in Nat /\ pos <= q /\ q <= Len(buf)
    BY DEF Sound, BufferTypeOK
  <1>1. BufferTypeOK'
    BY <1>0 DEF Sound, BufferTypeOK
  <1>2. ScanSound'
    BY <1>0 DEF ScanSound
  <1>3. BufferIsSuffix'
    <2>1. \A i \in 1..(Len(buf) - pos) : buf[pos + i] = stream[Position + i]
      BY SuffixPointwise DEF Sound
    <2>2. Len(buf) - pos <= fed
      BY SuffixPointwise DEF Sound
    <2>3. Position' = Position + (q - pos)
      BY DEF Sound, BufferTypeOK, Position
    <2>4. ASSUME NEW i \in 1..(Len(buf) - q) PROVE buf[q + i] = stream[Position' + i]
      <3>1. (q - pos) + i \in 1..(Len(buf) - pos)
        BY <1>0
      <3>2. buf[pos + ((q - pos) + i)] = stream[Position + ((q - pos) + i)]
        BY <2>1, <3>1
      <3> QED
        BY <2>3, <3>2 DEF Sound, BufferTypeOK, Position
    <2>5. Len(buf') - pos' <= fed'
      BY <2>2 DEF Sound, BufferTypeOK
    <2>6. (BufferTypeOK =>
             (BufferIsSuffix <=>
                /\ Len(buf) - pos <= fed
                /\ \A i \in 1..(Len(buf) - pos) : buf[pos + i] = stream[Position + i]))'
      BY SuffixPointwise, PTL
    <2> QED
      BY <1>1, <2>4, <2>5, <2>6
  <1> QED
    BY <1>1, <1>2, <1>3 DEF Sound

-----------------------------------------------------------------------------
\* feed(): what it appends keeps the scan position right and is the next part of
\* the stream, whether the buffer is dropped, compacted or left as it is.
LEMMA FeedSound ==
  ASSUME Sound, NEW n \in 0..Len(stream), Feed(n)
  PROVE  Sound' /\ (buf' # buf => Position' = Position)
  <1> DEFINE data == SubSeq(stream, fed + 1, fed + n)
             rest == Len(buf) - pos
  <1>1. /\ n \in 0..(Len(stream) - fed) /\ fed' = fed + n
        /\ UNCHANGED <<stream, pending>>
    BY DEF Feed
  <1>2. /\ data \in Seq(Symbols) /\ Len(data) = n
        /\ \A i \in 1..n : data[i] = stream[fed + i]
    BY <1>1, DataType DEF Sound
  <1>3. BufferTypeOK'
    BY FeedType DEF Sound
  <1>4. /\ pos \in Nat /\ scanFrom \in Nat /\ Len(buf) \in Nat /\ fed \in Nat /\ n \in Nat
        /\ pos <= Len(buf) /\ pos <= scanFrom /\ scanFrom <= Len(buf)
        /\ scanFrom = pos \/ scanFrom < Len(buf)
    BY DEF Sound, BufferTypeOK, ScanSound
  <1>5. /\ rest \in Nat /\ rest <= fed
        /\ \A i \in 1..rest : buf[pos + i] = stream[fed - rest + i]
    BY <1>4, SuffixPointwise DEF Sound, Position
  <1>6. ASSUME /\ pos' \in Nat /\ Len(buf') - pos' = rest + n
               /\ \A i \in 1..(rest + n) : buf'[pos' + i] = stream[fed - rest + i]
        PROVE  BufferIsSuffix' /\ Position' = Position
    <2>1. Position' = fed - rest /\ Position = fed - rest
      BY <1>1, <1>4, <1>6 DEF Position
    <2>2. rest + n <= fed'
      BY <1>1, <1>4, <1>5
    <2>3. (BufferTypeOK =>
             (BufferIsSuffix <=>
                /\ Len(buf) - pos <= fed
                /\ \A i \in 1..(Len(buf) - pos) : buf[pos + i] = stream[Position + i]))'
      BY SuffixPointwise, PTL
    <2> QED
      BY <1>1, <1>3, <1>6, <2>1, <2>2, <2>3
  <1>7. CASE Drained /\ buf' = data /\ pos' = 0 /\ scanFrom' = 0
    <2>1. rest = 0
      BY <1>4, <1>7 DEF Drained
    <2>2. ScanSound'
      BY <1>7 DEF ScanSound
    <2>3. Len(buf') - pos' = rest + n
      BY <1>2, <1>4, <1>7, <2>1
    <2>4. ASSUME NEW i \in 1..(rest + n) PROVE buf'[pos' + i] = stream[fed - rest + i]
      <3>1. i \in 1..n /\ fed - rest + i = fed + i /\ 0 + i = i
        BY <1>4, <2>1
      <3> QED
        BY <1>2, <1>7, <3>1
    <2> QED
      BY <1>3, <1>6, <1>7, <2>2, <2>3, <2>4 DEF Sound
  <1>8. CASE Compactable /\ buf' = Unread \o data /\ pos' = 0 /\ scanFrom' = scanFrom - pos
    <2>1. /\ Unread \in Seq(Symbols) /\ Len(Unread) = rest
          /\ \A i \in 1..rest : Unread[i] = buf[pos + i]
      BY UnreadType DEF Sound
    <2>2. /\ Len(buf') = rest + n
          /\ \A i \in 1..rest : buf'[i] = buf[pos + i]
          /\ \A i \in 1..n : buf'[rest + i] = stream[fed + i]
      <3>1. /\ Len(Unread \o data) = Len(Unread) + Len(data)
            /\ \A i \in 1..Len(Unread) : (Unread \o data)[i] = Unread[i]
            /\ \A i \in 1..Len(data) : (Unread \o data)[Len(Unread) + i] = data[i]
        BY <1>2, <2>1, ConcatPointwise
      <3> QED
        BY <1>2, <1>8, <2>1, <3>1, Zenon
    <2>3. ScanSound'
      <3>1. 0 <= scanFrom - pos /\ (scanFrom - pos = 0 \/ scanFrom - pos < rest + n)
        BY <1>4
      <3>2. ASSUME NEW i \in 0..(scanFrom - pos - 1) PROVE ~CrlfAt(i)'
        <4>1. ~CrlfAt(pos + i) /\ pos + i + 2 <= Len(buf)
          BY <1>4 DEF Sound, ScanSound
        <4>2. i + 1 \in 1..rest /\ i + 2 \in 1..rest
          BY <1>4, <4>1
        <4>3. buf'[i + 1] = buf[pos + (i + 1)] /\ buf'[i + 2] = buf[pos + (i + 2)]
          BY <2>2, <4>2
        <4>4. pos + (i + 1) = (pos + i) + 1 /\ pos + (i + 2) = (pos + i) + 2
          BY <1>4
        <4> QED
          BY <4>1, <4>3, <4>4 DEF CrlfAt, CR, LF, Byte
      <3> QED
        BY <1>4, <1>8, <2>2, <3>1, <3>2 DEF ScanSound
    <2>4. ASSUME NEW i \in 1..(rest + n) PROVE buf'[pos' + i] = stream[fed - rest + i]
      <3>1. CASE i <= rest
        BY <1>4, <1>5, <1>8, <2>2, <3>1
      <3>2. CASE i > rest
        <4>1. i - rest \in 1..n
          BY <1>4, <1>5, <3>2
        <4>2. buf'[rest + (i - rest)] = stream[fed + (i - rest)]
          BY <2>2, <4>1
        <4>3. /\ 0 + i = rest + (i - rest) /\ fed + (i - rest) = fed - rest + i
              /\ pos' = 0
          BY <1>4, <1>8
        <4> QED
          BY <4>2, <4>3, Zenon
      <3> QED
        BY <1>4, <1>5, <3>1, <3>2
    <2>5. Len(buf') - pos' = rest + n
      BY <1>4, <1>8, <2>2
    <2> QED
      BY <1>3, <1>6, <1>8, <2>3, <2>4, <2>5 DEF Sound
  <1>9. CASE buf' = buf \o data /\ UNCHANGED <<pos, scanFrom>>
    <2>1. /\ Len(buf') = Len(buf) + n
          /\ \A i \in 1..Len(buf) : buf'[i] = buf[i]
          /\ \A i \in 1..n : buf'[Len(buf) + i] = stream[fed + i]
      BY <1>2, <1>4, <1>9 DEF Sound, BufferTypeOK
    <2>2. ScanSound'
      <3>1. ASSUME NEW i \in pos..(scanFrom - 1) PROVE ~CrlfAt(i)'
        <4>1. ~CrlfAt(i) /\ i + 2 <= Len(buf)
          BY <1>4 DEF Sound, ScanSound
        <4>2. buf'[i + 1] = buf[i + 1] /\ buf'[i + 2] = buf[i + 2]
          BY <1>4, <2>1, <4>1
        <4> QED
          BY <4>1, <4>2 DEF CrlfAt, CR, LF, Byte
      <3> QED
        BY <1>4, <1>9, <2>1, <3>1 DEF ScanSound
    <2>3. ASSUME NEW i \in 1..(rest + n) PROVE buf'[pos' + i] = stream[fed - rest + i]
      <3>1. CASE i <= rest
        <4>1. pos + i \in 1..Len(buf) /\ i \in 1..rest
          BY <1>4, <1>5, <3>1
        <4> QED
          BY <1>5, <1>9, <2>1, <4>1
      <3>2. CASE i > rest
        <4>1. i - rest \in 1..n
          BY <1>4, <1>5, <3>2
        <4>2. buf'[Len(buf) + (i - rest)] = stream[fed + (i - rest)]
          BY <2>1, <4>1
        <4>3. Len(buf) + (i - rest) = pos + i /\ fed + (i - rest) = fed - rest + i
          BY <1>4
        <4>4. pos' = pos
          BY <1>9
        <4> QED
          BY <4>2, <4>3, <4>4, Zenon
      <3> QED
        BY <1>4, <1>5, <3>1, <3>2
    <2>4. Len(buf') - pos' = rest + n
      BY <1>4, <1>9, <2>1
    <2> QED
      BY <1>3, <1>4, <1>6, <1>9, <2>2, <2>3, <2>4 DEF Sound
  <1> QED
    BY <1>7, <1>8, <1>9 DEF Feed

-----------------------------------------------------------------------------
\* A search that finds no line's end gives up where the next one must begin.
LEMMA LineMissingSound ==
  ASSUME Sound, LineMissing
  PROVE  Sound'
  <1>1. /\ pos \in Nat /\ scanFrom \in Nat /\ Len(buf) \in Nat
        /\ pos <= Len(buf) /\ pos <= scanFrom
    BY DEF Sound, BufferTypeOK, ScanSound
  <1>2. SearchFrom = scanFrom
    BY <1>1 DEF SearchFrom
  <1>3. UNCHANGED <<stream, fed, buf, pos, pending>>
    BY DEF LineMissing, GiveUpScan, Starves, worldVars
  <1>4. \A i \in pos..Len(buf) : ~CrlfAt(i)
    <2>1. \A i \in scanFrom..Len(buf) : ~CrlfAt(i)
      BY <1>2 DEF LineMissing
    <2>2. \A i \in pos..(scanFrom - 1) : ~CrlfAt(i)
      BY DEF Sound, ScanSound
    <2> QED
      BY <1>1, <2>1, <2>2
  <1>5. PICK last \in Nat : /\ scanFrom' = last
                            /\ pos <= last /\ last <= Len(buf)
                            /\ last = pos \/ last < Len(buf)
    BY <1>1 DEF LineMissing, GiveUpScan
  <1>6. BufferTypeOK'
    BY <1>3, <1>5 DEF Sound, BufferTypeOK
  <1>7. ScanSound'
    <2>1. ASSUME NEW i \in pos..(last - 1) PROVE ~CrlfAt(i)'
      <3>1. ~CrlfAt(i)
        BY <1>1, <1>4, <1>5
      <3> QED
        BY <1>3, <3>1 DEF CrlfAt
    <2> QED
      BY <1>1, <1>3, <1>5, <2>1 DEF ScanSound
  <1>8. BufferIsSuffix'
    BY <1>3 DEF Sound, BufferIsSuffix, Unread, Position
  <1> QED
    BY <1>6, <1>7, <1>8 DEF Sound

\* Reading a line moves the position behind it, announcing a payload or not.
LEMMA ReadLineSound ==
  ASSUME Sound, NEW end \in 0..Len(buf), ReadLine(end), UNCHANGED <<stream, fed>>,
         pending' \in Symbols \cup {NoBlob}, pending'.n \in Nat
  PROVE  Sound'
  <1>1. /\ pos <= end /\ end + 2 <= Len(buf)
        /\ pos' = end + 2 /\ scanFrom' = end + 2 /\ buf' = buf
    BY ReadLineBounds DEF Sound
  <1>2. end + 2 \in pos..Len(buf)
    BY <1>1 DEF Sound, BufferTypeOK
  <1> QED
    BY <1>1, <1>2, AdvanceSound

\* The payload's length is none of a line that is malformed.
LEMMA AnnouncesType ==
  ASSUME Sound, NEW end \in 0..Len(buf), LineAnnounces(end)
  PROVE  pending' \in Symbols \cup {NoBlob} /\ pending'.n \in Nat
  <1>1. Line(end)[1] \in Symbols /\ pending' = Line(end)[1]
    BY LineHead DEF Sound, LineAnnounces
  <1>2. Line(end)[1].n \in Int /\ Line(end)[1].n >= 0
    BY <1>1 DEF LineAnnounces, OpensBlob, Symbols
  <1> QED
    BY <1>1, <1>2

LEMMA PayloadSoundStep ==
  ASSUME Sound, PayloadComplete
  PROVE  Sound'
  <1>1. /\ UNCHANGED <<stream, fed, buf>> /\ pending' = NoBlob
        /\ pos' = PayloadEnd + 2 /\ scanFrom' = PayloadEnd + 2
        /\ PayloadEnd + 2 <= Len(buf)
    BY DEF PayloadComplete, worldVars, Sound, BufferTypeOK, PayloadEnd
  <1>2. PayloadEnd + 2 \in pos..Len(buf)
    BY <1>1 DEF Sound, BufferTypeOK, PayloadEnd
  <1>3. pending' \in Symbols \cup {NoBlob} /\ pending'.n \in Nat
    BY <1>1 DEF NoBlob, Byte
  <1> QED
    BY <1>1, <1>2, <1>3, AdvanceSound

\* Releasing a buffer that is used up leaves the parser at its place.
LEMMA ReturnSound ==
  ASSUME Sound, Return
  PROVE  Sound' /\ (buf' # buf => Position' = Position)
  <1>0. fed \in 0..Len(stream) /\ fed \in Nat /\ Len(buf) \in Nat
    BY DEF Sound, BufferTypeOK
  <1>1. /\ UNCHANGED <<stream, fed, pending>>
        /\ pending' \in Symbols \cup {NoBlob} /\ pending'.n \in Nat
    BY DEF Return, Sound, BufferTypeOK
  <1>2. CASE Drained
    <2>1. buf' = <<>> /\ pos' = 0 /\ scanFrom' = 0 /\ pos = Len(buf)
      BY <1>2 DEF Return, Drained
    <2>2. Sound'
      BY <1>0, <1>1, <2>1, EmptySound
    <2> QED
      BY <1>0, <1>1, <2>1, <2>2 DEF Position
  <1>3. CASE ~Drained
    <2>1. UNCHANGED bufVars
      BY <1>3 DEF Return
    <2> QED
      BY <1>1, <2>1, SteadySound DEF bufVars
  <1> QED
    BY <1>2, <1>3

LEMMA ResetSound ==
  ASSUME Sound, Reset
  PROVE  Sound' /\ (buf' # buf /\ fed' >= fed => Position' = Position)
  <1>1. /\ stream' = stream /\ fed' = 0 /\ buf' = <<>> /\ pos' = 0 /\ scanFrom' = 0
        /\ pending' \in Symbols \cup {NoBlob} /\ pending'.n \in Nat
    BY DEF Reset, NoBlob, Byte
  <1>2. Sound'
    <2>1. 0 \in 0..Len(stream)
      BY DEF Sound, BufferTypeOK
    <2> QED
      BY <1>1, <2>1, EmptySound
  <1>3. CASE fed = 0
    <2>1. Len(buf) - pos = 0
      BY <1>3, SuffixPointwise DEF Sound, BufferTypeOK
    <2> QED
      BY <1>1, <1>2, <1>3, <2>1 DEF Position
  <1>4. CASE fed # 0
    BY <1>1, <1>2, <1>4 DEF Sound, BufferTypeOK
  <1> QED
    BY <1>3, <1>4

-----------------------------------------------------------------------------
\* What one step does: Sound stays, and the parser's place in the stream moves
\* only when the buffer does not.
LEMMA NextSound ==
  ASSUME Sound, [Next]_vars
  PROVE  Sound' /\ (buf' # buf /\ fed' >= fed => Position' = Position)
  <1> DEFINE Kept == UNCHANGED <<stream, fed, bufVars>>
             Quiet == pending' = pending
  <1>0. pending \in Symbols \cup {NoBlob} /\ pending.n \in Nat
    BY DEF Sound, BufferTypeOK
  <1>1. ASSUME Kept, Quiet
        PROVE  Sound' /\ buf' = buf
    BY <1>0, <1>1, SteadySound DEF bufVars
  <1>2. ASSUME NEW end \in 0..Len(buf), ReadLine(end), UNCHANGED <<stream, fed>>, Quiet
        PROVE  Sound' /\ buf' = buf
    BY <1>0, <1>2, ReadLineSound DEF ReadLine
  <1>3. ASSUME NEW n \in 0..Len(stream), Feed(n)
        PROVE  Sound' /\ (buf' # buf => Position' = Position)
    BY <1>3, FeedSound
  <1>4. CASE Gets \/ PayloadBad \/ PayloadMissing \/ PlaceInside \/ FinishFails
             \/ FinishAttr \/ FinishFrame
    BY <1>1, <1>4 DEF Gets, PayloadBad, PayloadMissing, PlaceInside, FinishFails,
       FinishAttr, FinishFrame, Fails, Starves, worldVars
  <1>5. CASE LineMissing
    BY <1>5, LineMissingSound DEF LineMissing, GiveUpScan
  <1>6. ASSUME NEW end \in 0..Len(buf),
               \/ LineBad(end) \/ LineOpens(end) \/ LineIsEmptyAttr(end)
               \/ LineIsValue(end)
        PROVE  Sound' /\ buf' = buf
    BY <1>2, <1>6 DEF LineBad, LineOpens, LineIsEmptyAttr, LineIsValue, Fails, worldVars
  <1>7. ASSUME NEW end \in 0..Len(buf), LineAnnounces(end)
        PROVE  Sound' /\ buf' = buf
    BY <1>7, AnnouncesType, ReadLineSound DEF LineAnnounces, worldVars, ReadLine
  <1>8. CASE PayloadComplete
    BY <1>8, PayloadSoundStep DEF PayloadComplete
  <1>9. CASE UNCHANGED vars
    BY <1>1, <1>9 DEF vars, worldVars
  <1> QED
    BY <1>3, <1>4, <1>5, <1>6, <1>7, <1>8, <1>9, ReturnSound, ResetSound DEF Next

LEMMA InitSound == Init => Sound
  <1> SUFFICES ASSUME Init PROVE Sound
    OBVIOUS
  <1>1. BufferTypeOK /\ buf = <<>> /\ pos = 0 /\ scanFrom = 0 /\ fed = 0
    BY InitBuffer DEF Init, Fresh
  <1>2. ScanSound
    BY <1>1 DEF ScanSound
  <1>3. BufferIsSuffix
    BY <1>1, SuffixPointwise
  <1> QED
    BY <1>1, <1>2, <1>3 DEF Sound

\* The search for a line's end never skips one, however the stream was cut and
\* whenever the buffer was compacted (_read_line, feed).
THEOREM ScanCorrect == Spec => []ScanSound
  <1>1. Sound /\ [Next]_vars => Sound'
    BY NextSound
  <1>2. Sound => ScanSound
    BY DEF Sound
  <1> QED
    BY InitSound, <1>1, <1>2, PTL DEF Spec

\* Between them, feed(), gets() and reset() lose, repeat and move no byte of the
\* stream.
THEOREM BytesKept == Spec => NoByteLost
  <1>1. Sound /\ [Next]_vars => Sound'
    BY NextSound
  <1>2. Sound => BufferIsSuffix
    BY DEF Sound
  <1>3. Sound /\ [Next]_vars => [buf' # buf /\ fed' >= fed => Position' = Position]_vars
    BY NextSound
  <1> QED
    BY InitSound, <1>1, <1>2, <1>3, PTL DEF Spec, NoByteLost

-----------------------------------------------------------------------------
\* The stack.

\* An open frame, as LineOpens makes it: it still lacks values.
Frame(f) ==
    /\ f = [kind |-> f.kind, remaining |-> f.remaining, items |-> f.items, attrs |-> f.attrs]
    /\ f.kind \in {"array", "map", "set", "push", "attr"}
    /\ f.remaining \in Nat \ {0}

Frames(s) ==
    /\ s \in Seq({s[i] : i \in 1..Len(s)})
    /\ \A i \in 1..Len(s) : Frame(s[i])

\* A value is in hand only during a call, and never while a payload is awaited.
HandOK ==
    /\ mode \in {"ready", "gets", "starved", "failed"}
    /\ value # Nothing => mode = "gets" /\ pending = NoBlob

\* What the type invariant needs in order to be inductive.
Typed == Sound /\ Frames(stack) /\ HandOK

LEMMA TypedIsType == Typed => TypeOK
  BY DEF Typed, Sound, Frames, HandOK, TypeOK, Frame

LEMMA FramesOf ==
  ASSUME NEW S, NEW s \in Seq(S), \A f \in S : Frame(f)
  PROVE  Frames(s)
  <1>1. \A i \in 1..Len(s) : s[i] \in S
    OBVIOUS
  <1>2. s \in Seq({s[i] : i \in 1..Len(s)})
    OBVIOUS
  <1> QED
    BY <1>1, <1>2 DEF Frames

LEMMA FramesAre ==
  ASSUME NEW s, Frames(s)
  PROVE  \E S : s \in Seq(S) /\ \A f \in S : Frame(f)
  <1> DEFINE S == {s[i] : i \in 1..Len(s)}
  <1>1. s \in Seq(S) /\ \A f \in S : Frame(f)
    BY DEF Frames
  <1> QED
    BY <1>1

\* A frame stays one when it gets attributes for its next value, or that value.
LEMMA FrameWithAttrs ==
  ASSUME NEW f, Frame(f), NEW a
  PROVE  Frame([f EXCEPT !.attrs = a])
  <1> DEFINE g == [kind |-> f.kind, remaining |-> f.remaining, items |-> f.items, attrs |-> f.attrs]
  <1>1. f = g
    BY DEF Frame
  <1>2. [g EXCEPT !.attrs = a]
          = [kind |-> f.kind, remaining |-> f.remaining, items |-> f.items, attrs |-> a]
    OBVIOUS
  <1>3. [f EXCEPT !.attrs = a]
          = [kind |-> f.kind, remaining |-> f.remaining, items |-> f.items, attrs |-> a]
    BY <1>1, <1>2
  <1> QED
    BY <1>3 DEF Frame

LEMMA FrameFilled ==
  ASSUME NEW f, Frame(f), NEW new, f.remaining - 1 > 0
  PROVE  Frame([f EXCEPT !.items = new, !.attrs = None, !.remaining = @ - 1])
  <1> DEFINE g == [kind |-> f.kind, remaining |-> f.remaining, items |-> f.items, attrs |-> f.attrs]
             h == [kind |-> f.kind, remaining |-> f.remaining - 1, items |-> new, attrs |-> None]
  <1>1. f = g
    BY DEF Frame
  <1>2. [g EXCEPT !.items = new, !.attrs = None, !.remaining = @ - 1] = h
    <2> DEFINE e1 == [kind |-> f.kind, remaining |-> f.remaining, items |-> new, attrs |-> f.attrs]
               e2 == [kind |-> f.kind, remaining |-> f.remaining, items |-> new, attrs |-> None]
    <2>1. [g EXCEPT !.items = new] = e1
      OBVIOUS
    <2>2. [e1 EXCEPT !.attrs = None] = e2
      OBVIOUS
    <2>3. [e2 EXCEPT !.remaining = e2.remaining - 1] = h
      <3>1. e2.remaining = f.remaining
        OBVIOUS
      <3> QED
        BY <3>1
    <2> HIDE DEF g, e1, e2, h
    <2> QED
      BY <2>1, <2>2, <2>3, Zenon
  <1>3. [f EXCEPT !.items = new, !.attrs = None, !.remaining = @ - 1] = h
    BY <1>1, <1>2
  <1> QED
    BY <1>3 DEF Frame

\* The operations on the stack: a frame is put on top, the top one is taken off,
\* the top one is replaced.
LEMMA FramesPushed ==
  ASSUME NEW s, Frames(s), NEW f, Frame(f)
  PROVE  Frames(<<f>> \o s)
  <1>1. PICK S : s \in Seq(S) /\ \A x \in S : Frame(x)
    BY FramesAre
  <1> DEFINE T == S \cup {f}
  <1>2. s \in Seq(T) /\ <<f>> \in Seq(T)
    BY <1>1
  <1>3. <<f>> \o s \in Seq(T)
    BY <1>2
  <1>4. \A x \in T : Frame(x)
    BY <1>1
  <1> QED
    BY <1>3, <1>4, FramesOf

LEMMA FramesPopped ==
  ASSUME NEW s, Frames(s), s # <<>>
  PROVE  Frames(Tail(s)) /\ Frame(s[1])
  <1>1. PICK S : s \in Seq(S) /\ \A x \in S : Frame(x)
    BY FramesAre
  <1>2. Tail(s) \in Seq(S) /\ s[1] \in S
    BY <1>1
  <1> QED
    BY <1>1, <1>2, FramesOf

LEMMA FramesReplaced ==
  ASSUME NEW s, Frames(s), s # <<>>, NEW f, Frame(f)
  PROVE  Frames(<<f>> \o Tail(s))
  BY FramesPopped, FramesPushed

LEMMA MergeFrames ==
  ASSUME NEW open, Frames(open), NEW attrs, MergeAttrs(attrs, open)
  PROVE  Frames(stack')
  <1>1. CASE open = <<>>
    BY <1>1 DEF MergeAttrs
  <1>2. CASE open # <<>>
    <2>1. Frame([open[1] EXCEPT !.attrs = Merged(@, attrs)])
      BY <1>2, FramesPopped, FrameWithAttrs
    <2> QED
      BY <1>2, <2>1, FramesReplaced DEF MergeAttrs
  <1> QED
    BY <1>1, <1>2

-----------------------------------------------------------------------------
\* What each step does to the stack.

LEMMA OpensFrame ==
  ASSUME Sound, Frames(stack), NEW end \in 0..Len(buf), LineOpens(end)
  PROVE  Frames(stack')
  <1> DEFINE line == Line(end)
             frame == [kind |-> line[1].t, remaining |-> Width(line),
                       items |-> <<>>, attrs |-> None]
  <1>1. line[1] \in Symbols
    BY LineHead DEF Sound, LineOpens
  <1>2. line[1].n \in Int /\ line[1].n >= 1
        /\ line[1].t \in {"array", "map", "set", "push", "attr"}
    BY <1>1 DEF LineOpens, Opens, Symbols
  <1>3. Width(line) \in Nat \ {0}
    BY <1>2 DEF Width
  <1>4. Frame(frame)
    BY <1>2, <1>3 DEF Frame
  <1>5. stack' = <<frame>> \o stack
    BY DEF LineOpens
  <1> QED
    BY <1>4, <1>5, FramesPushed

LEMMA NextFrames ==
  ASSUME Sound, Frames(stack), [Next]_vars
  PROVE  Frames(stack')
  <1>1. CASE stack' = stack
    BY <1>1
  <1>2. ASSUME NEW end \in 0..Len(buf), LineOpens(end)
        PROVE  Frames(stack')
    BY <1>2, OpensFrame
  <1>3. ASSUME NEW end \in 0..Len(buf), LineIsEmptyAttr(end)
        PROVE  Frames(stack')
    BY <1>3, MergeFrames DEF LineIsEmptyAttr
  <1>4. CASE FinishAttr
    BY <1>4, FramesPopped, MergeFrames DEF FinishAttr, Finishes
  <1>5. CASE FinishFails \/ FinishFrame
    BY <1>5, FramesPopped DEF FinishFails, FinishFrame, Finishes
  <1>6. CASE PlaceInside
    <2> DEFINE new == Append(stack[1].items, Decorated(value, stack[1].attrs))
    <2>1. Frame(stack[1]) /\ stack # <<>>
      BY <1>6, FramesPopped DEF PlaceInside
    <2>2. Filled = [stack[1] EXCEPT !.items = new, !.attrs = None, !.remaining = @ - 1]
      <3> DEFINE f == stack[1]
                 g == [kind |-> f.kind, remaining |-> f.remaining,
                       items |-> f.items, attrs |-> f.attrs]
      <3>1. f = g
        BY <2>1 DEF Frame
      <3> QED
        BY <3>1 DEF Filled
    <2>3. Filled.remaining = stack[1].remaining - 1
      <3> DEFINE f == stack[1]
                 g == [kind |-> f.kind, remaining |-> f.remaining,
                       items |-> f.items, attrs |-> f.attrs]
      <3>1. f = g
        BY <2>1 DEF Frame
      <3>2. [g EXCEPT !.items = new, !.attrs = None, !.remaining = @ - 1].remaining
              = f.remaining - 1
        OBVIOUS
      <3> QED
        BY <2>2, <3>1, <3>2
    <2>4. Frame(Filled)
      BY <1>6, <2>1, <2>2, <2>3, FrameFilled DEF PlaceInside
    <2> QED
      BY <1>6, <2>1, <2>4, FramesReplaced DEF PlaceInside
  <1>7. CASE Reset
    BY <1>7 DEF Reset, Frames
  <1>8. ASSUME NEW n \in 0..Len(stream), Feed(n)
        PROVE  Frames(stack')
    BY <1>8 DEF Feed, frameVars
  <1>9. ASSUME NEW end \in 0..Len(buf),
               LineBad(end) \/ LineAnnounces(end) \/ LineIsValue(end)
        PROVE  Frames(stack')
    BY <1>9 DEF LineBad, LineAnnounces, LineIsValue, Fails, frameVars
  <1>10. CASE Gets \/ LineMissing \/ PayloadMissing \/ PayloadBad \/ PayloadComplete \/ Return
    BY <1>10 DEF Gets, LineMissing, PayloadMissing, PayloadBad, PayloadComplete, Return,
       Fails, Starves, frameVars
  <1>11. CASE UNCHANGED vars
    BY <1>11 DEF vars, frameVars
  <1> QED
    BY <1>2, <1>3, <1>4, <1>5, <1>6, <1>7, <1>8, <1>9, <1>10, <1>11 DEF Next

LEMMA NextHand ==
  ASSUME HandOK, [Next]_vars
  PROVE  HandOK'
  <1>1. ASSUME NEW n \in 0..Len(stream), Feed(n)
        PROVE  HandOK'
    BY <1>1 DEF Feed, HandOK
  <1>2. ASSUME NEW end \in 0..Len(buf),
               LineBad(end) \/ LineAnnounces(end) \/ LineOpens(end)
                  \/ LineIsEmptyAttr(end) \/ LineIsValue(end)
        PROVE  HandOK'
    BY <1>2 DEF LineBad, LineAnnounces, LineOpens, LineIsEmptyAttr, LineIsValue, Fails,
       ReadLine, AtToken, HandOK
  <1>3. CASE Gets \/ Reset \/ LineMissing \/ PayloadMissing \/ PayloadBad \/ PayloadComplete
    BY <1>3 DEF Gets, Reset, LineMissing, PayloadMissing, PayloadBad, PayloadComplete, Fails,
       Starves, AtToken, HandOK
  <1>4. CASE Return \/ PlaceInside \/ FinishFails \/ FinishAttr \/ FinishFrame
    BY <1>4 DEF Return, PlaceInside, FinishFails, FinishAttr, FinishFrame, Finishes, Placing,
       HandOK
  <1>5. CASE UNCHANGED vars
    BY <1>5 DEF vars, HandOK
  <1> QED
    BY <1>1, <1>2, <1>3, <1>4, <1>5 DEF Next

\* The types of the parser's state.  A frame on the stack always lacks values, so
\* that _emit never fills one that is full, and a value is in hand only between
\* the token that completed it and its place, never while a payload is awaited.
THEOREM TypeCorrect == Spec => []TypeOK
  <1>1. Init => Typed
    BY InitSound DEF Init, Fresh, Typed, Frames, HandOK
  <1>2. Typed /\ [Next]_vars => Typed'
    BY NextSound, NextFrames, NextHand DEF Typed
  <1> QED
    BY <1>1, <1>2, TypedIsType, PTL DEF Spec
=============================================================================
