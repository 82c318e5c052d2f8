----------------------------- MODULE LineProofs ----------------------------
(***************************************************************************)
(* Proofs about the lines of the protocol: how JsonLineAssembler makes them   *)
(* out of the writes of the desktop, for every line length, every alphabet    *)
(* and every way of cutting the stream into writes; and how NusTx sends them, *)
(* for any number of threads, any lengths of lines and notifications, and any *)
(* number of lines and connections.                                          *)
(***************************************************************************)
EXTENDS JsonLineAssembler, NusTx, SequenceTheorems, TLAPS

\* The two halves of TypeOK: the flags, and the sequences with the counters.
FlagsOK == discarding \in BOOLEAN /\ synced \in BOOLEAN

BuffersOK ==
  /\ line \in Seq(Bytes) /\ Len(line) <= MaxLineLength
  /\ totalLines \in Nat /\ totalOverflowed \in Nat
  /\ data \in Seq(Bytes)
  /\ delivered \in Seq(Seq(Bytes))
  /\ rawLine \in Seq(Bytes)
  /\ sessionLine \in Seq(Bytes)
  /\ written \in Nat

\* A connection that has sent an LF owns everything the buffer holds.
SessionOwnsBuffer == synced => rawLine = sessionLine

\* The inductive invariant: Assembling needs the types of the histories, and
\* the resynchronisation properties need SessionOwnsBuffer.
IInv == FlagsOK /\ BuffersOK /\ Assembling /\ SessionOwnsBuffer

\* A GATT write is a sequence of bytes, so it can be fed byte by byte.
LEMMA WritesAreSequences ==
  ASSUME NEW w \in Writes
  PROVE  w \in Seq(Bytes) /\ w # << >>
<1>1. PICK n \in 1..MaxWrite : w \in [1..n -> Bytes]
  BY DEF Writes
<1> QED
  BY <1>1, AssemblerAssumption

\* The line that finish_line passes on is a sequence of bytes again.
LEMMA StripCRType ==
  ASSUME NEW s \in Seq(Bytes)
  PROVE  StripCR(s) \in Seq(Bytes)
  BY DEF StripCR

\* A reset assembler that has heard nothing satisfies the invariant.
LEMMA InitIInv == Init => IInv
<1> SUFFICES ASSUME Init
             PROVE  IInv
  OBVIOUS
<1>1. FlagsOK
  BY DEF Init, FlagsOK
<1>2. BuffersOK /\ Assembling
  BY AssemblerAssumption DEF Init, BuffersOK, Assembling
<1>3. SessionOwnsBuffer
  BY DEF Init, SessionOwnsBuffer
<1> QED
  BY <1>1, <1>2, <1>3 DEF IInv

\* The flags stay flags when a byte is fed.
LEMMA FeedByteFlags == IInv /\ FeedByte => FlagsOK'
<1> SUFFICES ASSUME IInv, FeedByte
             PROVE  FlagsOK'
  OBVIOUS
<1> DEFINE b == Head(data)
<1>1. synced' \in BOOLEAN
  BY DEF FeedByte, Hear, IInv, FlagsOK
<1>2. discarding' \in BOOLEAN
  BY DEF FeedByte, SkipByte, EndLine, TooLong, StoreByte, Reset, FinishLine,
         MarkOverflow, IInv, FlagsOK
<1> QED
  BY <1>1, <1>2 DEF FlagsOK

\* One turn of the loop of feed keeps the invariant: one case per branch.
LEMMA FeedByteIInv == IInv /\ FeedByte => IInv'
<1> SUFFICES ASSUME IInv, FeedByte
             PROVE  IInv'
  OBVIOUS
<1> USE AssemblerAssumption
<1> DEFINE b == Head(data)
<1>1. b \in Bytes /\ data' \in Seq(Bytes) /\ written' \in Nat
  BY DEF FeedByte, IInv, BuffersOK
<1>2. CASE b = LF
  <2>1. /\ rawLine' = << >> /\ sessionLine' = << >>
        /\ SessionOwnsBuffer'
    BY <1>2 DEF FeedByte, Hear, SessionOwnsBuffer
  <2>2. line' = << >> /\ discarding' = FALSE
    BY <1>2 DEF FeedByte, SkipByte, EndLine, TooLong, StoreByte, FinishLine, Reset
  <2>3. /\ totalLines' \in Nat /\ totalOverflowed' \in Nat
        /\ delivered' \in Seq(Seq(Bytes))
    <3>1. CASE SkipByte(b)
      BY <3>1 DEF SkipByte, IInv, BuffersOK
    <3>2. CASE EndLine(b)
      <4>1. StripCR(line) \in Seq(Bytes)
        BY StripCRType DEF IInv, BuffersOK
      <4> QED
        BY <3>2, <4>1 DEF EndLine, FinishLine, IInv, BuffersOK
    <3> QED
      BY <1>2, <3>1, <3>2 DEF FeedByte, TooLong, StoreByte
  <2>4. BuffersOK' /\ Assembling'
    BY <1>1, <2>1, <2>2, <2>3 DEF BuffersOK, Assembling
  <2> QED
    BY <2>1, <2>4, FeedByteFlags DEF IInv
<1>3. CASE b # LF
  <2>1. /\ rawLine' = Append(rawLine, b)
        /\ sessionLine' = Append(sessionLine, b)
        /\ synced' = synced
    BY <1>3 DEF FeedByte, Hear
  <2>2. /\ rawLine' \in Seq(Bytes) /\ sessionLine' \in Seq(Bytes)
        /\ Len(rawLine') = Len(rawLine) + 1
    BY <1>1, <2>1 DEF IInv, BuffersOK
  <2>3. SessionOwnsBuffer'
    BY <2>1 DEF IInv, SessionOwnsBuffer
  <2>4. delivered' = delivered /\ totalLines' = totalLines
    BY <1>3 DEF FeedByte, SkipByte, EndLine, TooLong, StoreByte, MarkOverflow
  <2>5. BuffersOK' /\ Assembling'
    <3>1. CASE SkipByte(b)
      BY <1>1, <1>3, <2>1, <2>2, <2>4, <3>1
         DEF SkipByte, IInv, BuffersOK, Assembling
    <3>2. CASE TooLong(b)
      BY <1>1, <2>1, <2>2, <2>4, <3>2
         DEF TooLong, Full, MarkOverflow, IInv, BuffersOK, Assembling
    <3>3. CASE StoreByte(b)
      BY <1>1, <2>1, <2>2, <2>4, <3>3 DEF StoreByte, Full, IInv, BuffersOK, Assembling
    <3> QED
      BY <1>3, <3>1, <3>2, <3>3 DEF FeedByte, EndLine
  <2> QED
    BY <2>3, <2>5, FeedByteFlags DEF IInv
<1> QED
  BY <1>2, <1>3

\* Every step of the receive path keeps the invariant.
LEMMA NextIInv == IInv /\ [Next]_vars => IInv'
<1> SUFFICES ASSUME IInv, [Next]_vars
             PROVE  IInv'
  OBVIOUS
<1>1. CASE Write
  <2>1. data' \in Seq(Bytes) /\ written' \in Nat
    BY <1>1, WritesAreSequences DEF Write, IInv, BuffersOK
  <2>2. UNCHANGED <<assemblerVars, historyVars>>
    BY <1>1 DEF Write
  <2> QED
    BY <2>1, <2>2 DEF IInv, FlagsOK, BuffersOK, Assembling, SessionOwnsBuffer,
                      assemblerVars, historyVars
<1>2. CASE FeedByte
  BY <1>2, FeedByteIInv
<1>3. CASE Reconnect
  <2>1. FlagsOK' /\ SessionOwnsBuffer'
    BY <1>3 DEF Reconnect, IInv, FlagsOK, SessionOwnsBuffer, assemblerVars
  <2>2. BuffersOK' /\ Assembling'
    BY <1>3 DEF Reconnect, IInv, BuffersOK, Assembling, assemblerVars
  <2> QED
    BY <2>1, <2>2 DEF IInv
<1>4. CASE UNCHANGED vars
  BY <1>4 DEF vars, assemblerVars, historyVars, IInv, FlagsOK, BuffersOK,
              Assembling, SessionOwnsBuffer
<1> QED
  BY <1>1, <1>2, <1>3, <1>4 DEF Next

\* The inductive invariant holds in every behaviour of the receive path.
THEOREM AssemblerInvariant == Spec => []IInv
  BY InitIInv, NextIInv, PTL DEF Spec

\* The types hold, and so does the bound that keeps finish_line's NUL inside
\* line_.
THEOREM TypeCorrect == Spec => []TypeOK
<1>1. IInv => TypeOK
  BY DEF IInv, FlagsOK, BuffersOK, TypeOK
<1> QED
  BY <1>1, AssemblerInvariant, PTL

\* The buffer is the piece since the last LF, or that piece is too long and
\* is being skipped.
THEOREM AssemblingHolds == Spec => []Assembling
<1>1. IInv => Assembling
  BY DEF IInv
<1> QED
  BY <1>1, AssemblerInvariant, PTL
\* A step of the assembler is a step of newline framing, or changes nothing
\* that framing speaks of.
LEMMA FramingStep ==
  IInv /\ [Next]_vars => [Framing!Next]_<<rawLine, delivered, totalOverflowed>>
<1> SUFFICES ASSUME IInv, [Next]_vars
             PROVE  [Framing!Next]_<<rawLine, delivered, totalOverflowed>>
  OBVIOUS
<1> USE AssemblerAssumption
<1>1. CASE Write \/ Reconnect \/ UNCHANGED vars
  BY <1>1 DEF Write, Reconnect, vars, assemblerVars, historyVars
<1>2. CASE FeedByte
  <2> DEFINE b == Head(data)
  <2>1. b \in Bytes
    BY <1>2 DEF FeedByte, IInv, BuffersOK
  <2>2. CASE SkipByte(b) /\ b = LF
    <3>1. Len(rawLine) > MaxLineLength
      BY <2>2 DEF SkipByte, IInv, Assembling
    <3>2. rawLine' = << >> /\ UNCHANGED <<delivered, totalOverflowed>>
      BY <1>2, <2>2 DEF FeedByte, SkipByte, Hear
    <3>3. Framing!EndPiece
      BY <3>1, <3>2 DEF Framing!EndPiece, IInv, BuffersOK
    <3> QED
      BY <3>3 DEF Framing!Next
  <2>3. CASE EndLine(b)
    <3>1. Len(rawLine) <= MaxLineLength /\ line = rawLine
      BY <2>3 DEF EndLine, IInv, Assembling, BuffersOK
    <3>2. StripCR(line) = Framing!Payload(rawLine)
      BY <3>1 DEF StripCR, Framing!Payload
    <3> QED
      BY <1>2, <2>3, <3>1, <3>2 DEF FeedByte, EndLine, FinishLine, Hear,
                                    Framing!Next, Framing!EndPiece
  <2>4. CASE b # LF
    <3>1. b \in Chars \cup {CR}
      BY <2>1, <2>4 DEF Bytes
    <3>2. rawLine' = Append(rawLine, b) /\ delivered' = delivered
      BY <1>2, <2>4 DEF FeedByte, Hear, SkipByte, EndLine, TooLong, StoreByte,
                        MarkOverflow
    <3>3. totalOverflowed' = IF Len(rawLine) = MaxLineLength
                             THEN totalOverflowed + 1 ELSE totalOverflowed
      <4>1. CASE SkipByte(b)
        BY <4>1 DEF SkipByte, IInv, Assembling, BuffersOK
      <4>2. CASE TooLong(b)
        BY <4>2 DEF TooLong, Full, MarkOverflow, IInv, Assembling, BuffersOK
      <4>3. CASE StoreByte(b)
        BY <4>3 DEF StoreByte, Full, IInv, Assembling, BuffersOK
      <4> QED
        BY <1>2, <2>4, <4>1, <4>2, <4>3 DEF FeedByte, EndLine
    <3>4. Framing!GrowPiece(b)
      BY <3>2, <3>3 DEF Framing!GrowPiece
    <3> QED
      BY <3>1, <3>4 DEF Framing!Next
  <2> QED
    BY <1>2, <2>2, <2>3, <2>4 DEF FeedByte, TooLong, StoreByte
<1> QED
  BY <1>1, <1>2 DEF Next

\* The assembler implements newline framing, however writes cut the stream and
\* however connections come and go.
THEOREM ImplementsFraming == Spec => FramingSpec
<1>1. Init => Framing!Init
  BY DEF Init, Framing!Init
<1> QED
  BY <1>1, AssemblerInvariant, FramingStep, PTL
     DEF Spec, FramingSpec, Framing!Spec, Framing!framingVars

\* After its first LF a connection gets its own lines, whole.
THEOREM Resync == Spec => ResyncAfterLF
<1>1. IInv /\ [Next]_vars
        => [synced /\ totalLines' # totalLines
              => delivered' = Append(delivered, StripCR(sessionLine))]_vars
  <2> SUFFICES ASSUME IInv, Next, synced, totalLines' # totalLines
               PROVE  delivered' = Append(delivered, StripCR(sessionLine))
    OBVIOUS
  <2>1. EndLine(Head(data))
    BY DEF Next, Write, FeedByte, Reconnect, SkipByte, TooLong, MarkOverflow,
           StoreByte, assemblerVars
  <2>2. line = sessionLine
    BY <2>1 DEF EndLine, IInv, Assembling, SessionOwnsBuffer
  <2> QED
    BY <2>1, <2>2 DEF EndLine, FinishLine
<1> QED
  BY <1>1, AssemblerInvariant, PTL DEF Spec, ResyncAfterLF

\* After its first LF a connection loses only lines it made too long itself.
THEOREM DropsOwn == Spec => DropsOnlyOwnOverlong
<1>1. IInv /\ [Next]_vars
        => [synced /\ totalOverflowed' # totalOverflowed
              => Len(sessionLine) = MaxLineLength]_vars
  <2> SUFFICES ASSUME IInv, Next, synced, totalOverflowed' # totalOverflowed
               PROVE  Len(sessionLine) = MaxLineLength
    OBVIOUS
  <2>1. TooLong(Head(data))
    BY DEF Next, Write, FeedByte, Reconnect, SkipByte, EndLine, FinishLine,
           StoreByte, assemblerVars
  <2>2. line = sessionLine
    BY <2>1 DEF TooLong, IInv, Assembling, SessionOwnsBuffer
  <2> QED
    BY <2>1, <2>2, AssemblerAssumption DEF TooLong, Full, IInv, BuffersOK
<1> QED
  BY <1>1, AssemblerInvariant, PTL DEF Spec, DropsOnlyOwnOverlong

-----------------------------------------------------------------------------
(* What a notification adds.                                                *)

\* The bytes of a piece are the next ones of its line.
LEMMA PieceProperties ==
  ASSUME NEW t \in Threads, NEW n \in Nat,
         job[t] \in Job, job[t].line # 0, job[t].sent + n <= job[t].len
  PROVE  /\ Piece(t, n) \in Seq(Byte)
         /\ Len(Piece(t, n)) = n
         /\ \A i \in 1 .. n :
              Piece(t, n)[i] = [line |-> job[t].line, at |-> job[t].sent + i,
                                of |-> job[t].len]
<1>1. \A i \in 1 .. n :
        [line |-> job[t].line, at |-> job[t].sent + i, of |-> job[t].len] \in Byte
  BY TxAssumption DEF Job, Byte
<1>2. Piece(t, n) \in [1 .. n -> Byte]
  BY <1>1 DEF Piece
<1>3. Piece(t, n) \in Seq(Byte)
  BY <1>2, SeqDef
<1>4. 1 .. Len(Piece(t, n)) = 1 .. n /\ Len(Piece(t, n)) \in Nat
  BY <1>2, <1>3, LenProperties
<1> QED
  BY <1>3, <1>4 DEF Piece

\* A stream that has grown by a piece.
LEMMA Grown ==
  ASSUME NEW s \in Seq(Byte), NEW p \in Seq(Byte)
  PROVE  /\ s \o p \in Seq(Byte)
         /\ Len(s \o p) = Len(s) + Len(p)
         /\ Len(s) \in Nat /\ Len(p) \in Nat
         /\ DOMAIN (s \o p) = 1 .. Len(s) + Len(p)
         /\ DOMAIN s = 1 .. Len(s)
         /\ \A i \in 1 .. Len(s) : (s \o p)[i] = s[i]
         /\ \A i \in 1 .. Len(p) : (s \o p)[Len(s) + i] = p[i]
<1>1. s \o p \in Seq(Byte) /\ Len(s \o p) = Len(s) + Len(p)
  BY ConcatProperties
<1>2. Len(s) \in Nat /\ Len(p) \in Nat /\ DOMAIN s = 1 .. Len(s)
  BY LenProperties
<1>3. DOMAIN (s \o p) = 1 .. Len(s) + Len(p)
  BY <1>1, LenProperties
<1>4. \A i \in 1 .. Len(s) + Len(p) :
        (s \o p)[i] = IF i <= Len(s) THEN s[i] ELSE p[i - Len(s)]
  BY ConcatProperties
<1>5. \A i \in 1 .. Len(s) : (s \o p)[i] = s[i]
  BY <1>2, <1>4
<1>6. ASSUME NEW i \in 1 .. Len(p)
      PROVE  (s \o p)[Len(s) + i] = p[i]
  <2>1. Len(s) + i \in 1 .. Len(s) + Len(p) /\ ~(Len(s) + i <= Len(s))
        /\ Len(s) + i - Len(s) = i
    BY <1>2
  <2> QED
    BY <1>4, <2>1
<1> QED
  BY <1>1, <1>2, <1>3, <1>5, <1>6

LEMMA StreamBytes ==
  ASSUME TxTypeOK
  PROVE  /\ stream \in Seq(Byte)
         /\ Len(stream) \in Nat /\ DOMAIN stream = 1 .. Len(stream)
         /\ \A i \in DOMAIN stream :
              /\ stream[i] \in Byte
              /\ stream[i].line \in Nat /\ stream[i].at \in Nat \ {0} /\ stream[i].of \in Nat
<1>1. stream \in Seq(Byte)
  BY DEF TxTypeOK
<1>2. Len(stream) \in Nat /\ DOMAIN stream = 1 .. Len(stream)
  BY <1>1, LenProperties
<1>3. ASSUME NEW i \in DOMAIN stream
      PROVE  stream[i] \in Byte
  BY <1>1, <1>2, <1>3, ElementOfSeq
<1>4. ASSUME NEW b \in Byte
      PROVE  b.line \in Nat /\ b.at \in Nat \ {0} /\ b.of \in Nat
  BY TxAssumption DEF Byte
<1> QED
  BY <1>1, <1>2, <1>3, <1>4

-----------------------------------------------------------------------------
(* Order.                                                                   *)

\* A line has one sender.
SendersOK ==
  \A t \in Threads : Sending(t) =>
    /\ job[t].line \in 1 .. lines
    /\ job[t].len \in 1 .. MaxLine
    /\ job[t].sent <= job[t].len
    /\ job[t].payload > 0
    /\ job[t].on <= connection
    /\ \A u \in Threads \ {t} : Sending(u) => job[u].line # job[t].line

\* No byte is ahead of its sender, and one that is behind has been followed.
SenderIsAhead ==
  \A t \in Threads, i \in DOMAIN stream :
    Sending(t) /\ stream[i].line = job[t].line =>
      /\ stream[i].at <= job[t].sent
      /\ \/ stream[i].at = job[t].sent
         \/ \E k \in i + 1 .. Len(stream) : SameLine(i, k) /\ stream[k].at = stream[i].at + 1

\* What was sent on the connection of now is there.
SentIsThere ==
  \A t \in Threads : Sending(t) /\ job[t].on = connection => Received(job[t].line, job[t].sent)

LinesBegun == \A i \in DOMAIN stream : stream[i].line <= lines

\* The inductive invariant.  BytesInOrder alone does not say where a sender is: a
\* state in which one is about to send a byte again satisfies it.
TxInv ==
  /\ TxTypeOK
  /\ SendersOK
  /\ LinesBegun
  /\ BytesInOrder
  /\ SenderIsAhead
  /\ SentIsThere

LEMMA InitTx == TxInit => TxInv
<1> SUFFICES ASSUME TxInit
             PROVE  TxInv
  OBVIOUS
<1>1. stream \in Seq(Byte) /\ DOMAIN stream = {}
  BY DEF TxInit
<1>2. TxTypeOK
  <2>1. NoJob \in Job
    BY TxAssumption DEF NoJob, Job
  <2>2. 0 \in -2 .. MaxLine /\ 0 \in 0 .. MaxConnections /\ 0 \in 0 .. MaxLines
    BY TxAssumption
  <2> QED
    BY <1>1, <2>1, <2>2, TxAssumption DEF TxInit, TxTypeOK
<1>3. \A t \in Threads : ~Sending(t)
  BY DEF TxInit, Sending
<1> QED
  BY <1>1, <1>2, <1>3 DEF TxInv, SendersOK, LinesBegun, BytesInOrder, SenderIsAhead, SentIsThere

\* Connections begin with an empty stream.
LEMMA ConnectTx == TxInv /\ Connect => TxInv'
<1> SUFFICES ASSUME TxInv, Connect
             PROVE  TxInv'
  OBVIOUS
<1> USE DEF TxInv, Connect
<1>1. stream' \in Seq(Byte) /\ DOMAIN stream' = {}
  OBVIOUS
<1>2. TxTypeOK'
  <2>1. connection + 1 \in 0 .. MaxConnections
    BY TxAssumption DEF TxTypeOK
  <2> QED
    BY <1>1, <2>1, TxAssumption DEF TxTypeOK
<1>3. connection' = connection + 1 /\ connection \in Nat
  BY DEF TxTypeOK
<1>4. \A t \in Threads : Sending(t)' = Sending(t) /\ job'[t] = job[t]
  BY DEF Sending
<1>5. \A t \in Threads : job[t].on \in Int
  BY DEF TxTypeOK, Job
<1>6. SendersOK'
  BY <1>3, <1>4, <1>5 DEF SendersOK
<1>7. SentIsThere'
  BY <1>3, <1>4, <1>5 DEF SentIsThere, SendersOK
<1> QED
  BY <1>1, <1>2, <1>6, <1>7 DEF LinesBegun, BytesInOrder, SenderIsAhead

\* The other events of the link, a refusal and a blocked send change nothing that
\* is sent.
LEMMA StreamStaysTx ==
  ASSUME TxInv, TxTypeOK',
         UNCHANGED <<stream, connection>>, lines' >= lines, lines' \in Nat,
         \A t \in Threads : Sending(t)' => Sending(t)
                            /\ job'[t] \in Job /\ job[t] \in Job
                            /\ job'[t].line = job[t].line /\ job'[t].len = job[t].len
                            /\ job'[t].sent = job[t].sent
                            /\ job'[t].payload = job[t].payload /\ job'[t].on = job[t].on
  PROVE  TxInv'
<1> USE DEF TxInv
<1>0. lines \in Nat
  BY DEF TxTypeOK
<1>1. SendersOK'
  BY <1>0 DEF SendersOK, Job
<1>2. LinesBegun'
  <2>1. \A i \in DOMAIN stream : stream[i].line \in Nat
    BY StreamBytes
  <2> QED
    BY <1>0, <2>1 DEF LinesBegun
<1>3. BytesInOrder'
  BY DEF BytesInOrder, SameLine
<1>4. SenderIsAhead'
  BY DEF SenderIsAhead, SameLine
<1>5. SentIsThere'
  BY DEF SentIsThere, Received
<1> QED
  BY <1>1, <1>2, <1>3, <1>4, <1>5

LEMMA SendBeginsTx ==
  ASSUME TxInv, NEW t \in Threads, NEW len \in 1 .. MaxLine, SendBegins(t, len)
  PROVE  TxInv'
<1> USE DEF TxInv, SendBegins
<1> DEFINE new == [line |-> lines + 1, len |-> len, sent |-> 0, payload |-> Payload,
                   retries |-> Retries, on |-> connection]
<1>1. /\ lines \in Nat /\ lines + 1 \in 1 .. MaxLines /\ lines' = lines + 1
      /\ connection \in 0 .. MaxConnections
  BY TxAssumption DEF TxTypeOK
<1>2. Payload \in 1 .. MaxNotify
  <2>1. mtu \in Nat
    BY TxAssumption DEF TxTypeOK
  <2> QED
    BY <2>1, TxAssumption DEF Payload, Least
<1>3. new \in Job
  BY <1>1, <1>2, TxAssumption DEF Job
<1>4. job' = [job EXCEPT ![t] = new] /\ job \in [Threads -> Job]
      /\ pc' = [pc EXCEPT ![t] = "sending"] /\ pc \in [Threads -> {"idle", "sending"}]
  BY <1>1 DEF TxTypeOK
<1>5. TxTypeOK'
  BY <1>1, <1>3, <1>4 DEF TxTypeOK, linkVars
<1>6. /\ job'[t] = new /\ Sending(t)' /\ ~Sending(t)
      /\ \A u \in Threads \ {t} : job'[u] = job[u] /\ (Sending(u)' <=> Sending(u))
  BY <1>4 DEF Sending
<1>7. SendersOK'
  <2>1. ASSUME NEW u \in Threads, Sending(u)'
        PROVE  /\ job'[u].line \in 1 .. lines'
               /\ job'[u].len \in 1 .. MaxLine
               /\ job'[u].sent <= job'[u].len
               /\ job'[u].payload > 0
               /\ job'[u].on <= connection'
    BY <1>1, <1>2, <1>6, <2>1, TxAssumption DEF SendersOK
  <2>2. ASSUME NEW u \in Threads, NEW v \in Threads \ {u}, Sending(u)', Sending(v)'
        PROVE  job'[u].line # job'[v].line
    BY <1>1, <1>6, <2>2 DEF SendersOK
  <2> QED
    BY <2>1, <2>2 DEF SendersOK
<1>8. LinesBegun' /\ \A i \in DOMAIN stream : stream[i].line # lines + 1
  BY <1>1, StreamBytes DEF LinesBegun
<1>9. SenderIsAhead'
  <2> SUFFICES ASSUME NEW u \in Threads, NEW i \in DOMAIN stream,
                      Sending(u)', stream[i].line = job'[u].line
               PROVE  /\ stream[i].at <= job'[u].sent
                      /\ \/ stream[i].at = job'[u].sent
                         \/ \E k \in i + 1 .. Len(stream) :
                              SameLine(i, k) /\ stream[k].at = stream[i].at + 1
    BY DEF SenderIsAhead, SameLine
  <2>1. u # t
    BY <1>6, <1>8
  <2> QED
    BY <1>6, <2>1 DEF SenderIsAhead
<1>10. SentIsThere'
  <2> SUFFICES ASSUME NEW u \in Threads, Sending(u)', job'[u].on = connection
               PROVE  Received(job'[u].line, job'[u].sent)
    BY DEF SentIsThere, Received
  <2>1. CASE u = t
    BY <1>6, <2>1 DEF Received
  <2>2. CASE u # t
    BY <1>6, <2>2 DEF SentIsThere
  <2> QED
    BY <2>1, <2>2
<1>11. BytesInOrder'
  BY DEF BytesInOrder, SameLine
<1> QED
  BY <1>5, <1>7, <1>8, <1>9, <1>10, <1>11

\* What the stack accepts are the next bytes of the line.
LEMMA AcceptsPiece ==
  ASSUME TxInv, NEW t \in Threads, Accepts(t)
  PROVE  LET n == Chunk(t)
             p == Piece(t, n)
         IN  /\ job[t] \in Job /\ n \in 1 .. job[t].len - job[t].sent
             /\ stream' = stream \o p /\ p \in Seq(Byte) /\ Len(p) = n
             /\ \A i \in 1 .. n :
                  p[i] = [line |-> job[t].line, at |-> job[t].sent + i, of |-> job[t].len]
             /\ job'[t] = [job[t] EXCEPT !.sent = job[t].sent + n, !.retries = Retries]
             /\ \A u \in Threads \ {t} : job'[u] = job[u]
             /\ TxTypeOK'
<1> USE DEF TxInv, Accepts
<1>1. /\ job[t] \in Job /\ job \in [Threads -> Job]
      /\ job[t].line \in Nat \ {0} /\ job[t].len \in 1 .. MaxLine /\ job[t].sent \in Nat
      /\ job[t].payload \in Nat \ {0} /\ job[t].sent < job[t].len
  <2>1. job[t] \in Job /\ job \in [Threads -> Job]
    BY DEF TxTypeOK
  <2>2. job[t].sent \in Nat /\ job[t].payload \in Nat /\ lines \in Nat
    BY <2>1, TxAssumption DEF Job, TxTypeOK
  <2> QED
    BY <2>1, <2>2 DEF SendersOK
<1>2. Chunk(t) \in 1 .. job[t].len - job[t].sent
  <2>1. \A s \in Nat, l \in 1 .. MaxLine, p \in Nat \ {0} :
          s < l => Least(l - s, p) \in 1 .. l - s
    BY TxAssumption DEF Least
  <2> HIDE DEF Accepts, TxInv
  <2> QED
    BY <1>1, <2>1 DEF Chunk
<1>sum. /\ Chunk(t) \in Nat /\ job[t].sent + Chunk(t) <= job[t].len
        /\ job[t].sent + Chunk(t) \in 0 .. MaxLine
  <2>1. \A s \in Nat, l \in 1 .. MaxLine : \A c \in 1 .. l - s :
          c \in Nat /\ s + c <= l /\ s + c \in 0 .. MaxLine
    BY TxAssumption
  <2> HIDE DEF Accepts, TxInv
  <2> QED
    BY <1>1, <1>2, <2>1
<1>3. /\ Piece(t, Chunk(t)) \in Seq(Byte) /\ Len(Piece(t, Chunk(t))) = Chunk(t)
      /\ \A i \in 1 .. Chunk(t) :
           Piece(t, Chunk(t))[i] = [line |-> job[t].line, at |-> job[t].sent + i,
                                    of |-> job[t].len]
  <2>1. Chunk(t) \in Nat /\ job[t].line # 0 /\ job[t].sent + Chunk(t) <= job[t].len
    BY <1>1, <1>sum
  <2> QED
    BY <1>1, <2>1, PieceProperties
<1>4. /\ job'[t] = [job[t] EXCEPT !.sent = job[t].sent + Chunk(t), !.retries = Retries]
      /\ \A u \in Threads \ {t} : job'[u] = job[u]
      /\ job' \in [Threads -> Job]
  <2>1. job[t].sent + Chunk(t) \in 0 .. MaxLine /\ Retries \in 0 .. Retries
    BY <1>sum, TxAssumption
  <2>2. [job[t] EXCEPT !.sent = job[t].sent + Chunk(t), !.retries = Retries] \in Job
    <3>1. \A n \in 0 .. MaxLine, m \in 0 .. Retries :
            [job[t] EXCEPT !.sent = n, !.retries = m] \in Job
      BY <1>1 DEF Job
    <3> QED
      BY <2>1, <3>1
  <2>3. job' = [job EXCEPT ![t] = [job[t] EXCEPT !.sent = job[t].sent + Chunk(t),
                                                !.retries = Retries]]
    BY <1>1
  <2> QED
    BY <1>1, <2>2, <2>3
<1>5. TxTypeOK'
  <2>1. stream' \in Seq(Byte)
    BY <1>3, Grown DEF TxTypeOK
  <2>2. disturbed' \subseteq {"overlap", "reconnect", "cut"}
    BY DEF NoteChunk, TxTypeOK
  <2> QED
    BY <1>4, <2>1, <2>2 DEF TxTypeOK, linkVars
<1> QED
  BY <1>1, <1>2, <1>3, <1>4, <1>5

LEMMA AcceptsTx ==
  ASSUME TxInv, NEW t \in Threads, Accepts(t)
  PROVE  TxInv'
<1> DEFINE n == Chunk(t)
           p == Piece(t, n)
           L == Len(stream)
<1>1. /\ job[t] \in Job /\ n \in 1 .. job[t].len - job[t].sent
      /\ stream' = stream \o p /\ p \in Seq(Byte) /\ Len(p) = n
      /\ \A i \in 1 .. n :
           p[i] = [line |-> job[t].line, at |-> job[t].sent + i, of |-> job[t].len]
      /\ job'[t] = [job[t] EXCEPT !.sent = job[t].sent + n, !.retries = Retries]
      /\ \A u \in Threads \ {t} : job'[u] = job[u]
      /\ TxTypeOK'
  BY AcceptsPiece
<1>2. /\ Sending(t) /\ \A u \in Threads : Sending(u)' = Sending(u)
      /\ UNCHANGED <<connection, lines>>
  BY DEF Accepts, Sending
<1>3. /\ job[t].line \in 1 .. lines /\ job[t].len \in Nat /\ job[t].sent \in Nat
      /\ lines \in Nat
      /\ job'[t] \in Job /\ job'[t].sent = job[t].sent + n /\ job'[t].sent <= job[t].len
      /\ job'[t].line = job[t].line /\ job'[t].len = job[t].len
      /\ job'[t].payload = job[t].payload /\ job'[t].on = job[t].on
  <2>1. job[t].len \in Nat /\ job[t].sent \in Nat /\ lines \in Nat
    BY <1>1, TxAssumption DEF Job, TxInv, TxTypeOK
  <2>2. job[t].line \in 1 .. lines
    BY <1>2 DEF TxInv, SendersOK
  <2>3. job'[t] \in Job
    BY <1>1 DEF TxTypeOK
  <2>4. /\ job'[t].sent = job[t].sent + n
        /\ job'[t].line = job[t].line /\ job'[t].len = job[t].len
        /\ job'[t].payload = job[t].payload /\ job'[t].on = job[t].on
    BY <1>1 DEF Job
  <2> QED
    BY <1>1, <2>1, <2>2, <2>3, <2>4
<1>4. /\ L \in Nat /\ DOMAIN stream = 1 .. L
      /\ DOMAIN stream' = 1 .. L + n /\ Len(stream') = L + n
      /\ \A i \in 1 .. L : stream'[i] = stream[i]
      /\ \A i \in 1 .. n : /\ stream'[L + i].line = job[t].line
                          /\ stream'[L + i].at = job[t].sent + i
  <2>1. stream \in Seq(Byte)
    BY DEF TxInv, TxTypeOK
  <2>2. \A i \in 1 .. n : stream'[L + i] = p[i]
    BY <1>1, <2>1, Grown
  <2> QED
    BY <1>1, <2>1, <2>2, Grown
<1>5. \A i \in DOMAIN stream' :
        \/ i \in 1 .. L /\ i \in DOMAIN stream /\ stream'[i] = stream[i]
        \/ i - L \in 1 .. n /\ stream'[i].line = job[t].line
           /\ stream'[i].at = job[t].sent + (i - L)
  <2> SUFFICES ASSUME NEW i \in DOMAIN stream', i \notin 1 .. L
               PROVE  i - L \in 1 .. n /\ stream'[i].line = job[t].line
                      /\ stream'[i].at = job[t].sent + (i - L)
    BY <1>4
  <2>1. i - L \in 1 .. n /\ L + (i - L) = i
    BY <1>1, <1>4
  <2> QED
    BY <1>4, <2>1
<1>6. \A i \in 1 .. L : stream[i].at \in Nat /\ stream[i].line \in Nat
  BY <1>4, StreamBytes DEF TxInv
<1>nat. n \in Nat /\ n > 0 /\ L \in Nat /\ job[t].sent \in Nat
  <2>1. \A len, sent \in Nat : \A m \in 1 .. len - sent : m \in Nat /\ m > 0
    OBVIOUS
  <2> QED
    BY <1>1, <1>3, <1>4, <2>1
<1> HIDE DEF n, p, L
<1>7. SendersOK'
  <2> SUFFICES ASSUME NEW u \in Threads, Sending(u)
               PROVE  /\ job'[u].line \in 1 .. lines
                      /\ job'[u].len \in 1 .. MaxLine
                      /\ job'[u].sent <= job'[u].len
                      /\ job'[u].payload > 0
                      /\ job'[u].on <= connection
                      /\ \A v \in Threads \ {u} : Sending(v) => job'[v].line # job'[u].line
    BY <1>2 DEF SendersOK
  <2>1. \A v \in Threads : job'[v].line = job[v].line
    BY <1>1, <1>3
  <2>2. \A v \in Threads \ {u} : Sending(v) => job'[v].line # job'[u].line
    BY <2>1 DEF TxInv, SendersOK
  <2>3. CASE u = t
    BY <1>2, <1>3, <2>2, <2>3 DEF TxInv, SendersOK
  <2>4. CASE u # t
    BY <1>1, <2>2, <2>4 DEF TxInv, SendersOK
  <2> QED
    BY <2>3, <2>4
<1>8. LinesBegun'
  BY <1>2, <1>3, <1>4, <1>5 DEF TxInv, LinesBegun
\* A byte of the line that is there already is followed in the new stream.
<1>9. ASSUME NEW i \in 1 .. L, stream[i].line = job[t].line
      PROVE  /\ stream[i].at <= job[t].sent
             /\ \E k \in i + 1 .. L + 1 : /\ stream'[k].line = stream[i].line
                                         /\ stream'[k].at = stream[i].at + 1
  <2>1. /\ stream[i].at <= job[t].sent
        /\ \/ stream[i].at = job[t].sent
           \/ \E k \in i + 1 .. L : SameLine(i, k) /\ stream[k].at = stream[i].at + 1
    BY <1>2, <1>4, <1>9 DEF TxInv, SenderIsAhead, L
  <2>2. CASE stream[i].at = job[t].sent
    <3>1. 1 \in 1 .. n /\ L + 1 \in i + 1 .. L + 1
      BY <1>1, <1>3, <1>4
    <3> QED
      BY <1>4, <1>9, <2>1, <2>2, <3>1
  <2>3. CASE \E k \in i + 1 .. L : SameLine(i, k) /\ stream[k].at = stream[i].at + 1
    <3>1. PICK k \in i + 1 .. L : SameLine(i, k) /\ stream[k].at = stream[i].at + 1
      BY <2>3
    <3>2. k \in 1 .. L /\ k \in i + 1 .. L + 1
      BY <1>4
    <3> QED
      BY <1>4, <2>1, <3>1, <3>2 DEF SameLine
  <2> QED
    BY <2>1, <2>2, <2>3
<1>10. BytesInOrder'
  <2> SUFFICES ASSUME NEW i \in DOMAIN stream', NEW j \in DOMAIN stream',
                      i < j, stream'[i].line = stream'[j].line
               PROVE  /\ stream'[i].at < stream'[j].at
                      /\ \E k \in i + 1 .. j : /\ stream'[i].line = stream'[k].line
                                              /\ stream'[k].at = stream'[i].at + 1
    BY DEF BytesInOrder, SameLine
  <2>1. CASE j \in 1 .. L
    <3>1. i \in 1 .. L
      BY <1>4, <2>1
    <3>2. stream[i].line = stream[j].line
      BY <1>4, <2>1, <3>1
    <3>3. PICK k \in i + 1 .. j : SameLine(i, k) /\ stream[k].at = stream[i].at + 1
      BY <1>4, <2>1, <3>1, <3>2 DEF TxInv, BytesInOrder, SameLine
    <3>4. stream[i].at < stream[j].at
      BY <1>4, <2>1, <3>1, <3>2 DEF TxInv, BytesInOrder, SameLine
    <3>5. k \in 1 .. L
      BY <1>4, <2>1, <3>1
    <3> QED
      BY <1>4, <2>1, <3>1, <3>3, <3>4, <3>5 DEF SameLine
  <2>2. CASE i \in 1 .. L /\ j \notin 1 .. L
    <3>1. j - L \in 1 .. n /\ stream'[j].line = job[t].line
          /\ stream'[j].at = job[t].sent + (j - L) /\ stream'[i] = stream[i]
      BY <1>4, <1>5, <2>2
    <3>2. /\ stream[i].at <= job[t].sent
          /\ \E k \in i + 1 .. L + 1 : /\ stream'[k].line = stream[i].line
                                      /\ stream'[k].at = stream[i].at + 1
      BY <1>9, <2>2, <3>1
    <3>3. j \in Int /\ L + 1 <= j /\ i \in Int
      BY <1>1, <1>4, <3>1
    <3>4. PICK k \in i + 1 .. L + 1 : /\ stream'[k].line = stream[i].line
                                    /\ stream'[k].at = stream[i].at + 1
      BY <3>2
    <3>5. k \in i + 1 .. j
      BY <1>4, <3>3
    <3>6. stream[i].at < job[t].sent + (j - L)
      <4>1. \A at, sent \in Nat, m \in 1 .. n : at <= sent => at < sent + m
        OBVIOUS
      <4>2. stream[i].at \in Nat /\ stream[i].at <= job[t].sent /\ j - L \in 1 .. n
        BY <1>6, <2>2, <3>1, <3>2
      <4> QED
        BY <1>nat, <4>1, <4>2
    <3> QED
      BY <3>1, <3>4, <3>5, <3>6
  <2>3. CASE i \notin 1 .. L
    <3>1. /\ i - L \in 1 .. n /\ stream'[i].at = job[t].sent + (i - L)
          /\ stream'[i].line = job[t].line
      BY <1>5, <2>3
    <3>2. i \in Int /\ j \in Int /\ j \notin 1 .. L
      BY <1>4, <2>3
    <3>3. /\ j - L \in 1 .. n /\ stream'[j].at = job[t].sent + (j - L)
      BY <1>5, <3>2
    <3>4. i + 1 \in i + 1 .. j /\ (i + 1) - L \in 1 .. n /\ i + 1 = L + ((i + 1) - L)
      BY <1>nat, <3>1, <3>2, <3>3
    <3>5. /\ stream'[i + 1].line = job[t].line
          /\ stream'[i + 1].at = job[t].sent + ((i + 1) - L)
      BY <1>4, <3>4
    <3>6. /\ job[t].sent + (i - L) < job[t].sent + (j - L)
          /\ job[t].sent + ((i + 1) - L) = job[t].sent + (i - L) + 1
      BY <1>3, <1>4, <3>2
    <3> QED
      BY <3>1, <3>3, <3>4, <3>5, <3>6
  <2> QED
    BY <2>1, <2>2, <2>3
<1>11. SenderIsAhead'
  <2> SUFFICES ASSUME NEW u \in Threads, NEW i \in DOMAIN stream',
                      Sending(u), stream'[i].line = job'[u].line
               PROVE  /\ stream'[i].at <= job'[u].sent
                      /\ \/ stream'[i].at = job'[u].sent
                         \/ \E k \in i + 1 .. L + n : /\ stream'[i].line = stream'[k].line
                                                     /\ stream'[k].at = stream'[i].at + 1
    BY <1>2, <1>4 DEF SenderIsAhead, SameLine
  <2>1. CASE u = t /\ i \in 1 .. L
    <3>1. /\ stream[i].at <= job[t].sent
          /\ \E k \in i + 1 .. L + 1 : /\ stream'[k].line = stream[i].line
                                      /\ stream'[k].at = stream[i].at + 1
      BY <1>3, <1>4, <1>9, <2>1
    <3>2. stream[i].at <= job[t].sent + n
      <4>1. \A at, sent \in Nat : at <= sent => at <= sent + n
        BY <1>nat
      <4>2. stream[i].at \in Nat
        BY <1>6, <2>1
      <4> QED
        BY <1>nat, <3>1, <4>1, <4>2
    <3>3. i + 1 .. L + 1 \subseteq i + 1 .. L + n
      BY <1>1, <1>3, <1>4, <2>1
    <3> QED
      BY <1>3, <1>4, <2>1, <3>1, <3>2, <3>3
  <2>2. CASE u = t /\ i \notin 1 .. L
    <3>1. i - L \in 1 .. n /\ stream'[i].at = job[t].sent + (i - L) /\ i \in Int
          /\ stream'[i].line = job[t].line
      BY <1>4, <1>5, <2>2
    <3>2. CASE i - L = n
      BY <1>3, <2>2, <3>1, <3>2
    <3>3. CASE i - L # n
      <4>1. i + 1 \in i + 1 .. L + n /\ (i + 1) - L \in 1 .. n /\ i + 1 = L + ((i + 1) - L)
        BY <1>nat, <3>1, <3>3
      <4>2. /\ stream'[i + 1].line = job[t].line
            /\ stream'[i + 1].at = job[t].sent + ((i + 1) - L)
        BY <1>4, <4>1
      <4>3. /\ job[t].sent + ((i + 1) - L) = job[t].sent + (i - L) + 1
            /\ job[t].sent + (i - L) <= job[t].sent + n
        BY <1>nat, <3>1
      <4> QED
        BY <1>3, <2>2, <3>1, <4>1, <4>2, <4>3
    <3> QED
      BY <3>2, <3>3
  <2>3. CASE u # t
    <3>1. job'[u] = job[u] /\ job[u].line # job[t].line
      BY <1>1, <1>2, <2>3 DEF TxInv, SendersOK
    <3>2. i \in 1 .. L /\ stream'[i] = stream[i]
      BY <1>5, <3>1
    <3>3. /\ stream[i].at <= job[u].sent
          /\ \/ stream[i].at = job[u].sent
             \/ \E k \in i + 1 .. L : SameLine(i, k) /\ stream[k].at = stream[i].at + 1
      BY <1>4, <3>1, <3>2 DEF TxInv, SenderIsAhead, L
    <3>4. \A k \in i + 1 .. L : k \in 1 .. L /\ k \in i + 1 .. L + n
      BY <1>1, <1>3, <1>4, <3>2
    <3> QED
      BY <1>4, <3>1, <3>2, <3>3, <3>4 DEF SameLine
  <2> QED
    BY <2>1, <2>2, <2>3
<1>12. SentIsThere'
  <2> SUFFICES ASSUME NEW u \in Threads, Sending(u), job'[u].on = connection,
                      NEW a \in 1 .. job'[u].sent
               PROVE  \E i \in 1 .. L + n :
                        stream'[i].line = job'[u].line /\ stream'[i].at = a
    BY <1>2, <1>4 DEF SentIsThere, Received
  <2>1. ASSUME Received(job[u].line, job[u].sent), a \in 1 .. job[u].sent
        PROVE  \E i \in 1 .. L + n : stream'[i].line = job[u].line /\ stream'[i].at = a
    <3>1. PICK i \in 1 .. L : stream[i].line = job[u].line /\ stream[i].at = a
      BY <1>4, <2>1 DEF Received
    <3>2. i \in 1 .. L + n
      BY <1>nat
    <3>3. stream'[i] = stream[i]
      BY <1>4
    <3> QED
      BY <3>1, <3>2, <3>3
  <2>2. CASE u # t
    <3>1. /\ job'[u] = job[u] /\ Sending(u) /\ job[u].on = connection
          /\ a \in 1 .. job[u].sent
      BY <1>1, <2>2
    <3>2. Received(job[u].line, job[u].sent)
      BY <3>1 DEF TxInv, SentIsThere
    <3> QED
      BY <2>1, <3>1, <3>2
  <2>3. CASE u = t /\ a \in 1 .. job[t].sent
    BY <1>3, <2>1, <2>3 DEF TxInv, SentIsThere
  <2>4. CASE u = t /\ a \notin 1 .. job[t].sent
    <3>1. a - job[t].sent \in 1 .. n /\ job[t].sent + (a - job[t].sent) = a
      BY <1>3, <1>nat, <2>4
    <3>2. L + (a - job[t].sent) \in 1 .. L + n
      BY <1>nat, <3>1
    <3> QED
      BY <1>3, <1>4, <2>4, <3>1, <3>2
  <2> QED
    BY <2>2, <2>3, <2>4
<1> QED
  BY <1>1, <1>7, <1>8, <1>10, <1>11, <1>12 DEF TxInv

\* What a thread does to its own job without sending.
LEMMA ResultTypes ==
  ASSUME TxTypeOK, NEW t \in Threads
  PROVE  /\ job[t] \in Job /\ job[t].sent \in 0 .. MaxLine /\ job[t].len \in 0 .. MaxLine
         /\ job[t].retries \in 0 .. Retries
         /\ job[t].sent \in -2 .. MaxLine /\ -1 \in -2 .. MaxLine /\ -2 \in -2 .. MaxLine
<1>1. job[t] \in Job
  BY DEF TxTypeOK
<1>2. job[t].sent \in 0 .. MaxLine /\ job[t].len \in 0 .. MaxLine /\ job[t].retries \in 0 .. Retries
  BY <1>1 DEF Job
<1> QED
  BY <1>1, <1>2, TxAssumption

LEMMA NextTx == TxInv /\ [TxNext]_txVars => TxInv'
<1> SUFFICES ASSUME TxInv, [TxNext]_txVars
             PROVE  TxInv'
  OBVIOUS
<1>0. /\ TxTypeOK /\ lines \in Nat /\ pc \in [Threads -> {"idle", "sending"}]
      /\ job \in [Threads -> Job] /\ result \in [Threads -> -2 .. MaxLine]
      /\ \A t \in Threads : job[t] \in Job
  BY TxAssumption DEF TxInv, TxTypeOK
<1>1. CASE Connect
  BY <1>1, ConnectTx
<1>2. CASE Disconnect \/ (\E on \in BOOLEAN : WriteCccd(on)) \/ (\E m \in Mtus : MtuExchange(m))
  <2>1. TxTypeOK'
    BY <1>0, <1>2, TxAssumption DEF TxTypeOK, Disconnect, WriteCccd, MtuExchange
  <2>2. UNCHANGED <<pc, job, stream, connection, lines>>
    BY <1>2 DEF Disconnect, WriteCccd, MtuExchange
  <2> QED
    BY <1>0, <2>1, <2>2, StreamStaysTx DEF Sending
<1>3. ASSUME NEW t \in Threads, SendBlocked(t)
      PROVE  TxInv'
  <2>1. TxTypeOK'
    BY <1>0, <1>3, ResultTypes DEF TxTypeOK, SendBlocked, linkVars
  <2>2. UNCHANGED <<pc, job, stream, connection, lines>>
    BY <1>3 DEF SendBlocked
  <2> QED
    BY <1>0, <2>1, <2>2, StreamStaysTx DEF Sending
<1>4. ASSUME NEW t \in Threads, NEW len \in 1 .. MaxLine, SendBegins(t, len)
      PROVE  TxInv'
  BY <1>4, SendBeginsTx
<1>5. ASSUME NEW t \in Threads, Accepts(t)
      PROVE  TxInv'
  BY <1>5, AcceptsTx
<1>6. ASSUME NEW t \in Threads, NEW r \in 0 .. Retries,
             job' = [job EXCEPT ![t].retries = r]
      PROVE  \A u \in Threads :
               /\ job'[u] \in Job
               /\ job'[u].line = job[u].line /\ job'[u].len = job[u].len
               /\ job'[u].sent = job[u].sent
               /\ job'[u].payload = job[u].payload /\ job'[u].on = job[u].on
  <2>1. job' = [job EXCEPT ![t] = [job[t] EXCEPT !.retries = r]]
    BY <1>0, <1>6
  <2>2. [job[t] EXCEPT !.retries = r] \in Job
    BY <1>0, <1>6 DEF Job
  <2>3. job'[t] = [job[t] EXCEPT !.retries = r] /\ \A u \in Threads \ {t} : job'[u] = job[u]
    BY <1>0, <2>1
  <2> QED
    BY <1>0, <2>2, <2>3 DEF Job
<1>7. ASSUME NEW t \in Threads, Refuses(t)
      PROVE  TxInv'
  <2>1. job[t].retries - 1 \in 0 .. Retries
    BY <1>0, <1>7, ResultTypes, TxAssumption DEF Refuses
  <2>2. \A u \in Threads :
          /\ job'[u] \in Job
          /\ job'[u].line = job[u].line /\ job'[u].len = job[u].len
          /\ job'[u].sent = job[u].sent
          /\ job'[u].payload = job[u].payload /\ job'[u].on = job[u].on
    BY <1>6, <1>7, <2>1 DEF Refuses
  <2>3. job' \in [Threads -> Job]
    BY <1>0, <1>7, <2>2 DEF Refuses
  <2>4. TxTypeOK'
    BY <1>0, <1>7, <2>3 DEF TxTypeOK, Refuses, linkVars
  <2>5. UNCHANGED <<pc, stream, connection, lines>>
    BY <1>7 DEF Refuses
  <2> QED
    BY <1>0, <2>2, <2>4, <2>5, StreamStaysTx DEF Sending
<1>8. ASSUME NEW t \in Threads, GivesUp(t)
      PROVE  TxInv'
  <2>1. 0 \in 0 .. Retries
    BY TxAssumption
  <2>2. \A u \in Threads :
          /\ job'[u] \in Job
          /\ job'[u].line = job[u].line /\ job'[u].len = job[u].len
          /\ job'[u].sent = job[u].sent
          /\ job'[u].payload = job[u].payload /\ job'[u].on = job[u].on
    BY <1>6, <1>8, <2>1 DEF GivesUp
  <2>3. job' \in [Threads -> Job]
    BY <1>0, <1>8, <2>2 DEF GivesUp
  <2>4. result' \in [Threads -> -2 .. MaxLine]
    BY <1>0, <1>8, ResultTypes DEF GivesUp
  <2>5. /\ pc' \in [Threads -> {"idle", "sending"}]
        /\ \A u \in Threads : Sending(u)' => Sending(u)
    BY <1>0, <1>8 DEF GivesUp, Sending
  <2>6. TxTypeOK'
    BY <1>0, <1>8, <2>3, <2>4, <2>5 DEF TxTypeOK, GivesUp, linkVars
  <2>7. UNCHANGED <<stream, connection, lines>>
    BY <1>8 DEF GivesUp
  <2> QED
    BY <1>0, <2>2, <2>5, <2>6, <2>7, StreamStaysTx
<1>9. ASSUME NEW t \in Threads, SendReturns(t)
      PROVE  TxInv'
  <2>1. result' \in [Threads -> -2 .. MaxLine]
    BY <1>0, <1>9, ResultTypes DEF SendReturns
  <2>2. /\ pc' \in [Threads -> {"idle", "sending"}]
        /\ \A u \in Threads : Sending(u)' => Sending(u)
    BY <1>0, <1>9 DEF SendReturns, Sending
  <2>3. TxTypeOK'
    BY <1>0, <1>9, <2>1, <2>2 DEF TxTypeOK, SendReturns, linkVars
  <2>4. UNCHANGED <<job, stream, connection, lines>>
    BY <1>9 DEF SendReturns
  <2> QED
    BY <1>0, <2>2, <2>3, <2>4, StreamStaysTx
<1>10. CASE UNCHANGED txVars
  <2>1. TxTypeOK'
    BY <1>0, <1>10 DEF txVars, linkVars, TxTypeOK
  <2> QED
    BY <1>0, <1>10, <2>1, StreamStaysTx DEF txVars, Sending
<1> QED
  BY <1>1, <1>2, <1>3, <1>4, <1>5, <1>7, <1>8, <1>9, <1>10 DEF TxNext, LinkStep, SendStep

\* Every job of buddy_ble_nus_send, what is on the air and what was reported agree
\* in every behaviour of the transmit path.
THEOREM TxInvariant == TxSpec => []TxInv
  BY InitTx, NextTx, PTL DEF TxSpec

\* BytesInOrder: however the threads' notifications and the stack's refusals fall
\* (buddy_ble_nus_send), a connection sees the bytes of each line in order.
THEOREM BytesInOrderHolds == TxSpec => []BytesInOrder
<1>1. TxInv => BytesInOrder
  BY DEF TxInv
<1> QED
  BY <1>1, TxInvariant, PTL

\* SentMeansAccepted: the length is returned only after the last byte, and a cut is
\* reported as a shorter one or as an error.
THEOREM SentMeansAcceptedHolds == TxSpec => SentMeansAccepted
<1>1. ASSUME TxInv, [TxNext]_txVars, NEW t \in Threads,
             Sending(t), pc'[t] = "idle", result'[t] = job[t].len
      PROVE  Received(job[t].line, job[t].len) \/ job[t].on # connection
  <2>1. /\ pc \in [Threads -> {"idle", "sending"}] /\ result \in [Threads -> -2 .. MaxLine]
        /\ job[t].sent \in Nat /\ job[t].len \in Nat /\ pc[t] = "sending"
    BY <1>1, ResultTypes, TxAssumption DEF TxInv, TxTypeOK, Sending
  <2>2. \E u \in Threads : GivesUp(u) \/ SendReturns(u)
    BY <1>1, <2>1 DEF TxNext, LinkStep, SendStep, Connect, Disconnect, WriteCccd, MtuExchange,
                      SendBlocked, SendBegins, Accepts, Refuses, txVars
  <2>3. PICK u \in Threads : GivesUp(u) \/ SendReturns(u)
    BY <2>2
  <2>4. u = t
    BY <1>1, <2>1, <2>3 DEF GivesUp, SendReturns
  <2>5. ~GivesUp(t)
    BY <1>1, <2>1 DEF GivesUp
  <2>6. job[t].sent = job[t].len
    BY <2>3, <2>4, <2>5 DEF SendReturns
  <2> QED
    BY <1>1, <2>6 DEF TxInv, SentIsThere
<1>2. TxInv /\ [TxNext]_txVars =>
        [\A t \in Threads :
           Sending(t) /\ pc'[t] = "idle" /\ result'[t] = job[t].len
             => Received(job[t].line, job[t].len) \/ job[t].on # connection]_txVars
  BY <1>1
<1> QED
  BY <1>2, TxInvariant, PTL DEF TxSpec, SentMeansAccepted

-----------------------------------------------------------------------------
(* Whole lines.                                                             *)

\* A thread in the middle of a line of the connection of now.
Midway(t) == Sending(t) /\ job[t].sent \in 1 .. job[t].len - 1 /\ job[t].on = connection

EndsLine(s, n) == n = 0 \/ IsNewline(s[n])

\* The stream ends in what t has sent of its line, and that begins a line.
TailIsOf(t) ==
  LET n == Len(stream) - job[t].sent
  IN  /\ n >= 0 /\ EndsLine(stream, n)
      /\ \A a \in 1 .. job[t].sent :
           stream[n + a] = [line |-> job[t].line, at |-> a, of |-> job[t].len]

\* The inductive invariant.  That lines are whole does not say whose line the
\* stream ends in: the thread to go on with it must be the one that began it.
LineInv ==
  disturbed = {} =>
    /\ LinesAreWholeIn(stream)
    /\ EndsLine(stream, Len(stream)) \/ \E t \in Threads : Midway(t)
    /\ \A t \in Threads : Midway(t) => TailIsOf(t)

\* A whole line, byte by byte.
WholeFrom(s, i, j) ==
  \A a \in 1 .. j - i + 1 :
    s[i + a - 1] = [line |-> s[i].line, at |-> a, of |-> j - i + 1]

LEMMA WholeLineBytes ==
  ASSUME NEW s \in Seq(Byte), NEW j \in 1 .. Len(s), NEW i \in 1 .. j
  PROVE  WholeLine(SubSeq(s, i, j)) <=> WholeFrom(s, i, j)
<1>1. Len(s) \in Nat /\ i \in Int /\ j \in Int /\ i <= j
  BY LenProperties
<1>2. \A k \in i .. j : s[k] \in Byte
  BY <1>1, ElementOfSeq
<1>3. /\ SubSeq(s, i, j) \in Seq(Byte) /\ Len(SubSeq(s, i, j)) = j - i + 1
      /\ \A a \in 1 .. j - i + 1 : SubSeq(s, i, j)[a] = s[i + a - 1]
  BY <1>1, <1>2, SubSeqProperties
<1>4. DOMAIN SubSeq(s, i, j) = 1 .. j - i + 1
  BY <1>3, LenProperties
<1>5. SubSeq(s, i, j)[1] = s[i]
  <2>1. 1 \in 1 .. j - i + 1 /\ i + 1 - 1 = i
    BY <1>1
  <2> QED
    BY <1>3, <2>1
<1> QED
  BY <1>3, <1>4, <1>5 DEF WholeLine, WholeFrom

LEMMA LinesByBytes ==
  ASSUME NEW s \in Seq(Byte)
  PROVE  LinesAreWholeIn(s) <=>
           \A j \in 1 .. Len(s) : IsNewline(s[j]) =>
             \E i \in 1 .. j : WholeFrom(s, i, j) /\ (i > 1 => IsNewline(s[i - 1]))
  BY WholeLineBytes, LenProperties DEF LinesAreWholeIn

LEMMA AcceptsLine ==
  ASSUME TxInv, LineInv, NEW t \in Threads, Accepts(t)
  PROVE  LineInv'
<1> DEFINE n == Chunk(t)
           p == Piece(t, n)
           L == Len(stream)
           len == job[t].len
           sent == job[t].sent
           begin == L - sent
<1> SUFFICES ASSUME disturbed' = {}
             PROVE  /\ LinesAreWholeIn(stream')
                    /\ EndsLine(stream', Len(stream')) \/ \E u \in Threads : Midway(u)'
                    /\ \A u \in Threads : Midway(u)' => TailIsOf(u)'
  BY DEF LineInv
<1>1. disturbed = {} /\ job[t].on = connection /\ ~Overlapping(t)
  BY DEF Accepts, NoteChunk
<1>2. /\ job[t] \in Job /\ n \in 1 .. len - sent
      /\ stream' = stream \o p /\ p \in Seq(Byte) /\ Len(p) = n
      /\ \A i \in 1 .. n :
           p[i] = [line |-> job[t].line, at |-> sent + i, of |-> len]
      /\ job'[t] = [job[t] EXCEPT !.sent = sent + n, !.retries = Retries]
      /\ \A u \in Threads \ {t} : job'[u] = job[u]
      /\ TxTypeOK'
  BY AcceptsPiece
<1>3. /\ Sending(t) /\ \A u \in Threads : Sending(u)' = Sending(u)
      /\ UNCHANGED connection
  BY DEF Accepts, Sending
<1>4. /\ job'[t].sent = sent + n /\ job'[t].len = len /\ job'[t].line = job[t].line
      /\ job'[t].on = job[t].on
  BY <1>2 DEF Job
<1>5. sent \in Nat /\ len \in Nat /\ sent < len
  BY <1>2, TxAssumption DEF Job, Accepts
<1>6. n \in Nat /\ n > 0 /\ sent + n <= len
  BY <1>2, <1>5
<1>7. /\ L \in Nat /\ DOMAIN stream = 1 .. L
      /\ stream \in Seq(Byte) /\ stream' \in Seq(Byte)
      /\ DOMAIN stream' = 1 .. L + n /\ Len(stream') = L + n
      /\ \A i \in 1 .. L : stream'[i] = stream[i]
      /\ \A i \in 1 .. n : stream'[L + i] = [line |-> job[t].line, at |-> sent + i, of |-> len]
  <2>1. stream \in Seq(Byte)
    BY DEF TxInv, TxTypeOK
  <2>2. \A i \in 1 .. n : stream'[L + i] = p[i]
    BY <1>2, <2>1, Grown
  <2> QED
    BY <1>2, <2>1, <2>2, Grown
<1>8. \A u \in Threads \ {t} : ~Midway(u) /\ ~Midway(u)'
  BY <1>1, <1>2, <1>3 DEF Overlapping, Midway
<1> HIDE DEF n, p, L
\* The thread goes on where the stream ends.
<1>9. TailIsOf(t)
  <2>1. CASE sent = 0
    <3>1. ~Midway(t)
      BY <2>1 DEF Midway
    <3>2. EndsLine(stream, L)
      BY <1>1, <1>8, <3>1 DEF LineInv, L
    <3>3. L - 0 = L /\ L >= 0 /\ 1 .. 0 = {}
      BY <1>7
    <3> QED
      BY <2>1, <3>2, <3>3 DEF TailIsOf, L
  <2>2. CASE sent # 0
    <3>1. Midway(t)
      BY <1>1, <1>3, <1>5, <2>2 DEF Midway
    <3> QED
      BY <1>1, <3>1 DEF LineInv
  <2> QED
    BY <2>1, <2>2
<1>10. /\ begin \in Nat /\ begin <= L /\ EndsLine(stream, begin)
       /\ \A a \in 1 .. sent :
            stream[begin + a] = [line |-> job[t].line, at |-> a, of |-> len]
  BY <1>5, <1>7, <1>9 DEF TailIsOf, L
<1>11. EndsLine(stream', begin)
  BY <1>7, <1>10 DEF EndsLine, IsNewline
<1>geo. begin + sent = L
  BY <1>5, <1>7 DEF begin
<1> HIDE DEF begin, len, sent
<1>12. \A a \in 1 .. sent + n :
         stream'[begin + a] = [line |-> job[t].line, at |-> a, of |-> len]
  <2> SUFFICES ASSUME NEW a \in 1 .. sent + n
               PROVE  stream'[begin + a] = [line |-> job[t].line, at |-> a, of |-> len]
    OBVIOUS
  <2>1. CASE a <= sent
    <3>1. a \in 1 .. sent /\ begin + a \in 1 .. L
      BY <1>5, <1>6, <1>10, <1>geo, <2>1
    <3> QED
      BY <1>7, <1>10, <3>1
  <2>2. CASE a > sent
    <3>1. a - sent \in 1 .. n /\ begin + a = L + (a - sent) /\ sent + (a - sent) = a
      BY <1>5, <1>6, <1>10, <1>geo, <2>2
    <3>2. \A i \in 1 .. n : begin + a = L + i /\ sent + i = a =>
            stream'[begin + a] = [line |-> job[t].line, at |-> a, of |-> len]
      <4> TAKE i \in 1 .. n
      <4>1. stream'[L + i] = [line |-> job[t].line, at |-> sent + i, of |-> len]
        BY <1>7
      <4> QED
        BY <4>1, Zenon
    <3> QED
      BY <3>1, <3>2
  <2> QED
    BY <1>5, <1>6, <2>1, <2>2
<1>13. L + n = begin + (sent + n)
  BY <1>5, <1>6, <1>10, <1>geo
<1>14. LinesAreWholeIn(stream')
  <2>0. ASSUME \A j \in 1 .. L + n : IsNewline(stream'[j]) =>
                 \E i \in 1 .. j : WholeFrom(stream', i, j) /\ (i > 1 => IsNewline(stream'[i - 1]))
        PROVE  LinesAreWholeIn(stream')
    <3>1. LinesAreWholeIn(stream') <=>
            \A j \in 1 .. Len(stream') : IsNewline(stream'[j]) =>
              \E i \in 1 .. j : WholeFrom(stream', i, j) /\ (i > 1 => IsNewline(stream'[i - 1]))
      <4>1. stream' \in Seq(Byte)
        BY <1>7
      <4>2. \A s \in Seq(Byte) :
              LinesAreWholeIn(s) <=>
                \A j \in 1 .. Len(s) : IsNewline(s[j]) =>
                  \E i \in 1 .. j : WholeFrom(s, i, j) /\ (i > 1 => IsNewline(s[i - 1]))
        BY LinesByBytes
      <4> QED
        BY <4>1, <4>2
    <3>2. Len(stream') = L + n
      BY <1>7
    <3> QED
      BY <2>0, <3>1, <3>2
  <2> SUFFICES ASSUME NEW j \in 1 .. L + n, IsNewline(stream'[j])
               PROVE  \E i \in 1 .. j : WholeFrom(stream', i, j) /\ (i > 1 => IsNewline(stream'[i - 1]))
    BY <2>0
  <2>1. CASE j \in 1 .. L
    <3>1. IsNewline(stream[j])
      BY <1>7, <2>1
    <3>2. PICK i \in 1 .. j : WholeFrom(stream, i, j) /\ (i > 1 => IsNewline(stream[i - 1]))
      BY <1>1, <1>7, <2>1, <3>1, LinesByBytes DEF LineInv, L
    <3>3. \A a \in 1 .. j - i + 1 : i + a - 1 \in 1 .. L
      BY <1>7, <2>1
    <3>4. i \in 1 .. L /\ (i > 1 => i - 1 \in 1 .. L)
      BY <1>7, <2>1
    <3>5. WholeFrom(stream', i, j)
      BY <1>7, <3>2, <3>3, <3>4 DEF WholeFrom
    <3> QED
      BY <1>7, <3>2, <3>4, <3>5
  <2>2. CASE j \notin 1 .. L
    <3> DEFINE a == j - begin
    <3>1. j \in Nat /\ j > L /\ j <= L + n
      BY <1>6, <1>7, <2>2
    <3>2. a \in 1 .. sent + n /\ begin + a = j
      BY <1>5, <1>6, <1>7, <1>10, <1>13, <3>1
    <3>3. stream'[j] = [line |-> job[t].line, at |-> a, of |-> len]
      BY <1>12, <3>2
    <3>4. a = len
      BY <3>3 DEF IsNewline
    <3>5. sent + n = len /\ j = begin + len
      BY <1>5, <1>6, <3>2, <3>4
    <3> HIDE DEF a
    <3> DEFINE i == begin + 1
    <3>6. i \in 1 .. j /\ j - i + 1 = len /\ i - 1 = begin /\ 1 \in 1 .. len
      BY <1>5, <1>10, <3>5
    <3>7. \A b \in 1 .. len : i + b - 1 = begin + b
      BY <1>5, <1>10
    <3>8. stream'[i].line = job[t].line
      <4>1. 1 \in 1 .. sent + n
        BY <1>5, <1>6
      <4>2. stream'[begin + 1] = [line |-> job[t].line, at |-> 1, of |-> len]
        BY <1>12, <4>1
      <4> QED
        BY <4>2
    <3>9. WholeFrom(stream', i, j)
      BY <1>12, <3>5, <3>6, <3>7, <3>8 DEF WholeFrom
    <3>10. i > 1 => IsNewline(stream'[i - 1])
      BY <1>10, <1>11, <3>6 DEF EndsLine
    <3> HIDE DEF i
    <3> QED
      BY <3>6, <3>9, <3>10
  <2> QED
    BY <2>1, <2>2
<1>15. CASE sent + n = len
  <2>1. EndsLine(stream', L + n)
    <3>1. len \in 1 .. sent + n /\ L + n = begin + len
      BY <1>5, <1>6, <1>13, <1>15
    <3>2. stream'[L + n] = [line |-> job[t].line, at |-> len, of |-> len]
      BY <1>12, <3>1
    <3> QED
      BY <3>2 DEF EndsLine, IsNewline
  <2>2. ~Midway(t)'
    BY <1>4, <1>5, <1>15 DEF Midway
  <2> QED
    BY <1>7, <1>8, <1>14, <2>1, <2>2
<1>16. CASE sent + n # len
  <2>1. Midway(t)'
    <3>1. sent + n \in 1 .. len - 1
      BY <1>5, <1>6, <1>16
    <3> QED
      BY <1>1, <1>3, <1>4, <3>1 DEF Midway
  <2>2. TailIsOf(t)'
    <3>1. (L + n) - (sent + n) = begin
      BY <1>5, <1>6, <1>7 DEF begin
    <3>2. Len(stream') = L + n
      BY <1>7
    <3>3. job'[t].sent = sent + n
      BY <1>4
    <3>4. Len(stream') - job'[t].sent = begin
      BY <3>1, <3>2, <3>3
    <3>5. begin >= 0
      BY <1>10
    <3> QED
      BY <1>4, <1>11, <1>12, <3>3, <3>4, <3>5 DEF TailIsOf
  <2> QED
    BY <1>8, <1>14, <2>1, <2>2
<1> QED
  BY <1>15, <1>16

\* Without a byte sent, nobody gets into the middle of a line.
LEMMA StreamStaysLine ==
  ASSUME LineInv, UNCHANGED <<stream, connection>>, disturbed \subseteq disturbed',
         \A t \in Threads :
           \/ Midway(t)' <=> Midway(t)
           \/ Midway(t) /\ disturbed' # {},
         \A t \in Threads : Midway(t)' => job'[t].line = job[t].line /\ job'[t].len = job[t].len
                                          /\ job'[t].sent = job[t].sent
  PROVE  LineInv'
<1> SUFFICES ASSUME disturbed' = {}
             PROVE  /\ LinesAreWholeIn(stream')
                    /\ EndsLine(stream', Len(stream')) \/ \E u \in Threads : Midway(u)'
                    /\ \A u \in Threads : Midway(u)' => TailIsOf(u)'
  BY DEF LineInv
<1>1. disturbed = {} /\ \A t \in Threads : Midway(t)' <=> Midway(t)
  OBVIOUS
<1>2. LinesAreWholeIn(stream') /\ (EndsLine(stream', Len(stream')) \/ \E u \in Threads : Midway(u)')
  BY <1>1 DEF LineInv
<1>3. ASSUME NEW u \in Threads, Midway(u)'
      PROVE  TailIsOf(u)'
  BY <1>1, <1>3 DEF LineInv, TailIsOf
<1> QED
  BY <1>2, <1>3

LEMMA NextLine == TxInv /\ LineInv /\ [TxNext]_txVars => LineInv'
<1> SUFFICES ASSUME TxInv, LineInv, [TxNext]_txVars
             PROVE  LineInv'
  OBVIOUS
<1>0. /\ pc \in [Threads -> {"idle", "sending"}] /\ job \in [Threads -> Job]
      /\ \A t \in Threads : job[t] \in Job /\ job[t].sent \in Nat /\ job[t].len \in Nat
      /\ \A t \in Threads : job[t].on \in Nat
      /\ connection \in Nat
  <2>1. /\ pc \in [Threads -> {"idle", "sending"}] /\ job \in [Threads -> Job]
        /\ connection \in Nat
    BY TxAssumption DEF TxInv, TxTypeOK
  <2>2. \A j \in Job : j.sent \in Nat /\ j.len \in Nat /\ j.on \in Nat
    BY TxAssumption DEF Job
  <2> QED
    BY <2>1, <2>2
<1>1. CASE Connect
  <2>1. stream' = << >> /\ connection' = connection + 1
        /\ \A t \in Threads : Sending(t)' = Sending(t) /\ job'[t] = job[t]
    BY <1>1 DEF Connect, Sending
  <2>2. \A t \in Threads : ~Midway(t)'
    BY <1>0, <2>1 DEF Midway, TxInv, SendersOK
  <2>3. << >> \in Seq(Byte) /\ Len(<< >>) = 0 /\ DOMAIN << >> = {}
    OBVIOUS
  <2>4. LinesAreWholeIn(stream') /\ EndsLine(stream', Len(stream'))
    BY <2>1, <2>3 DEF LinesAreWholeIn, EndsLine
  <2> QED
    BY <2>2, <2>4 DEF LineInv
<1>2. CASE UNCHANGED <<pc, job, stream, connection, disturbed>>
  BY <1>2, StreamStaysLine DEF Midway, Sending
<1>3. ASSUME NEW t \in Threads, NEW len \in 1 .. MaxLine, SendBegins(t, len)
      PROVE  LineInv'
  <2>1. /\ job'[t].sent = 0 /\ ~Sending(t)
        /\ \A u \in Threads \ {t} : job'[u] = job[u] /\ (Sending(u)' <=> Sending(u))
    BY <1>0, <1>3 DEF SendBegins, Sending
  <2>2. ~Midway(t) /\ ~Midway(t)'
    BY <2>1 DEF Midway
  <2>3. UNCHANGED <<stream, connection, disturbed>>
    BY <1>3 DEF SendBegins
  <2>4. \A u \in Threads \ {t} : Midway(u)' <=> Midway(u)
    BY <2>1, <2>3 DEF Midway
  <2> QED
    BY <2>1, <2>2, <2>3, <2>4, StreamStaysLine
<1>4. ASSUME NEW t \in Threads, Accepts(t)
      PROVE  LineInv'
  BY <1>4, AcceptsLine
<1>5. ASSUME NEW t \in Threads, NEW r, job' = [job EXCEPT ![t].retries = r]
      PROVE  \A u \in Threads :
               /\ job'[u].line = job[u].line /\ job'[u].len = job[u].len
               /\ job'[u].sent = job[u].sent /\ job'[u].on = job[u].on
  <2>1. job' = [job EXCEPT ![t] = [job[t] EXCEPT !.retries = r]]
    BY <1>0, <1>5
  <2>2. job'[t] = [job[t] EXCEPT !.retries = r] /\ \A u \in Threads \ {t} : job'[u] = job[u]
    BY <1>0, <2>1
  <2> QED
    BY <1>0, <2>2 DEF Job
<1>6. ASSUME NEW t \in Threads, Refuses(t)
      PROVE  LineInv'
  <2>1. \A u \in Threads :
          /\ job'[u].line = job[u].line /\ job'[u].len = job[u].len
          /\ job'[u].sent = job[u].sent /\ job'[u].on = job[u].on
    BY <1>5, <1>6 DEF Refuses
  <2>2. UNCHANGED <<pc, stream, connection, disturbed>>
    BY <1>6 DEF Refuses
  <2>3. \A u \in Threads : Midway(u)' <=> Midway(u)
    BY <2>1, <2>2 DEF Midway, Sending
  <2> QED
    BY <2>1, <2>2, <2>3, StreamStaysLine
<1>7. ASSUME NEW t \in Threads, GivesUp(t)
      PROVE  LineInv'
  <2>1. \A u \in Threads :
          /\ job'[u].line = job[u].line /\ job'[u].len = job[u].len
          /\ job'[u].sent = job[u].sent /\ job'[u].on = job[u].on
    BY <1>5, <1>7 DEF GivesUp
  <2>2. UNCHANGED <<stream, connection>> /\ disturbed \subseteq disturbed'
        /\ ~Sending(t)' /\ \A u \in Threads \ {t} : Sending(u)' <=> Sending(u)
    BY <1>0, <1>7 DEF GivesUp, Sending
  <2>3. \A u \in Threads \ {t} : Midway(u)' <=> Midway(u)
    BY <2>1, <2>2 DEF Midway
  <2>4. ~Midway(t)'
    BY <2>2 DEF Midway
  <2>5. Midway(t) => disturbed' # {}
    <3>1. Midway(t) => job[t].sent > 0
      BY <1>0 DEF Midway
    <3> QED
      BY <1>7, <3>1 DEF Midway, GivesUp
  <2> QED
    BY <2>1, <2>2, <2>3, <2>4, <2>5, StreamStaysLine
<1>8. ASSUME NEW t \in Threads, SendReturns(t)
      PROVE  LineInv'
  <2>1. UNCHANGED <<job, stream, connection, disturbed>>
        /\ ~Sending(t)' /\ \A u \in Threads \ {t} : Sending(u)' <=> Sending(u)
    BY <1>0, <1>8 DEF SendReturns, Sending
  <2>2. ~Midway(t) /\ ~Midway(t)'
    BY <1>0, <1>8, <2>1 DEF Midway, SendReturns
  <2>3. \A u \in Threads \ {t} : Midway(u)' <=> Midway(u)
    BY <2>1 DEF Midway
  <2> QED
    BY <2>1, <2>2, <2>3, StreamStaysLine
<1> QED
  BY <1>1, <1>2, <1>3, <1>4, <1>6, <1>7, <1>8
     DEF TxNext, LinkStep, SendStep, Disconnect, WriteCccd, MtuExchange, SendBlocked, txVars

\* UndisturbedLinesAreWhole: a connection on which buddy_ble_nus_send was neither
\* overlapped, nor cut short, nor carried over from an earlier one reads whole lines.
THEOREM UndisturbedLinesAreWholeHolds == TxSpec => []UndisturbedLinesAreWhole
<1>1. TxInit => LineInv
  <2>1. << >> \in Seq(Byte) /\ Len(<< >>) = 0 /\ DOMAIN << >> = {}
    OBVIOUS
  <2> QED
    BY <2>1 DEF TxInit, LineInv, LinesAreWholeIn, EndsLine, Midway, Sending
<1>2. TxInv /\ LineInv /\ [TxNext]_txVars => LineInv'
  BY NextLine
<1>3. LineInv => UndisturbedLinesAreWhole
  BY DEF LineInv, UndisturbedLinesAreWhole
<1> QED
  BY <1>1, <1>2, <1>3, TxInvariant, PTL DEF TxSpec
-----------------------------------------------------------------------------
(* Headway.                                                                 *)

\* A thread that sends may offer its notification once more.
RetriesLeft == \A t \in Threads : Sending(t) => job[t].retries > 0

\* How many offers of buddy_ble_nus_send are left to a thread, at most: those of
\* its notification, and all of them and the return for each byte to come.
OffersLeft(t) ==
  IF Sending(t) THEN (job[t].len - job[t].sent) * (Retries + 1) + job[t].retries ELSE 0

\* A byte less to send outweighs the offers of the next notification.
LEMMA BytesOutweighRetries ==
  ASSUME NEW a \in Nat, NEW b \in Nat, NEW r \in Nat, NEW q \in Nat, b < a, r > 0
  PROVE  b * (q + 1) + q < a * (q + 1) + r
<1>1. PICK d \in Nat : a = b + 1 + d
  <2>1. a - b - 1 \in Nat /\ a = b + 1 + (a - b - 1)
    OBVIOUS
  <2> QED
    BY <2>1
<1>2. (b + 1 + d) * (q + 1) = b * (q + 1) + (q + 1) + d * (q + 1)
  OBVIOUS
<1>3. d * (q + 1) >= 0 /\ d * (q + 1) \in Nat /\ b * (q + 1) \in Nat
  OBVIOUS
<1>4. \A x, y \in Nat : x + q < x + (q + 1) + y + r
  OBVIOUS
<1> QED
  BY <1>1, <1>2, <1>3, <1>4

\* A step of a thread in the loop of buddy_ble_nus_send ends its send, or moves it on,
\* or uses up an offer.
LEMMA SendStepMoves ==
  ASSUME TxInv, RetriesLeft, NEW t \in Threads, SendStep(t)
  PROVE  /\ Sending(t)
         /\ \/ ~Sending(t)'
            \/ /\ Sending(t)' /\ job'[t].len = job[t].len
               /\ job'[t].sent \in job[t].sent + 1 .. job[t].len
               /\ job'[t].retries = Retries
            \/ /\ Sending(t)' /\ job'[t].len = job[t].len
               /\ job'[t].sent = job[t].sent
               /\ job[t].retries > 1 /\ job'[t].retries = job[t].retries - 1
<1>1. /\ pc \in [Threads -> {"idle", "sending"}] /\ job \in [Threads -> Job]
      /\ job[t] \in Job
  BY DEF TxInv, TxTypeOK
<1>2. /\ job[t].sent \in Nat /\ job[t].len \in Nat /\ job[t].retries \in Nat
      /\ job[t].payload \in Nat /\ Retries \in Nat
  BY <1>1, TxAssumption DEF Job
<1>3. CASE Accepts(t)
  <2>1. Sending(t) /\ job[t].sent < job[t].len /\ job[t].payload > 0
    BY <1>3 DEF Accepts, TxInv, SendersOK
  <2>2. Chunk(t) \in Nat /\ job[t].sent + Chunk(t) \in job[t].sent + 1 .. job[t].len
    BY <1>2, <2>1 DEF Chunk, Least
  <2>3. job' = [job EXCEPT ![t] = [[job[t] EXCEPT !.sent = job[t].sent + Chunk(t)]
                                              EXCEPT !.retries = Retries]]
    BY <1>1, <1>3 DEF Accepts
  <2>4. job'[t] = [[job[t] EXCEPT !.sent = job[t].sent + Chunk(t)] EXCEPT !.retries = Retries]
    BY <1>1, <2>3
  <2>5. /\ job'[t].len = job[t].len /\ job'[t].retries = Retries
        /\ job'[t].sent = job[t].sent + Chunk(t)
    BY <1>1, <2>4 DEF Job
  <2>6. Sending(t)'
    BY <1>3, <2>1 DEF Accepts, Sending
  <2> QED
    BY <2>1, <2>2, <2>5, <2>6
<1>4. CASE Refuses(t)
  <2>1. job' = [job EXCEPT ![t] = [job[t] EXCEPT !.retries = job[t].retries - 1]]
    BY <1>1, <1>4 DEF Refuses
  <2>2. job'[t] = [job[t] EXCEPT !.retries = job[t].retries - 1]
    BY <1>1, <2>1
  <2>3. /\ job'[t].len = job[t].len /\ job'[t].sent = job[t].sent
        /\ job'[t].retries = job[t].retries - 1
    BY <1>1, <2>2 DEF Job
  <2> QED
    BY <1>4, <2>3 DEF Refuses, Sending
<1>5. CASE GivesUp(t) \/ SendReturns(t)
  BY <1>1, <1>5 DEF GivesUp, SendReturns, Sending
<1> QED
  BY <1>3, <1>4, <1>5 DEF SendStep

\* No other step touches the locals of a send.
LEMMA OthersLeaveTheJob ==
  ASSUME TxInv, [TxNext]_txVars, NEW t \in Threads
  PROVE  \/ SendStep(t)
         \/ (Sending(t)' <=> Sending(t)) /\ job'[t] = job[t]
         \/ ~Sending(t) /\ Sending(t)' /\ job'[t].retries = Retries
<1>1. pc \in [Threads -> {"idle", "sending"}] /\ job \in [Threads -> Job]
  BY DEF TxInv, TxTypeOK
<1>2. ASSUME NEW u \in Threads, u # t, SendStep(u)
      PROVE  (Sending(t)' <=> Sending(t)) /\ job'[t] = job[t]
  <2>1. CASE Accepts(u)
    <3>1. pc' = pc /\ job'[t] = job[t]
      BY <1>1, <1>2, <2>1 DEF Accepts
    <3> QED
      BY <3>1 DEF Sending
  <2>2. CASE Refuses(u)
    <3>1. pc' = pc /\ job'[t] = job[t]
      BY <1>1, <1>2, <2>2 DEF Refuses
    <3> QED
      BY <3>1 DEF Sending
  <2>3. CASE GivesUp(u)
    <3>1. pc'[t] = pc[t] /\ job'[t] = job[t]
      BY <1>1, <1>2, <2>3 DEF GivesUp
    <3> QED
      BY <3>1 DEF Sending
  <2>4. CASE SendReturns(u)
    <3>1. pc'[t] = pc[t] /\ job'[t] = job[t]
      BY <1>1, <1>2, <2>4 DEF SendReturns
    <3> QED
      BY <3>1 DEF Sending
  <2> QED
    BY <1>2, <2>1, <2>2, <2>3, <2>4 DEF SendStep
<1>3. ASSUME NEW u \in Threads, NEW len \in 1 .. MaxLine, SendBegins(u, len)
      PROVE  \/ (Sending(t)' <=> Sending(t)) /\ job'[t] = job[t]
             \/ ~Sending(t) /\ Sending(t)' /\ job'[t].retries = Retries
  <2>1. CASE u = t
    <3>1. ~Sending(t) /\ Sending(t)'
      BY <1>1, <1>3, <2>1 DEF SendBegins, Sending
    <3>2. job'[t].retries = Retries
      BY <1>1, <1>3, <2>1 DEF SendBegins
    <3> QED
      BY <3>1, <3>2
  <2>2. CASE u # t
    <3>1. pc'[t] = pc[t] /\ job'[t] = job[t]
      BY <1>1, <1>3, <2>2 DEF SendBegins
    <3> QED
      BY <3>1 DEF Sending
  <2> QED
    BY <2>1, <2>2
<1>4. ASSUME LinkStep \/ (\E u \in Threads : SendBlocked(u)) \/ UNCHANGED txVars
      PROVE  (Sending(t)' <=> Sending(t)) /\ job'[t] = job[t]
  <2>1. UNCHANGED <<pc, job>>
    BY <1>4 DEF LinkStep, Connect, Disconnect, WriteCccd, MtuExchange, SendBlocked, txVars
  <2> QED
    BY <2>1 DEF Sending
<1> QED
  BY <1>2, <1>3, <1>4 DEF TxNext

\* The numbers of a job.
LEMMA JobNumbers ==
  ASSUME TxInv, NEW t \in Threads
  PROVE  /\ job[t].sent \in Nat /\ job[t].len \in Nat /\ job[t].retries \in Nat
         /\ Retries \in Nat
<1>1. job[t] \in Job
  BY DEF TxInv, TxTypeOK
<1> QED
  BY <1>1, TxAssumption DEF Job

\* A send has an offer left as long as it lasts.
LEMMA NextRetries == TxInv /\ RetriesLeft /\ [TxNext]_txVars => RetriesLeft'
<1> SUFFICES ASSUME TxInv, RetriesLeft, [TxNext]_txVars, NEW t \in Threads, Sending(t)'
             PROVE  job'[t].retries > 0
  BY DEF RetriesLeft
<1>1. job[t].retries \in Nat /\ Retries \in Nat /\ Retries > 0
  BY JobNumbers, TxAssumption
<1>2. CASE SendStep(t)
  BY <1>1, <1>2, SendStepMoves
<1>3. CASE ~SendStep(t)
  BY <1>1, <1>3, OthersLeaveTheJob DEF RetriesLeft
<1> QED
  BY <1>2, <1>3

\* OffersLeft is a number, and is zero only outside a send.
LEMMA OffersAreNumbers ==
  ASSUME TxInv, RetriesLeft, NEW t \in Threads
  PROVE  OffersLeft(t) \in Nat /\ (Sending(t) <=> OffersLeft(t) > 0)
<1>1. /\ job[t].sent \in Nat /\ job[t].len \in Nat /\ job[t].retries \in Nat
      /\ Retries \in Nat
  BY JobNumbers
<1>2. CASE Sending(t)
  <2>1. job[t].sent <= job[t].len /\ job[t].retries > 0
    BY <1>2 DEF TxInv, SendersOK, RetriesLeft
  <2>2. job[t].len - job[t].sent \in Nat
    BY <1>1, <2>1
  <2>3. (job[t].len - job[t].sent) * (Retries + 1) \in Nat
    BY <1>1, <2>2
  <2> QED
    BY <1>1, <1>2, <2>1, <2>3 DEF OffersLeft
<1>3. CASE ~Sending(t)
  BY <1>3 DEF OffersLeft
<1> QED
  BY <1>2, <1>3

\* Every step of a thread that sends counts.
LEMMA SendStepCounts ==
  ASSUME TxInv, RetriesLeft, NEW t \in Threads, SendStep(t)
  PROVE  OffersLeft(t)' < OffersLeft(t)
<1>1. /\ job[t].sent \in Nat /\ job[t].len \in Nat /\ job[t].retries \in Nat
      /\ Retries \in Nat
  BY JobNumbers
<1>2. Sending(t) /\ job[t].sent <= job[t].len /\ job[t].retries > 0
  BY SendStepMoves DEF TxInv, SendersOK, RetriesLeft
<1>3. CASE ~Sending(t)'
  <2>1. OffersLeft(t)' = 0
    BY <1>3 DEF OffersLeft
  <2> QED
    BY <1>2, <2>1, OffersAreNumbers
<1>4. CASE /\ Sending(t)' /\ job'[t].len = job[t].len
           /\ job'[t].sent \in job[t].sent + 1 .. job[t].len
           /\ job'[t].retries = Retries
  <2> DEFINE a == job[t].len - job[t].sent
             b == job[t].len - job'[t].sent
  <2>1. a \in Nat /\ b \in Nat /\ b < a
    BY <1>1, <1>2, <1>4
  <2>2. OffersLeft(t) = a * (Retries + 1) + job[t].retries
    BY <1>2 DEF OffersLeft
  <2>3. OffersLeft(t)' = b * (Retries + 1) + Retries
    BY <1>4 DEF OffersLeft
  <2> HIDE DEF a, b
  <2> QED
    BY <1>1, <1>2, <2>1, <2>2, <2>3, BytesOutweighRetries
<1>5. CASE /\ Sending(t)' /\ job'[t].len = job[t].len
           /\ job'[t].sent = job[t].sent
           /\ job[t].retries > 1 /\ job'[t].retries = job[t].retries - 1
  <2> DEFINE x == (job[t].len - job[t].sent) * (Retries + 1)
  <2>1. x \in Nat
    <3>1. job[t].len - job[t].sent \in Nat
      BY <1>1, <1>2
    <3> QED
      BY <1>1, <3>1
  <2>2. OffersLeft(t) = x + job[t].retries
    BY <1>2 DEF OffersLeft
  <2>3. OffersLeft(t)' = x + (job[t].retries - 1)
    BY <1>5 DEF OffersLeft
  <2> HIDE DEF x
  <2> QED
    BY <1>1, <2>1, <2>2, <2>3
<1> QED
  BY <1>3, <1>4, <1>5, SendStepMoves

CountsOffers(t) == OffersLeft(t) \in Nat

\* Nor does it stop being a number.
LEMMA OffersStayNumbers ==
  ASSUME NEW t \in Threads
  PROVE  TxInv /\ RetriesLeft /\ [TxNext]_txVars
           => OffersLeft(t) \in Nat /\ OffersLeft(t)' \in Nat
<1>1. TxInv /\ RetriesLeft => CountsOffers(t)
  BY OffersAreNumbers DEF CountsOffers
<1>2. TxInv /\ RetriesLeft /\ [TxNext]_txVars => CountsOffers(t) /\ CountsOffers(t)'
  BY <1>1, NextTx, NextRetries, PTL
<1> QED
  BY <1>2 DEF CountsOffers

\* And no step of another thread or of the link takes it back.
LEMMA OffersOnlyFall ==
  ASSUME TxInv, RetriesLeft, [TxNext]_txVars, NEW t \in Threads, Sending(t)
  PROVE  OffersLeft(t)' <= OffersLeft(t)
<1>1. OffersLeft(t) \in Nat
  BY OffersAreNumbers
<1>2. OffersLeft(t)' \in Nat
  BY OffersStayNumbers
<1>3. CASE SendStep(t)
  BY <1>1, <1>2, <1>3, SendStepCounts
<1>4. CASE ~SendStep(t)
  <2>1. Sending(t)' /\ job'[t] = job[t]
    BY <1>4, OthersLeaveTheJob
  <2>2. OffersLeft(t)' = OffersLeft(t)
    BY <2>1 DEF OffersLeft
  <2> QED
    BY <1>1, <2>2
<1> QED
  BY <1>3, <1>4

\* The locals of every send have an offer left in every behaviour.
LEMMA RetriesLeftHolds == TxSpec => []RetriesLeft
<1>1. TxInit => RetriesLeft
  BY DEF TxInit, RetriesLeft, Sending
<1> QED
  BY <1>1, NextRetries, TxInvariant, PTL DEF TxSpec

\* The loop of buddy_ble_nus_send is bounded by MaxLine * (Retries + 1) + Retries steps:
\* OffersLeft, zero exactly when the thread is not sending, falls with each of its
\* steps, and no notification of another thread and no event of the link raises it.
THEOREM SendIsBounded ==
  TxSpec =>
    /\ [](\A t \in Threads : OffersLeft(t) \in Nat /\ (Sending(t) <=> OffersLeft(t) > 0))
    /\ [][\A t \in Threads :
           /\ Sending(t) => OffersLeft(t)' <= OffersLeft(t)
           /\ SendStep(t) => OffersLeft(t)' < OffersLeft(t)]_txVars
<1>1. TxInv /\ RetriesLeft =>
        \A t \in Threads : OffersLeft(t) \in Nat /\ (Sending(t) <=> OffersLeft(t) > 0)
  BY OffersAreNumbers
<1>2. TxInv /\ RetriesLeft /\ [TxNext]_txVars =>
        [\A t \in Threads :
           /\ Sending(t) => OffersLeft(t)' <= OffersLeft(t)
           /\ SendStep(t) => OffersLeft(t)' < OffersLeft(t)]_txVars
  BY OffersOnlyFall, SendStepCounts
<1> QED
  BY <1>1, <1>2, TxInvariant, RetriesLeftHolds, PTL DEF TxSpec

\* Within some number of offers of its return: also when it has returned.
OffersWithin(t, n) == OffersLeft(t) <= n

\* The step of the induction that EverySendReturns follows by: under the fairness of
\* its thread a send that is n + 1 offers from its return comes to be n offers from
\* it.  That the loop always has a step to take is a hypothesis, for ENABLED is
\* beyond the provers.
THEOREM SendComesCloser ==
  ASSUME NEW t \in Threads, NEW n \in Nat
  PROVE  TxSpec /\ WF_txVars(SendStep(t)) /\ [](Sending(t) => ENABLED <<SendStep(t)>>_txVars)
           => (OffersWithin(t, n + 1) ~> OffersWithin(t, n))
<1>1. TxInv /\ RetriesLeft /\ ~Sending(t) => OffersWithin(t, n)
  BY OffersAreNumbers DEF OffersWithin
<1>2. TxInv /\ RetriesLeft /\ [TxNext]_txVars /\ OffersWithin(t, n + 1) /\ Sending(t)
        => OffersWithin(t, n + 1)'
  <2> SUFFICES ASSUME TxInv, RetriesLeft, [TxNext]_txVars, OffersLeft(t) <= n + 1, Sending(t)
               PROVE  OffersLeft(t)' <= n + 1
    BY DEF OffersWithin
  <2>1. OffersLeft(t) \in Nat /\ OffersLeft(t)' \in Nat
    BY OffersStayNumbers
  <2> QED
    BY <2>1, OffersOnlyFall
<1>3. TxInv /\ RetriesLeft /\ [TxNext]_txVars /\ OffersWithin(t, n + 1)
         /\ <<SendStep(t)>>_txVars => OffersWithin(t, n)'
  <2> SUFFICES ASSUME TxInv, RetriesLeft, [TxNext]_txVars, OffersLeft(t) <= n + 1, SendStep(t)
               PROVE  OffersLeft(t)' <= n
    BY DEF OffersWithin
  <2>1. OffersLeft(t) \in Nat /\ OffersLeft(t)' \in Nat
    BY OffersStayNumbers
  <2> QED
    BY <2>1, SendStepCounts
<1> QED
  BY <1>1, <1>2, <1>3, TxInvariant, RetriesLeftHolds, PTL DEF TxSpec

=============================================================================
