------------------------- MODULE JsonLineAssembler -------------------------
(***************************************************************************)
(* The receive path of the firmware: GATT writes arrive in any sizes and    *)
(* JsonLineAssembler::feed turns their bytes into lines                     *)
(* (src/app/src/core/JsonLineAssembler.cpp).  The assembler belongs to the  *)
(* application, not to the connection: nothing resets it when a link drops. *)
(***************************************************************************)
EXTENDS Naturals, Sequences

CONSTANTS Chars,          \* the bytes other than CR and LF
          CR, LF,
          MaxLineLength,  \* kMaxLineLength
          MaxWrite,       \* the longest GATT write of the model
          MaxBytes        \* bound: bytes written in a behaviour

ASSUME AssemblerAssumption ==
  /\ CR \notin Chars /\ LF \notin Chars /\ CR # LF
  /\ MaxLineLength \in Nat \ {0}
  /\ MaxWrite \in Nat
  /\ MaxBytes \in Nat

VARIABLES line,             \* line_[0 .. len_ - 1]
          discarding,       \* discarding_
          totalLines,       \* total_lines_
          totalOverflowed,  \* total_overflowed_
          data,             \* the bytes of the write being fed that are left
          delivered,        \* history: the lines the callback was given
          rawLine,          \* history: the bytes fed since the last LF
          sessionLine,      \* history: those of them this connection sent
          synced,           \* history: this connection has sent an LF
          written           \* history: the number of bytes written

assemblerVars == <<line, discarding, totalLines, totalOverflowed>>
historyVars   == <<delivered, rawLine, sessionLine, synced>>
vars == <<assemblerVars, data, historyVars, written>>

Bytes == Chars \cup {CR, LF}

Writes == UNION {[1..n -> Bytes] : n \in 1..MaxWrite}

Init ==
  /\ line = << >>
  /\ discarding = FALSE
  /\ totalLines = 0
  /\ totalOverflowed = 0
  /\ data = << >>
  /\ delivered = << >>
  /\ rawLine = << >>
  /\ sessionLine = << >>
  /\ synced = TRUE
  /\ written = 0

-----------------------------------------------------------------------------
(* The steps of feed.  A definition marked FAULT is not part of the model: *)
(* it is a plausible bug of the definition that follows it, kept so that    *)
(* the properties can be seen to notice it.                                 *)

\* The line without one final CR, as finish_line passes it on.
\* FAULT: a line that is only a CR keeps it.
StripCROnlyAfterText(s) ==
  IF Len(s) > 1 /\ s[Len(s)] = CR THEN SubSeq(s, 1, Len(s) - 1) ELSE s

StripCR(s) ==
  IF s # << >> /\ s[Len(s)] = CR THEN SubSeq(s, 1, Len(s) - 1) ELSE s

\* FAULT: a reset that leaves the bytes in the buffer.
ResetKeepingLine ==
  /\ line' = line
  /\ discarding' = FALSE

Reset ==
  /\ line' = << >>
  /\ discarding' = FALSE

\* FAULT: the line is delivered but stays in the buffer.
FinishLineWithoutReset ==
  /\ delivered' = Append(delivered, StripCR(line))
  /\ totalLines' = totalLines + 1
  /\ UNCHANGED <<totalOverflowed, line, discarding>>

FinishLine ==
  /\ delivered' = Append(delivered, StripCR(line))
  /\ totalLines' = totalLines + 1
  /\ UNCHANGED totalOverflowed
  /\ Reset

MarkOverflow ==
  /\ line' = << >>
  /\ discarding' = TRUE
  /\ totalOverflowed' = totalOverflowed + 1
  /\ UNCHANGED <<totalLines, delivered>>

Full == Len(line) >= MaxLineLength

\* While discarding, only an LF has an effect.
SkipByte(b) ==
  /\ discarding
  /\ IF b = LF THEN Reset ELSE UNCHANGED <<line, discarding>>
  /\ UNCHANGED <<totalLines, totalOverflowed, delivered>>

EndLine(b) ==
  /\ ~discarding
  /\ b = LF
  /\ FinishLine

TooLong(b) ==
  /\ ~discarding
  /\ b # LF
  /\ Full
  /\ MarkOverflow

StoreByte(b) ==
  /\ ~discarding
  /\ b # LF
  /\ ~Full
  /\ line' = Append(line, b)
  /\ UNCHANGED <<discarding, totalLines, totalOverflowed, delivered>>

\* History: what has been on the wire, whatever the assembler made of it.
Hear(b) ==
  IF b = LF
  THEN rawLine' = << >> /\ sessionLine' = << >> /\ synced' = TRUE
  ELSE /\ rawLine' = Append(rawLine, b)
       /\ sessionLine' = Append(sessionLine, b)
       /\ UNCHANGED synced

-----------------------------------------------------------------------------
\* A GATT write: the BLE callback hands its bytes to feed.
Write ==
  /\ data = << >>
  /\ \E w \in Writes :
        /\ written + Len(w) <= MaxBytes
        /\ data' = w
        /\ written' = written + Len(w)
  /\ UNCHANGED <<assemblerVars, historyVars>>

\* One turn of the loop of feed.
FeedByte ==
  /\ data # << >>
  /\ LET b == Head(data)
     IN  /\ SkipByte(b) \/ EndLine(b) \/ TooLong(b) \/ StoreByte(b)
         /\ Hear(b)
  /\ data' = Tail(data)
  /\ UNCHANGED written

\* The link drops, possibly in the middle of a line, and the desktop connects
\* again and starts a new line.  The assembler is not told.
Reconnect ==
  /\ data = << >>
  /\ sessionLine' = << >>
  /\ synced' = FALSE
  /\ UNCHANGED <<assemblerVars, data, delivered, rawLine, written>>

Next == Write \/ FeedByte \/ Reconnect

Spec == Init /\ [][Next]_vars

-----------------------------------------------------------------------------
(* Properties                                                               *)

\* Every variable keeps its type; in particular len_ never passes the end of
\* line_, so the terminating NUL of finish_line stays inside the array.
TypeOK ==
  /\ line \in Seq(Bytes) /\ Len(line) <= MaxLineLength
  /\ discarding \in BOOLEAN
  /\ totalLines \in Nat /\ totalOverflowed \in Nat
  /\ data \in Seq(Bytes)
  /\ delivered \in Seq(Seq(Bytes))
  /\ rawLine \in Seq(Bytes)
  /\ sessionLine \in Seq(Bytes)
  /\ synced \in BOOLEAN
  /\ written \in Nat

\* The buffer holds the whole piece since the last LF, or nothing while a
\* piece that is too long is being skipped: no byte is lost or kept in error
\* however the writes cut the stream.
Assembling ==
  /\ discarding <=> Len(rawLine) > MaxLineLength
  /\ line = IF discarding THEN << >> ELSE rawLine

\* Detailed to abstract: the assembler implements newline framing.
Framing == INSTANCE LineFraming WITH dropped <- totalOverflowed

FramingSpec == Framing!Spec

\* A connection that has sent one LF is never again disturbed by what an
\* earlier connection left in the buffer: the line it gets delivered is its
\* own line, and it is not dropped for bytes that it never sent.
ResyncAfterLF ==
  [][synced /\ totalLines' # totalLines
       => delivered' = Append(delivered, StripCR(sessionLine))]_vars

DropsOnlyOwnOverlong ==
  [][synced /\ totalOverflowed' # totalOverflowed
       => Len(sessionLine) = MaxLineLength]_vars
=============================================================================
