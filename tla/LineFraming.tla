---------------------------- MODULE LineFraming ----------------------------
(***************************************************************************)
(* What the receive path promises: newline framing.  The byte stream is     *)
(* cut at every LF; a piece of at most MaxLineLength bytes is delivered     *)
(* without its final CR, and a longer piece is dropped and counted.         *)
(* JsonLineAssembler is the detailed specification that implements this.    *)
(***************************************************************************)
EXTENDS Naturals, Sequences

CONSTANTS Chars,          \* the bytes other than CR and LF
          CR, LF,         \* carriage return, line feed
          MaxLineLength   \* the longest piece that is delivered

VARIABLES rawLine,        \* the bytes heard since the last LF
          delivered,      \* the lines handed to the parser, oldest first
          dropped         \* the number of pieces that became too long

framingVars == <<rawLine, delivered, dropped>>

Bytes == Chars \cup {CR, LF}

\* The text of a piece: the piece without one final CR.
Payload(piece) ==
  IF piece # << >> /\ piece[Len(piece)] = CR
  THEN SubSeq(piece, 1, Len(piece) - 1)
  ELSE piece

Init ==
  /\ rawLine = << >>
  /\ delivered = << >>
  /\ dropped = 0

\* A piece ends: it is delivered exactly when it was never too long.
EndPiece ==
  /\ rawLine' = << >>
  /\ delivered' = IF Len(rawLine) <= MaxLineLength
                  THEN Append(delivered, Payload(rawLine))
                  ELSE delivered
  /\ UNCHANGED dropped

\* A piece grows: it is counted as dropped once, when it becomes too long.
GrowPiece(b) ==
  /\ rawLine' = Append(rawLine, b)
  /\ dropped' = IF Len(rawLine) = MaxLineLength THEN dropped + 1 ELSE dropped
  /\ UNCHANGED delivered

Next == EndPiece \/ \E b \in Chars \cup {CR} : GrowPiece(b)

Spec == Init /\ [][Next]_framingVars
=============================================================================
