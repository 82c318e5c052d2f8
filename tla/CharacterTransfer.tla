------------------------- MODULE CharacterTransfer -------------------------
(***************************************************************************)
(* The staged transfer of a character package                                *)
(* (src/app/src/core/BuddyProtocol.cpp): the commands char_begin, file,       *)
(* chunk, file_end and char_end, and the state BuddyProtocol keeps between    *)
(* them.  Storage is called through hooks; what a hook answers is a parameter *)
(* of the action that calls it (ok), and CharacterInstall gives the hooks     *)
(* their effect.  Every handler runs to its end on the BLE host thread.  The  *)
(* firmware always installs the hooks, so storage_ready() is true here.      *)
(***************************************************************************)
EXTENDS CharacterFiles, Naturals

CONSTANTS Word,           \* uint32_t holds 0 .. Word - 1
          MaxChunk        \* kMaxDecodedChunkLength

ASSUME TransferAssumption ==
  /\ Word \in Nat \ {0}
  /\ MaxChunk \in Nat /\ MaxChunk < Word

VARIABLES active, fileOpen, sawManifest,
          totalExpected, totalWritten, fileExpected, fileWritten,
          filePath,       \* the members of CharacterTransfer, as in the header
          ack,            \* the last acknowledgement: command, ok and n
          closedBytes     \* history: the sizes of the files closed so far

transferVars == <<active, fileOpen, sawManifest, totalExpected, totalWritten,
                  fileExpected, fileWritten, filePath>>
vars == <<transferVars, ack, closedBytes>>

UInt32 == 0 .. Word - 1

\* A number field of a command: a value, Word for one that is missing or that
\* no uint32_t holds, and, where the field is optional, Absent.
Field == 0 .. Word
Absent == Word + 1

\* Unsigned arithmetic wraps around.
Minus(x, y) == IF x >= y THEN x - y ELSE x + Word - y
Plus(x, y)  == IF x + y < Word THEN x + y ELSE x + y - Word

Ack(cmd, ok, n) == ack' = [cmd |-> cmd, ok |-> ok, n |-> n]

Init ==
  /\ active = FALSE /\ fileOpen = FALSE /\ sawManifest = FALSE
  /\ totalExpected = 0 /\ totalWritten = 0
  /\ fileExpected = 0 /\ fileWritten = 0
  /\ filePath = NoFile
  /\ ack = [cmd |-> "none", ok |-> TRUE, n |-> 0]
  /\ closedBytes = 0

-----------------------------------------------------------------------------
\* reset_character_transfer; abort_character_transfer also calls the storage.
ResetTransfer ==
  /\ active' = FALSE /\ fileOpen' = FALSE /\ sawManifest' = FALSE
  /\ totalExpected' = 0 /\ totalWritten' = 0
  /\ fileExpected' = 0 /\ fileWritten' = 0
  /\ filePath' = NoFile
  /\ closedBytes' = 0

\* A handler that answers no and changes nothing.
Refuse(cmd) ==
  /\ Ack(cmd, FALSE, 0)
  /\ UNCHANGED <<transferVars, closedBytes>>

\* A handler that gives the package up.
GiveUp(cmd, n) == Ack(cmd, FALSE, n) /\ ResetTransfer

\* char_begin.
BeginRefused(total) ==
  /\ active \/ total \notin UInt32 \ {0}
  /\ Refuse("char_begin")

BeginNoSpace(total) ==
  /\ ~active /\ total \in UInt32 \ {0}
  /\ Refuse("char_begin")

BeginOk(total) ==
  /\ ~active /\ total \in UInt32 \ {0}
  /\ active' = TRUE
  /\ totalExpected' = total
  /\ fileOpen' = FALSE /\ sawManifest' = FALSE
  /\ totalWritten' = 0 /\ fileExpected' = 0 /\ fileWritten' = 0
  /\ filePath' = NoFile
  /\ closedBytes' = 0
  /\ Ack("char_begin", TRUE, 0)

\* file.  path = NoFile stands for one that is_valid_character_path rejects.
\* FAULT: the size is checked against the package, not against its rest.
FileFitsPackage(size) == size < Word /\ size <= totalExpected

FileFits(size) == size < Word /\ size <= Minus(totalExpected, totalWritten)

FileRefused ==
  /\ ~active
  /\ Refuse("file")

FileRejected(path, size) ==
  /\ active
  /\ fileOpen \/ path = NoFile \/ ~FileFits(size)
  /\ GiveUp("file", 0)

FileReady(path, size) ==
  active /\ ~fileOpen /\ path \in Files /\ FileFits(size)

FileOpenFails(path, size) ==
  /\ FileReady(path, size)
  /\ GiveUp("file", 0)

FileOk(path, size) ==
  /\ FileReady(path, size)
  /\ fileOpen' = TRUE
  /\ fileExpected' = size
  /\ fileWritten' = 0
  /\ filePath' = path
  /\ Ack("file", TRUE, 0)
  /\ UNCHANGED <<active, sawManifest, totalExpected, totalWritten, closedBytes>>

\* chunk.  len = Word stands for data that decode_base64 rejects.
ChunkFits(len) ==
  /\ len <= MaxChunk
  /\ len <= Minus(fileExpected, fileWritten)
  /\ len <= Minus(totalExpected, totalWritten)

ChunkRefused ==
  /\ ~(active /\ fileOpen)
  /\ Refuse("chunk")

ChunkRejected(len) ==
  /\ active /\ fileOpen
  /\ ~ChunkFits(len)
  /\ GiveUp("chunk", fileWritten)

ChunkWriteFails(len) ==
  /\ active /\ fileOpen /\ ChunkFits(len) /\ len > 0
  /\ GiveUp("chunk", fileWritten)

ChunkOk(len) ==
  /\ active /\ fileOpen /\ ChunkFits(len)
  /\ fileWritten' = Plus(fileWritten, len)
  /\ totalWritten' = Plus(totalWritten, len)
  /\ Ack("chunk", TRUE, Plus(fileWritten, len))
  /\ UNCHANGED <<active, fileOpen, sawManifest, totalExpected, fileExpected,
                 filePath, closedBytes>>

\* file_end.  reported is the optional field n.
FileEndRefused ==
  /\ ~(active /\ fileOpen)
  /\ Refuse("file_end")

FileComplete(reported) ==
  fileWritten = fileExpected /\ reported \in {Absent, fileWritten}

FileEndRejected(reported) ==
  /\ active /\ fileOpen
  /\ ~FileComplete(reported)
  /\ GiveUp("file_end", fileWritten)

FileCloseFails(reported) ==
  /\ active /\ fileOpen /\ FileComplete(reported)
  /\ GiveUp("file_end", fileWritten)

FileEndOk(reported) ==
  /\ active /\ fileOpen /\ FileComplete(reported)
  /\ sawManifest' = (sawManifest \/ filePath = Manifest)
  /\ fileOpen' = FALSE
  /\ fileExpected' = 0 /\ fileWritten' = 0
  /\ filePath' = NoFile
  /\ closedBytes' = closedBytes + fileWritten
  /\ Ack("file_end", TRUE, fileWritten)
  /\ UNCHANGED <<active, totalExpected, totalWritten>>

\* char_end.
EndRefused ==
  /\ ~active
  /\ Refuse("char_end")

\* FAULT: an open file is committed as it is.
WholeExceptOpenFile ==
  active /\ totalWritten = totalExpected /\ sawManifest

Whole ==
  active /\ ~fileOpen /\ totalWritten = totalExpected /\ sawManifest

EndRejected ==
  /\ active
  /\ ~Whole
  /\ GiveUp("char_end", 0)

\* The staged manifest cannot be read or is not valid, or the commit fails.
EndFails ==
  /\ Whole
  /\ GiveUp("char_end", 0)

EndOk ==
  /\ Whole
  /\ ResetTransfer
  /\ Ack("char_end", TRUE, 0)

\* delete_character and factory_reset begin with abort_character_transfer; as
\* commands of the desktop they answer at their end, whatever the platform
\* made of them.  The settings page resets without an acknowledgement.
Abort == ResetTransfer /\ UNCHANGED ack

Reset(cmd, ok) == Ack(cmd, ok, 0) /\ ResetTransfer

-----------------------------------------------------------------------------
CharBegin(total) ==
  BeginRefused(total) \/ BeginNoSpace(total) \/ BeginOk(total)

File(path, size) ==
  \/ FileRefused
  \/ FileRejected(path, size)
  \/ FileOpenFails(path, size)
  \/ FileOk(path, size)

Chunk(len) ==
  \/ ChunkRefused
  \/ ChunkRejected(len)
  \/ ChunkWriteFails(len)
  \/ ChunkOk(len)

FileEnd(reported) ==
  \/ FileEndRefused
  \/ FileEndRejected(reported)
  \/ FileCloseFails(reported)
  \/ FileEndOk(reported)

ResetCommands == {"char_delete", "factory_reset"}

CharEnd == EndRefused \/ EndRejected \/ EndFails \/ EndOk

Next ==
  \/ \E total \in Field : CharBegin(total)
  \/ \E path \in Files \cup {NoFile}, size \in Field : File(path, size)
  \/ \E len \in Field : Chunk(len)
  \/ \E reported \in Field \cup {Absent} : FileEnd(reported)
  \/ CharEnd
  \/ Abort
  \/ \E cmd \in ResetCommands, ok \in BOOLEAN : Reset(cmd, ok)

Spec == Init /\ [][Next]_vars

-----------------------------------------------------------------------------
(* Properties                                                               *)

Commands == {"none", "char_begin", "file", "chunk", "file_end", "char_end"}
            \cup ResetCommands

\* Every variable keeps its type, and file_path names a file exactly while
\* one is open.
TypeOK ==
  /\ active \in BOOLEAN /\ fileOpen \in BOOLEAN /\ sawManifest \in BOOLEAN
  /\ totalExpected \in UInt32 /\ totalWritten \in UInt32
  /\ fileExpected \in UInt32 /\ fileWritten \in UInt32
  /\ filePath \in IF fileOpen THEN Files ELSE {NoFile}
  /\ ack \in [cmd : Commands, ok : BOOLEAN, n : UInt32]
  /\ closedBytes \in Nat

\* The counters never cross, so none of the unsigned subtractions of the
\* handlers wraps around: what is left of the open file always fits into what
\* is left of the package.  Between packages everything is zero.
Accounting ==
  /\ fileOpen => active
  /\ active => totalExpected > 0
  /\ ~fileOpen => fileExpected = 0 /\ fileWritten = 0
  /\ ~active => /\ ~sawManifest
                /\ totalExpected = 0 /\ totalWritten = 0 /\ closedBytes = 0
  /\ fileWritten <= fileExpected
  /\ totalWritten <= totalExpected
  /\ fileExpected - fileWritten <= totalExpected - totalWritten
  /\ totalWritten = closedBytes + fileWritten

\* A package is acknowledged only when all of it is in closed files, counted
\* without the width of the counters, and one of them was the manifest.
AcknowledgedIsWhole ==
  [][active /\ ~active' /\ ack'.ok /\ ack'.cmd = "char_end"
       => /\ closedBytes = totalExpected /\ totalExpected > 0
          /\ sawManifest]_vars
=============================================================================
