-------------------------- MODULE CharacterCommands ------------------------
(***************************************************************************)
(* The transfer of CharacterTransfer with what its commands carry: names,      *)
(* texts in base64, and a manifest at the end.  The desktop encodes bytes, with  *)
(* or without stray bits before the padding; it may also send a text that is no  *)
(* encoding of anything.                                                      *)
(***************************************************************************)
EXTENDS CharacterTransfer, PackageFormat

CONSTANTS Bytes,          \* the bytes of the files
          Fills,          \* what an encoder fills its last block with
          Garbled,        \* texts that encode nothing
          Manifests       \* what a manifest may say

ASSUME CommandsAssumption ==
  /\ Bytes \subseteq 0 .. 255 /\ Fills \subseteq 0 .. 255
  /\ \A text \in Garbled : text \in Seq(0 .. Other) /\ ~WellFormed(text)
  /\ \A manifest \in Manifests \ {NotAnObject} :
       manifest \in [kCharacterStates -> ManifestValues]

VARIABLES sent,           \* history: the bytes of the open file that were encoded
          data,           \* the bytes of the open file that were written
          package,        \* the staged files and their sizes
          activated       \* the package activated by the last command, if any

contents == <<sent, data, package>>
commandVars == <<vars, contents, activated>>

NothingStaged == [f \in Files |-> NotThere]
NotActivated == [package |-> NothingStaged, manifest |-> NotAnObject]

CommandsInit ==
  /\ Init
  /\ sent = << >> /\ data = << >>
  /\ package = NothingStaged
  /\ activated = NotActivated

\* The staged files go when the transfer does.
Kept ==
  IF active' THEN UNCHANGED contents
  ELSE sent' = << >> /\ data' = << >> /\ package' = NothingStaged

CommandBegin(total) ==
  /\ CharBegin(total)
  /\ UNCHANGED contents
  /\ activated' = NotActivated

\* The path of a file command is checked; an open truncates what was there.
CommandFile(name, size) ==
  /\ File(IF IsValidCharacterPath(name) THEN name ELSE NoFile, size)
  /\ IF ack'.ok
     THEN /\ package' = [package EXCEPT ![name] = 0]
          /\ sent' = << >> /\ data' = << >>
     ELSE Kept
  /\ activated' = NotActivated

\* A chunk with a text; bytes is what the desktop encoded in it.
CommandChunk(text, bytes) ==
  LET decoded == DecodeBase64(text)
  IN /\ Chunk(IF decoded = Rejected THEN Word ELSE Len(decoded))
     /\ IF ack'.ok
        THEN /\ data' = data \o decoded
             /\ sent' = sent \o bytes
             /\ UNCHANGED package
        ELSE Kept
     /\ activated' = NotActivated

CommandFileEnd(reported) ==
  /\ FileEnd(reported)
  /\ IF ack'.ok
     THEN /\ package' = [package EXCEPT ![filePath] = Len(data)]
          /\ sent' = << >> /\ data' = << >>
     ELSE Kept
  /\ activated' = NotActivated

\* char_end ends well only with a manifest that can be read and is valid.
CommandEndOk(manifest) ==
  /\ ReadFile(package)
  /\ ValidateCharacterManifest(package, manifest)
  /\ EndOk
  /\ activated' = [package |-> package, manifest |-> manifest]
  /\ Kept

CommandEndFails ==
  /\ EndRefused \/ EndRejected \/ EndFails
  /\ Kept
  /\ activated' = NotActivated

\* delete_character and factory_reset, as commands and from the settings page.
CommandReset(cmd, ok) ==
  /\ Reset(cmd, ok)
  /\ Kept
  /\ activated' = NotActivated

SettingsReset ==
  /\ Abort
  /\ Kept
  /\ activated' = NotActivated

Messages == UNION {[1 .. n -> Bytes] : n \in 0 .. MaxChunk + 1}

CommandsNext ==
  \/ \E total \in Field : CommandBegin(total)
  \/ \E name \in Paths, size \in Field : CommandFile(name, size)
  \/ \E bytes \in Messages, fill \in Fills : CommandChunk(Encode(bytes, fill), bytes)
  \/ \E text \in Garbled : CommandChunk(text, << >>)
  \/ \E reported \in Field \cup {Absent} : CommandFileEnd(reported)
  \/ \E manifest \in Manifests : CommandEndOk(manifest)
  \/ CommandEndFails
  \/ \E cmd \in ResetCommands, ok \in BOOLEAN : CommandReset(cmd, ok)
  \/ SettingsReset

CommandsSpec == CommandsInit /\ [][CommandsNext]_commandVars

-----------------------------------------------------------------------------
(* Properties                                                               *)

\* What is written is what the desktop encoded, byte for byte and in order, and
\* nothing of stray bits or of a text that is no encoding; the counter of the file
\* agrees with it.
WrittenIsWhatWasSent ==
  /\ data = sent
  /\ Len(data) = fileWritten

\* Every package that the protocol activates is one that the display can load, and
\* whatever state and turn it is in, the file it shows is there.
ActivatedCanBeShown ==
  activated # NotActivated =>
    /\ RuntimeLoads(activated.package, activated.manifest)
    /\ \A s \in s_state_names, turn \in 0 .. 2 * BUDDY_CHARACTER_STATE_VARIANTS :
         Has(activated.package, LvglPath(activated.manifest, s, turn))
=============================================================================
