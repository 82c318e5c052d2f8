-------------------------- MODULE CharacterProofs --------------------------
(***************************************************************************)
(* Theorems of CharacterTransfer, for any files, any width of the counters   *)
(* and any chunk length, and of CharacterInstall, for any packages, any number *)
(* of failing file calls and any number of power losses.                     *)
(*                                                                           *)
(* Accounting is inductive.  Its middle part, that the rest of the open file *)
(* fits into the rest of the package, is what keeps total_written from       *)
(* passing total_expected, and totalWritten = closedBytes + fileWritten is    *)
(* what makes the comparison in char_end say something about the files.      *)
(*                                                                           *)
(* The active directory is only ever filled by renaming, so the invariant of *)
(* the installation follows the package: what is staged agrees with the      *)
(* counters while it is received (StagedAgrees), it is complete when the      *)
(* commit has begun, and what was set aside can be put back.                 *)
(***************************************************************************)
EXTENDS CharacterDisplay, TLAPS

\* The two halves of TypeOK: what is not a number, and what is.
FlagsOK ==
  /\ active \in BOOLEAN /\ fileOpen \in BOOLEAN /\ sawManifest \in BOOLEAN
  /\ filePath \in IF fileOpen THEN Files ELSE {NoFile}
  /\ ack \in [cmd : Commands, ok : BOOLEAN, n : UInt32]
  /\ active => ack.cmd # "char_end"

NumbersOK ==
  /\ totalExpected \in UInt32 /\ totalWritten \in UInt32
  /\ fileExpected \in UInt32 /\ fileWritten \in UInt32
  /\ closedBytes \in Nat

TransferInv == FlagsOK /\ NumbersOK /\ Accounting

\* Unsigned arithmetic that does not wrap.
LEMMA MinusNoWrap ==
  ASSUME NEW x \in UInt32, NEW y \in UInt32, y <= x
  PROVE  Minus(x, y) = x - y
BY TransferAssumption DEF Minus, UInt32

LEMMA PlusNoWrap ==
  ASSUME NEW x \in UInt32, NEW y \in UInt32, x + y < Word
  PROVE  Plus(x, y) = x + y
BY DEF Plus

LEMMA ZeroFits == 0 \in UInt32
BY TransferAssumption DEF UInt32

\* An acknowledgement has its type.
LEMMA AckTyped ==
  ASSUME NEW cmd \in Commands, NEW ok \in BOOLEAN, NEW n \in UInt32,
         Ack(cmd, ok, n)
  PROVE  ack' \in [cmd : Commands, ok : BOOLEAN, n : UInt32]
BY DEF Ack

LEMMA AckFields ==
  ASSUME NEW cmd, NEW ok, NEW n, Ack(cmd, ok, n)
  PROVE  ack'.cmd = cmd /\ ack'.ok = ok /\ ack'.n = n
BY DEF Ack

LEMMA TransferInit == Init => TransferInv
<1> SUFFICES ASSUME Init PROVE TransferInv
  OBVIOUS
<1>1. NumbersOK
  BY ZeroFits DEF Init, NumbersOK
<1>2. FlagsOK
  BY ZeroFits DEF Init, FlagsOK, Commands, ResetCommands
<1>3. Accounting
  BY DEF Init, Accounting
<1> QED BY <1>1, <1>2, <1>3 DEF TransferInv

\* Between packages there is nothing to count.
LEMMA ResetKeeps ==
  ASSUME ResetTransfer,
         ack' \in [cmd : Commands, ok : BOOLEAN, n : UInt32]
  PROVE  TransferInv'
<1>1. NumbersOK'
  BY ZeroFits DEF ResetTransfer, NumbersOK
<1>2. FlagsOK'
  BY DEF ResetTransfer, FlagsOK
<1>3. Accounting'
  BY DEF ResetTransfer, Accounting
<1> QED BY <1>1, <1>2, <1>3 DEF TransferInv

LEMMA RefuseKeeps ==
  ASSUME TransferInv, NEW cmd \in Commands, Refuse(cmd),
         active => cmd # "char_end"
  PROVE  TransferInv'
<1>1. ack' \in [cmd : Commands, ok : BOOLEAN, n : UInt32]
  BY AckTyped, ZeroFits DEF Refuse
<1>2. FlagsOK'
  BY <1>1 DEF TransferInv, FlagsOK, Refuse, Ack, transferVars
<1>3. NumbersOK'
  BY DEF TransferInv, NumbersOK, Refuse, transferVars
<1>4. Accounting'
  BY DEF TransferInv, Accounting, Refuse, transferVars
<1> QED BY <1>2, <1>3, <1>4 DEF TransferInv

LEMMA GiveUpKeeps ==
  ASSUME NEW cmd \in Commands, NEW n \in UInt32, GiveUp(cmd, n)
  PROVE  TransferInv'
BY AckTyped, ResetKeeps DEF GiveUp

LEMMA BeginKeeps ==
  ASSUME TransferInv, NEW total \in Field, BeginOk(total)
  PROVE  TransferInv'
<1>1. ack' \in [cmd : Commands, ok : BOOLEAN, n : UInt32]
  BY AckTyped, ZeroFits DEF BeginOk, Commands
<1>2. FlagsOK'
  BY <1>1 DEF FlagsOK, BeginOk, Ack
<1>3. NumbersOK'
  BY ZeroFits DEF NumbersOK, BeginOk
<1>4. Accounting'
  BY TransferAssumption DEF Accounting, BeginOk, UInt32
<1> QED BY <1>2, <1>3, <1>4 DEF TransferInv

\* A file is opened with no more than the rest of the package.
LEMMA FileKeeps ==
  ASSUME TransferInv, NEW path \in Files \cup {NoFile}, NEW size \in Field,
         FileOk(path, size)
  PROVE  TransferInv'
<1>1. ack' \in [cmd : Commands, ok : BOOLEAN, n : UInt32]
  BY AckTyped, ZeroFits DEF FileOk, Commands
<1>2. FlagsOK'
  BY <1>1 DEF TransferInv, FlagsOK, FileOk, FileReady, Ack
<1>3. size \in UInt32 /\ size <= totalExpected - totalWritten
  <2>1. size < Word /\ size <= Minus(totalExpected, totalWritten)
    BY DEF FileOk, FileReady, FileFits
  <2>2. Minus(totalExpected, totalWritten) = totalExpected - totalWritten
    BY MinusNoWrap DEF TransferInv, NumbersOK, Accounting
  <2> QED BY <2>1, <2>2, TransferAssumption DEF Field, UInt32
<1>4. NumbersOK'
  BY <1>3, ZeroFits DEF TransferInv, NumbersOK, FileOk
<1>5. /\ fileExpected' = size /\ fileWritten' = 0
      /\ totalExpected' = totalExpected /\ totalWritten' = totalWritten
      /\ closedBytes' = closedBytes
      /\ fileWritten = 0
      /\ active /\ active' = active /\ fileOpen'
  BY DEF FileOk, FileReady, TransferInv, Accounting
<1>6. Accounting'
  BY <1>3, <1>5 DEF TransferInv, NumbersOK, Accounting, UInt32
<1> QED BY <1>2, <1>4, <1>6 DEF TransferInv

\* A chunk that fits into the file fits into the package, and neither sum
\* leaves the counters.
LEMMA ChunkKeeps ==
  ASSUME TransferInv, NEW len \in Field, ChunkOk(len)
  PROVE  TransferInv'
<1>1. len \in Nat /\ len <= fileExpected - fileWritten
  <2>1. len <= Minus(fileExpected, fileWritten)
    BY DEF ChunkOk, ChunkFits
  <2>2. Minus(fileExpected, fileWritten) = fileExpected - fileWritten
    BY MinusNoWrap DEF TransferInv, NumbersOK, Accounting
  <2> QED BY <2>1, <2>2, TransferAssumption DEF Field
<1>2. len \in UInt32 /\ fileWritten + len < Word /\ totalWritten + len < Word
  BY <1>1, TransferAssumption
  DEF TransferInv, NumbersOK, Accounting, UInt32
<1>3. /\ Plus(fileWritten, len) = fileWritten + len
      /\ Plus(totalWritten, len) = totalWritten + len
  BY <1>2, PlusNoWrap DEF TransferInv, NumbersOK
<1>4. /\ fileWritten' = fileWritten + len
      /\ totalWritten' = totalWritten + len
      /\ fileExpected' = fileExpected /\ totalExpected' = totalExpected
      /\ closedBytes' = closedBytes
  BY <1>3 DEF ChunkOk
<1>5. NumbersOK'
  BY <1>2, <1>4, TransferAssumption DEF TransferInv, NumbersOK, UInt32
<1>6. active /\ active' = active /\ fileOpen /\ fileOpen' = fileOpen
  BY DEF ChunkOk
<1>7. Accounting'
  BY <1>1, <1>4, <1>6 DEF TransferInv, NumbersOK, Accounting, UInt32
<1>8. ack' \in [cmd : Commands, ok : BOOLEAN, n : UInt32]
  <2>1. Plus(fileWritten, len) \in UInt32
    BY <1>2, <1>3, TransferAssumption DEF TransferInv, NumbersOK, UInt32
  <2> QED BY <2>1, AckTyped DEF ChunkOk, Commands
<1>9. FlagsOK'
  BY <1>8 DEF TransferInv, FlagsOK, ChunkOk, Ack
<1> QED BY <1>5, <1>7, <1>9 DEF TransferInv

\* Closing a file moves its bytes from the open file to the closed ones.
LEMMA FileEndKeeps ==
  ASSUME TransferInv, NEW reported, FileEndOk(reported)
  PROVE  TransferInv'
<1>1. /\ fileWritten = fileExpected
      /\ fileExpected' = 0 /\ fileWritten' = 0
      /\ totalExpected' = totalExpected /\ totalWritten' = totalWritten
      /\ closedBytes' = closedBytes + fileWritten
      /\ active /\ active' = active /\ ~fileOpen'
  BY DEF FileEndOk, FileComplete
<1>2. NumbersOK'
  BY <1>1, ZeroFits DEF TransferInv, NumbersOK, UInt32
<1>3. Accounting'
  BY <1>1 DEF TransferInv, NumbersOK, Accounting, UInt32
<1>4. ack' \in [cmd : Commands, ok : BOOLEAN, n : UInt32]
  BY AckTyped DEF TransferInv, NumbersOK, FileEndOk, Commands
<1>5. FlagsOK'
  BY <1>4 DEF TransferInv, FlagsOK, FileEndOk, Ack
<1> QED BY <1>2, <1>3, <1>5 DEF TransferInv

LEMMA TransferStep == TransferInv /\ [Next]_vars => TransferInv'
<1> SUFFICES ASSUME TransferInv, [Next]_vars PROVE TransferInv'
  OBVIOUS
<1> USE DEF Commands, ResetCommands
<1>0. fileWritten \in UInt32
  BY DEF TransferInv, NumbersOK
<1>1. ASSUME NEW total \in Field, CharBegin(total) PROVE TransferInv'
  BY <1>1, RefuseKeeps, BeginKeeps
  DEF CharBegin, BeginRefused, BeginNoSpace
<1>2. ASSUME NEW path \in Files \cup {NoFile}, NEW size \in Field,
             File(path, size)
      PROVE TransferInv'
  BY <1>2, RefuseKeeps, GiveUpKeeps, FileKeeps, ZeroFits
  DEF File, FileRefused, FileRejected, FileOpenFails
<1>3. ASSUME NEW len \in Field, Chunk(len) PROVE TransferInv'
  BY <1>3, <1>0, RefuseKeeps, GiveUpKeeps, ChunkKeeps
  DEF Chunk, ChunkRefused, ChunkRejected, ChunkWriteFails
<1>4. ASSUME NEW reported, FileEnd(reported) PROVE TransferInv'
  BY <1>4, <1>0, RefuseKeeps, GiveUpKeeps, FileEndKeeps
  DEF FileEnd, FileEndRefused, FileEndRejected, FileCloseFails
<1>5. CASE CharEnd
  <2>1. CASE EndRefused
    BY <2>1, RefuseKeeps DEF EndRefused
  <2>2. CASE EndRejected \/ EndFails
    BY <2>2, GiveUpKeeps, ZeroFits DEF EndRejected, EndFails
  <2>3. CASE EndOk
    BY <2>3, AckTyped, ResetKeeps, ZeroFits DEF EndOk
  <2> QED BY <1>5, <2>1, <2>2, <2>3 DEF CharEnd
<1>6. CASE Abort
  BY <1>6, ResetKeeps DEF Abort, TransferInv, FlagsOK
<1>7. ASSUME NEW cmd \in ResetCommands, NEW ok \in BOOLEAN, Reset(cmd, ok)
      PROVE TransferInv'
  BY <1>7, AckTyped, ResetKeeps, ZeroFits DEF Reset
<1>8. CASE UNCHANGED vars
  <2>1. FlagsOK'
    BY <1>8 DEF TransferInv, FlagsOK, vars, transferVars
  <2>2. NumbersOK'
    BY <1>8 DEF TransferInv, NumbersOK, vars, transferVars
  <2>3. Accounting'
    BY <1>8 DEF TransferInv, Accounting, vars, transferVars
  <2> QED BY <2>1, <2>2, <2>3 DEF TransferInv
<1> QED BY <1>1, <1>2, <1>3, <1>4, <1>5, <1>6, <1>7, <1>8 DEF Next

\* Whatever commands come in whatever order, the counters of the transfer stay
\* consistent with each other and with the files that were closed.
THEOREM TransferInvariant == Spec => []TransferInv
BY TransferInit, TransferStep, PTL DEF Spec

\* The counters stay within uint32_t and file_path names a file exactly while
\* one is open.
THEOREM TransferTypeCorrect == Spec => []TypeOK
<1>1. TransferInv => TypeOK
  BY DEF TransferInv, FlagsOK, NumbersOK, TypeOK
<1> QED BY <1>1, TransferInvariant, PTL

\* No subtraction of the size checks wraps around.
THEOREM AccountingHolds == Spec => []Accounting
<1>1. TransferInv => Accounting
  BY DEF TransferInv
<1> QED BY <1>1, TransferInvariant, PTL

\* char_end answers yes only to a package all of whose announced bytes are in
\* files that were closed.
THEOREM AcknowledgedIsWholeHolds == Spec => AcknowledgedIsWhole
<1> DEFINE Promise ==
      active /\ ~active' /\ ack'.ok /\ ack'.cmd = "char_end"
        => /\ closedBytes = totalExpected /\ totalExpected > 0
           /\ sawManifest
<1>1. TransferInv /\ [Next]_vars => [Promise]_vars
  <2> SUFFICES ASSUME TransferInv, Next, active, ~active', ack'.ok,
                      ack'.cmd = "char_end"
               PROVE  /\ closedBytes = totalExpected /\ totalExpected > 0
                      /\ sawManifest
    OBVIOUS
  <2>1. EndOk
    <3>1. CASE CharEnd
      BY <3>1 DEF CharEnd, EndRefused, EndRejected, EndFails, Refuse, GiveUp,
                  Ack, transferVars
    <3>2. ASSUME NEW total \in Field, CharBegin(total) PROVE FALSE
      BY <3>2 DEF CharBegin, BeginRefused, BeginNoSpace, BeginOk, Refuse,
                  transferVars
    <3>3. ASSUME NEW path, NEW size, File(path, size) PROVE FALSE
      <4>1. PICK ok, n : Ack("file", ok, n)
        BY <3>3 DEF File, FileRefused, FileRejected, FileOpenFails, FileOk,
                    Refuse, GiveUp
      <4>2. ack'.cmd = "file"
        BY <4>1, AckFields
      <4> QED BY <4>2
    <3>4. ASSUME NEW len, Chunk(len) PROVE FALSE
      <4>1. PICK ok, n : Ack("chunk", ok, n)
        BY <3>4 DEF Chunk, ChunkRefused, ChunkRejected, ChunkWriteFails,
                    ChunkOk, Refuse, GiveUp
      <4>2. ack'.cmd = "chunk"
        BY <4>1, AckFields
      <4> QED BY <4>2
    <3>5. ASSUME NEW reported, FileEnd(reported) PROVE FALSE
      <4>1. PICK ok, n : Ack("file_end", ok, n)
        BY <3>5 DEF FileEnd, FileEndRefused, FileEndRejected, FileCloseFails,
                    FileEndOk, Refuse, GiveUp
      <4>2. ack'.cmd = "file_end"
        BY <4>1, AckFields
      <4> QED BY <4>2
    <3>6. CASE Abort
      BY <3>6 DEF Abort, TransferInv, FlagsOK
    <3>7. ASSUME NEW cmd \in ResetCommands, NEW ok, Reset(cmd, ok)
          PROVE FALSE
      BY <3>7 DEF Reset, Ack, ResetCommands
    <3> QED BY <3>1, <3>2, <3>3, <3>4, <3>5, <3>6, <3>7 DEF Next
  <2>2. Whole /\ active
    BY <2>1 DEF EndOk, Whole
  <2>3. totalExpected > 0 /\ closedBytes = totalWritten
    BY <2>2 DEF Whole, TransferInv, NumbersOK, Accounting, UInt32
  <2> QED BY <2>2, <2>3 DEF Whole
<1> QED BY <1>1, TransferInvariant, PTL DEF Spec, AcknowledgedIsWhole

-----------------------------------------------------------------------------
\* A directory that may be shown: absent, or whole files of one package, and
\* all of them unless a deletion has pruned it.
Showable(d, cut) ==
  d # NoDir =>
    \E p \in Packages : Unmixed(d, p) /\ (Complete(d, p) \/ cut)

Committing == {"setAside", "putInPlace", "putBack", "clean", "name", "failed"}

HostOK ==
  /\ step \in Steps
  /\ staging \in IF active THEN Packages ELSE {NoPackage}
  /\ step \in Committing => active
  /\ step \in Deleting => ~active

\* The commit on its way.
CommitOK ==
  /\ step \in {"setAside", "putInPlace"} => HoldsPackage(incomingDir, staging)
  /\ step = "putBack" => hadActive
  /\ hadActive /\ step \in {"putInPlace", "putBack"}
       => Showable(previousDir, pruned)

InstallInv ==
  /\ TransferInv
  /\ incomingDir \in Dir
  /\ HostOK
  /\ StagedAgrees
  /\ CommitOK
  /\ Showable(activeDir, pruned)

-----------------------------------------------------------------------------
\* Every step of the composition is a step of the transfer, or none.
LEMMA InstallStepsTransfer == [InstallNext]_installVars => [Next]_vars
<1> SUFFICES ASSUME [InstallNext]_installVars PROVE [Next]_vars
  OBVIOUS
<1>1. CASE Transfer
  <2>1. ASSUME NEW p \in Packages, NEW total \in Field, HostBegin(p, total)
        PROVE Next
    BY <2>1 DEF HostBegin, CharBegin, Next
  <2>2. ASSUME NEW path \in Files \cup {NoFile}, NEW size \in Field,
               HostFile(path, size)
        PROVE Next
    BY <2>2 DEF HostFile, File, Next
  <2>3. ASSUME NEW len \in Field, HostChunk(len) PROVE Next
    BY <2>3 DEF HostChunk, Chunk, Next
  <2>4. ASSUME NEW reported \in Field \cup {Absent}, HostFileEnd(reported)
        PROVE Next
    BY <2>4 DEF HostFileEnd, FileEnd, Next
  <2>5. CASE HostEndFails
    BY <2>5 DEF HostEndFails, CharEnd, Next
  <2> QED BY <1>1, <2>1, <2>2, <2>3, <2>4, <2>5 DEF Transfer
<1>2. CASE Commit
  <2>1. CASE CommitEnds
    BY <2>1 DEF CommitEnds, CharEnd, Next
  <2>2. CASE CommitFailed
    BY <2>2 DEF CommitFailed, CharEnd, Next
  <2>3. CASE ~CommitEnds /\ ~CommitFailed
    BY <1>2, <2>3
    DEF Commit, InCommit, CommitBegins, CommitCannotBegin, CommitSetsAside,
        CommitCannotSetAside, CommitPutsInPlace, CommitCannotPutInPlace,
        CommitPutsBack, CommitCleans
  <2> QED BY <2>1, <2>2, <2>3
<1>3. CASE Deletion
  <2>1. ASSUME NEW first, DeletionBegins(first) PROVE Next
    BY <2>1 DEF DeletionBegins, Next
  <2>2. CASE DeletesName
    <3>1. allOk' \in BOOLEAN
      BY <2>2 DEF DeletesName, InDeletion
    <3>2. Reset("char_delete", allOk')
      BY <2>2 DEF DeletesName
    <3> QED BY <3>1, <3>2 DEF Next, ResetCommands
  <2>3. ASSUME NEW ok \in BOOLEAN, WipeEnds(ok) PROVE Next
    BY <2>3 DEF WipeEnds, Next, ResetCommands
  <2>4. CASE DeletesIncoming \/ DeletesActive \/ DeletesPrevious \/ Wipe
    BY <2>4 DEF DeletesIncoming, DeletesActive, DeletesPrevious, Wipe
  <2> QED BY <1>3, <2>1, <2>2, <2>3, <2>4 DEF Deletion
<1>4. CASE PowerLoss
  BY <1>4 DEF PowerLoss, Next
<1>5. CASE UNCHANGED installVars
  BY <1>5 DEF installVars
<1> QED BY <1>1, <1>2, <1>3, <1>4, <1>5 DEF InstallNext

\* The composition implements the transfer: what is proved of the transfer
\* alone holds with the store behind it, whatever fails.
LEMMA InstallImplementsTransfer == InstallSpec => Spec
<1>1. InstallInit => Init
  BY DEF InstallInit
<1> QED BY <1>1, InstallStepsTransfer, PTL DEF InstallSpec, Spec

-----------------------------------------------------------------------------
(* What remove_tree and a write leave behind.                               *)

LEMMA RemainsTyped ==
  ASSUME NEW d \in Dir, NEW r \in Remains(d)
  PROVE  r \in Contents
BY DEF Remains, Dir, Contents

LEMMA RemainsUnmixed ==
  ASSUME NEW d, NEW r \in Remains(d), NEW p, Unmixed(d, p)
  PROVE  Unmixed(r, p)
<1>1. d # NoDir
  BY DEF Remains
<1>2. PICK kept \in SUBSET Files :
        r = [f \in Files |-> IF f \in kept THEN d[f] ELSE Missing]
  BY <1>1 DEF Remains
<1> QED BY <1>2 DEF Unmixed

LEMMA AbortTyped ==
  ASSUME NEW d \in Dir, NEW n, StoreAbort(d, n)
  PROVE  incomingDir' \in Dir
BY RemainsTyped DEF StoreAbort, Dir

\* The staging area after a write, while a file is open.
LEMMA LongerFile ==
  ASSUME InstallInv, step = "idle", active, fileOpen, NEW n \in Nat
  PROVE  /\ Longer(n) \in Contents
         /\ fd = filePath /\ filePath \in Files
         /\ Longer(n)[filePath] = [from |-> staging, size |-> fileWritten + n,
                                   announced |-> fileExpected]
         /\ \A f \in Files \ {filePath} : Longer(n)[f] = incomingDir[f]
<1>1. /\ incomingDir # NoDir /\ fd = filePath
      /\ incomingDir[filePath] = [from |-> staging, size |-> fileWritten,
                                  announced |-> fileExpected]
  BY DEF InstallInv, StagedAgrees
<1>2. incomingDir \in Contents
  BY <1>1 DEF InstallInv, Dir
<1>3. filePath \in Files /\ staging \in Packages
  BY DEF InstallInv, TransferInv, FlagsOK, HostOK
<1>4. fileWritten \in Nat /\ fileExpected \in Nat
  BY TransferAssumption DEF InstallInv, TransferInv, NumbersOK, UInt32
<1> DEFINE longer == [from |-> staging, size |-> fileWritten + n,
                      announced |-> fileExpected]
<1>5. longer \in StoredFile
  BY <1>3, <1>4 DEF StoredFile
<1>6. Longer(n) = [incomingDir EXCEPT ![filePath] = longer]
  <2>1. Longer(n) = [incomingDir EXCEPT ![filePath] =
                       [incomingDir[filePath] EXCEPT !.size = @ + n]]
    BY <1>1 DEF Longer
  <2>2. [incomingDir[filePath] EXCEPT !.size = @ + n] = longer
    BY <1>1
  <2> QED BY <2>1, <2>2
<1> HIDE DEF longer
<1>7. /\ Longer(n) \in Contents
      /\ Longer(n)[filePath] = longer
      /\ \A f \in Files \ {filePath} : Longer(n)[f] = incomingDir[f]
  BY <1>2, <1>3, <1>5, <1>6 DEF Contents
<1> QED BY <1>1, <1>3, <1>7 DEF longer

-----------------------------------------------------------------------------
(* The two ways in which a step leaves nothing to prove but types: the host  *)
(* is idle without a package, and the host is in a deletion.                 *)

LEMMA IdleInactive ==
  ASSUME InstallInv, TransferInv', incomingDir' \in Dir,
         step' = "idle", ~active', staging' = NoPackage,
         Showable(activeDir', pruned')
  PROVE  InstallInv'
BY DEF InstallInv, HostOK, Steps, Committing, Deleting, StagedAgrees, CommitOK,
       Showable, Unmixed, Complete, IsWhole

LEMMA BusyDeleting ==
  ASSUME InstallInv, TransferInv', incomingDir' \in Dir,
         step' \in Deleting, ~active', staging' = NoPackage,
         Showable(activeDir', pruned')
  PROVE  InstallInv'
BY DEF InstallInv, HostOK, Steps, Committing, Deleting, StagedAgrees, CommitOK,
       Showable, Unmixed, Complete, IsWhole

\* A handler that gives the package up.
LEMMA GivesUp ==
  ASSUME InstallInv, TransferInv', ResetTransfer, step' = "idle",
         UNCHANGED pruned, NEW d \in Dir, NEW n, StoreGivesUp(d, n)
  PROVE  InstallInv'
<1>1. incomingDir' \in Dir
  BY AbortTyped DEF StoreGivesUp
<1>2. UNCHANGED activeDir /\ staging' = NoPackage /\ ~active'
  BY DEF StoreGivesUp, StoreAbort, ResetTransfer
<1>3. Showable(activeDir', pruned')
  BY <1>2 DEF InstallInv, Showable, Unmixed, Complete, IsWhole
<1> QED BY <1>1, <1>2, <1>3, IdleInactive

\* A handler that refuses.
LEMMA Untouched ==
  ASSUME InstallInv, TransferInv', UNCHANGED <<transferVars, storeVars,
                                              staging, hostVars, pruned>>
  PROVE  InstallInv'
BY DEF InstallInv, HostOK, StagedAgrees, CommitOK, Showable, Unmixed, Complete,
       HoldsPackage, IsWhole, transferVars, storeVars, dirs, hostVars

-----------------------------------------------------------------------------
(* The handlers of the transfer.                                            *)

\* What a handler leaves alone; its goal is StagedAgrees.
LEMMA StillStaging ==
  ASSUME InstallInv, TransferInv', active', step' = "idle",
         staging' \in Packages, incomingDir' \in Contents, StagedAgrees',
         UNCHANGED <<activeDir, pruned>>
  PROVE  InstallInv'
<1>1. HostOK' /\ CommitOK'
  BY DEF HostOK, Steps, Committing, Deleting, CommitOK
<1>2. Showable(activeDir', pruned')
  BY DEF InstallInv, Showable, Unmixed, Complete, IsWhole
<1> QED BY <1>1, <1>2 DEF InstallInv, Dir

LEMMA BeginStays ==
  ASSUME InstallInv, TransferInv', NEW p \in Packages, NEW total \in Field,
         HostBegin(p, total)
  PROVE  InstallInv'
<1>1. CASE BeginRefused(total) /\ StoreUntouched
  BY <1>1, Untouched DEF HostBegin, Handler, StoreUntouched, BeginRefused,
                         Refuse
<1>2. CASE BeginNoSpace(total) /\ StoreBeginFails /\ UNCHANGED staging
  <2>1. incomingDir' \in Dir
    BY <1>2, RemainsTyped DEF InstallInv, StoreBeginFails, Dir
  <2>2. /\ ~active' /\ staging' = NoPackage /\ step' = "idle"
        /\ UNCHANGED <<activeDir, pruned>>
    BY <1>2 DEF InstallInv, HostOK, BeginNoSpace, Refuse, transferVars,
                HostBegin, Handler, hostVars, StoreBeginFails
  <2>3. Showable(activeDir', pruned')
    BY <2>2 DEF InstallInv, Showable, Unmixed, Complete, IsWhole
  <2> QED BY <2>1, <2>2, <2>3, IdleInactive
<1>3. CASE BeginOk(total) /\ StoreBegin /\ staging' = p
  <2>1. incomingDir' = EmptyDir /\ fd' = NoFile /\ UNCHANGED activeDir
    BY <1>3 DEF StoreBegin
  <2>2. EmptyDir \in Contents /\ EmptyDir # NoDir
    BY StoreAssumption DEF EmptyDir, Contents
  <2>3. active' /\ ~fileOpen' /\ filePath' = NoFile /\ ~sawManifest'
    BY <1>3 DEF BeginOk
  <2>4. StagedAgrees'
    BY <2>1, <2>2, <2>3 DEF StagedAgrees, EmptyDir
  <2>5. step' = "idle" /\ UNCHANGED pruned
    BY DEF HostBegin, Handler, hostVars
  <2> QED BY <1>3, <2>1, <2>2, <2>3, <2>4, <2>5, StillStaging
<1> QED BY <1>1, <1>2, <1>3 DEF HostBegin

LEMMA FileStays ==
  ASSUME InstallInv, TransferInv', NEW path \in Files \cup {NoFile},
         NEW size \in Field, HostFile(path, size)
  PROVE  InstallInv'
<1>0. step = "idle" /\ step' = "idle" /\ UNCHANGED pruned
  BY DEF HostFile, Handler, hostVars
<1>1. CASE FileRefused /\ StoreUntouched
  BY <1>1, Untouched DEF HostFile, Handler, StoreUntouched, FileRefused,
                         Refuse
<1>2. CASE \/ FileRejected(path, size) /\ StoreGivesUp(incomingDir, 0)
           \/ FileOpenFails(path, size) /\ StoreGivesUp(incomingDir, 1)
  BY <1>0, <1>2, GivesUp
  DEF FileRejected, FileOpenFails, GiveUp, InstallInv
<1>3. CASE /\ FileOk(path, size)
           /\ StoreOpen(path, staging, size)
           /\ UNCHANGED staging
  <2> DEFINE new == [from |-> staging, size |-> 0, announced |-> size]
  <2>1. /\ active /\ active' /\ fileOpen' /\ filePath' = path
        /\ path \in Files /\ size \in Nat
        /\ fileWritten' = 0 /\ fileExpected' = size
        /\ UNCHANGED sawManifest /\ ~fileOpen
    BY <1>3, TransferAssumption
    DEF FileOk, FileReady, Field
  <2>2. staging \in Packages /\ staging' = staging
    BY <1>3, <2>1 DEF InstallInv, HostOK
  <2>3. filePath = NoFile
    BY <2>1 DEF InstallInv, TransferInv, FlagsOK
  <2>4. new \in StoredFile
    BY <2>1, <2>2 DEF StoredFile
  <2>5. /\ incomingDir # NoDir /\ fd' = path /\ UNCHANGED activeDir
        /\ incomingDir' = [incomingDir EXCEPT ![path] = new]
    BY <1>3 DEF StoreOpen
  <2>6. incomingDir \in Contents
    BY <2>5 DEF InstallInv, Dir
  <2> HIDE DEF new
  <2>7. /\ incomingDir' \in Contents
        /\ incomingDir'[path] = new
        /\ \A f \in Files \ {path} : incomingDir'[f] = incomingDir[f]
    BY <2>1, <2>4, <2>5, <2>6 DEF Contents
  <2>8. /\ \A f \in Files : incomingDir[f] # Missing
                            => IsWhole(incomingDir[f], staging)
        /\ sawManifest => incomingDir[Manifest] # Missing
    BY <1>0, <2>1, <2>3, FilesAssumption DEF InstallInv, StagedAgrees
  <2>9. StagedAgrees'
    <3>1. incomingDir' # NoDir /\ fd' = filePath'
      BY <2>1, <2>5, <2>7, StoreAssumption
    <3>2. incomingDir'[filePath'] =
            [from |-> staging', size |-> fileWritten',
             announced |-> fileExpected']
      BY <2>1, <2>2, <2>7 DEF new
    <3>3. \A f \in Files \ {filePath'} :
            incomingDir'[f] # Missing => IsWhole(incomingDir'[f], staging')
      BY <2>1, <2>2, <2>7, <2>8
    <3>4. sawManifest' /\ filePath' # Manifest
            => incomingDir'[Manifest] # Missing
      BY <2>1, <2>7, <2>8, FilesAssumption
    <3> QED BY <3>1, <3>2, <3>3, <3>4 DEF StagedAgrees, IsWhole
  <2> QED BY <1>0, <2>1, <2>2, <2>5, <2>7, <2>9, StillStaging
<1> QED BY <1>1, <1>2, <1>3 DEF HostFile

LEMMA ChunkStays ==
  ASSUME InstallInv, TransferInv', NEW len \in Field, HostChunk(len)
  PROVE  InstallInv'
<1>0. step = "idle" /\ step' = "idle" /\ UNCHANGED pruned
  BY DEF HostChunk, Handler, hostVars
<1>1. CASE ChunkRefused /\ StoreUntouched
  BY <1>1, Untouched DEF HostChunk, Handler, StoreUntouched, ChunkRefused,
                         Refuse
<1>2. CASE ChunkRejected(len) /\ StoreGivesUp(incomingDir, 0)
  BY <1>0, <1>2, GivesUp DEF ChunkRejected, GiveUp, InstallInv
<1>3. CASE /\ ChunkWriteFails(len)
           /\ \E n \in 0 .. len - 1 : StoreGivesUp(Longer(n), 1)
  <2>1. PICK n \in 0 .. len - 1 : StoreGivesUp(Longer(n), 1)
    BY <1>3
  <2>2. n \in Nat
    BY <2>1
  <2>3. active /\ fileOpen /\ ResetTransfer
    BY <1>3 DEF ChunkWriteFails, GiveUp
  <2>4. Longer(n) \in Dir
    BY <1>0, <2>2, <2>3, LongerFile DEF Dir
  <2> QED BY <1>0, <2>1, <2>3, <2>4, GivesUp
<1>4. CASE ChunkOk(len) /\ StoreWrite(len) /\ UNCHANGED staging
  <2>1. /\ active /\ active' /\ fileOpen /\ fileOpen'
        /\ UNCHANGED <<filePath, fileExpected, sawManifest>>
        /\ len <= Minus(fileExpected, fileWritten)
        /\ fileWritten' = Plus(fileWritten, len)
    BY <1>4 DEF ChunkOk, ChunkFits
  <2>2. len \in Nat /\ fileWritten' = fileWritten + len
    <3>1. fileWritten \in UInt32 /\ fileExpected \in UInt32
          /\ fileWritten <= fileExpected
      BY DEF InstallInv, TransferInv, NumbersOK, Accounting
    <3>2. len \in Nat /\ fileWritten + len < Word /\ fileWritten \in Nat
      BY <2>1, <3>1, MinusNoWrap, TransferAssumption DEF UInt32, Field
    <3>3. len \in UInt32
      BY <3>2, TransferAssumption DEF UInt32
    <3> QED BY <2>1, <3>1, <3>2, <3>3, PlusNoWrap
  <2>3. /\ incomingDir' = Longer(len)
        /\ UNCHANGED <<activeDir, fd, staging>>
    BY <1>4 DEF StoreWrite
  <2>4. /\ Longer(len) \in Contents
        /\ fd = filePath /\ filePath \in Files
        /\ Longer(len)[filePath] =
              [from |-> staging, size |-> fileWritten + len,
               announced |-> fileExpected]
        /\ \A f \in Files \ {filePath} : Longer(len)[f] = incomingDir[f]
    BY <1>0, <2>1, <2>2, LongerFile
  <2>5. /\ \A f \in Files \ {filePath} :
             incomingDir[f] # Missing => IsWhole(incomingDir[f], staging)
        /\ sawManifest /\ filePath # Manifest
             => incomingDir[Manifest] # Missing
    BY <1>0, <2>1 DEF InstallInv, StagedAgrees
  <2>6. staging \in Packages
    BY <2>1 DEF InstallInv, HostOK
  <2>7. StagedAgrees'
    <3>1. incomingDir' # NoDir /\ fd' = filePath'
      BY <2>1, <2>3, <2>4, StoreAssumption
    <3>2. incomingDir'[filePath'] =
            [from |-> staging', size |-> fileWritten',
             announced |-> fileExpected']
      BY <2>1, <2>2, <2>3, <2>4
    <3>3. \A f \in Files \ {filePath'} :
            incomingDir'[f] # Missing => IsWhole(incomingDir'[f], staging')
      BY <2>1, <2>3, <2>4, <2>5
    <3>4. sawManifest' /\ filePath' # Manifest
            => incomingDir'[Manifest] # Missing
      BY <2>1, <2>3, <2>4, <2>5, FilesAssumption
    <3> QED BY <3>1, <3>2, <3>3, <3>4 DEF StagedAgrees, IsWhole
  <2> QED BY <1>0, <2>1, <2>3, <2>4, <2>6, <2>7, StillStaging
<1> QED BY <1>1, <1>2, <1>3, <1>4 DEF HostChunk

LEMMA FileEndStays ==
  ASSUME InstallInv, TransferInv', NEW reported, HostFileEnd(reported)
  PROVE  InstallInv'
<1>0. step = "idle" /\ step' = "idle" /\ UNCHANGED pruned
  BY DEF HostFileEnd, Handler, hostVars
<1>1. CASE FileEndRefused /\ StoreUntouched
  BY <1>1, Untouched DEF HostFileEnd, Handler, StoreUntouched,
                         FileEndRefused, Refuse
<1>2. CASE FileEndRejected(reported) /\ StoreGivesUp(incomingDir, 0)
  BY <1>0, <1>2, GivesUp DEF FileEndRejected, GiveUp, InstallInv
<1>3. CASE FileEndOk(reported) /\ StoreClose /\ UNCHANGED staging
  <2>1. /\ active /\ active' /\ fileOpen /\ ~fileOpen'
        /\ filePath' = NoFile /\ fileWritten = fileExpected
        /\ sawManifest' => sawManifest \/ filePath = Manifest
    BY <1>3 DEF FileEndOk, FileComplete
  <2>2. fd' = NoFile /\ UNCHANGED <<incomingDir, activeDir>>
    BY <1>3 DEF StoreClose, dirs
  <2>3. filePath \in Files /\ staging \in Packages /\ staging' = staging
    BY <1>3, <2>1 DEF InstallInv, TransferInv, FlagsOK, HostOK
  <2>4. /\ incomingDir # NoDir
        /\ incomingDir[filePath] =
             [from |-> staging, size |-> fileWritten, announced |-> fileExpected]
        /\ \A f \in Files \ {filePath} :
             incomingDir[f] # Missing => IsWhole(incomingDir[f], staging)
        /\ sawManifest /\ filePath # Manifest
             => incomingDir[Manifest] # Missing
    BY <1>0, <2>1 DEF InstallInv, StagedAgrees
  <2>5. incomingDir \in Contents
    BY <2>4 DEF InstallInv, Dir
  <2>6. IsWhole(incomingDir[filePath], staging)
    BY <2>1, <2>4 DEF IsWhole
  <2>7. incomingDir[filePath] # Missing
    <3>1. fileWritten \in Nat /\ fileExpected \in Nat
      BY TransferAssumption DEF InstallInv, TransferInv, NumbersOK, UInt32
    <3>2. incomingDir[filePath] \in StoredFile
      BY <2>3, <2>4, <3>1 DEF StoredFile
    <3> QED BY <3>2, StoreAssumption
  <2>8. StagedAgrees'
    BY <2>1, <2>2, <2>3, <2>4, <2>6, <2>7 DEF StagedAgrees, IsWhole
  <2> QED BY <1>0, <2>1, <2>2, <2>3, <2>5, <2>8, StillStaging
<1> QED BY <1>1, <1>2, <1>3 DEF HostFileEnd

LEMMA EndFailsStays ==
  ASSUME InstallInv, TransferInv', HostEndFails
  PROVE  InstallInv'
<1>0. step = "idle" /\ step' = "idle" /\ UNCHANGED pruned
  BY DEF HostEndFails, Handler, hostVars
<1>1. CASE EndRefused /\ StoreUntouched
  BY <1>1, Untouched DEF HostEndFails, Handler, StoreUntouched, EndRefused,
                         Refuse
<1>2. CASE (EndRejected \/ EndFails) /\ StoreGivesUp(incomingDir, 0)
  BY <1>0, <1>2, GivesUp DEF EndRejected, EndFails, GiveUp, InstallInv
<1> QED BY <1>1, <1>2 DEF HostEndFails

-----------------------------------------------------------------------------
(* The commit.                                                              *)

\* A package that char_end accepts is complete in the staging area.
LEMMA WholeIsComplete ==
  ASSUME InstallInv, step = "idle", Whole, StagedManifestHolds(Names[staging])
  PROVE  HoldsPackage(incomingDir, staging)
<1>1. active /\ ~fileOpen /\ sawManifest
  BY DEF Whole
<1>2. filePath = NoFile
  BY <1>1 DEF InstallInv, TransferInv, FlagsOK
<1>3. Unmixed(incomingDir, staging)
  BY <1>1, <1>2, FilesAssumption DEF InstallInv, StagedAgrees, Unmixed
<1>4. incomingDir # NoDir /\ incomingDir[Manifest] # Missing
  BY <1>1, <1>2, FilesAssumption DEF InstallInv, StagedAgrees
<1>5. \A f \in Names[staging] : incomingDir[f] # Missing
  BY DEF StagedManifestHolds
<1> QED BY <1>3, <1>4, <1>5 DEF HoldsPackage, Complete

\* A step within the commit changes neither the transfer nor what is staged.
LEMMA CommitStays ==
  ASSUME InstallInv, TransferInv', NEW from, NEW to \in Committing,
         InCommit(from, to), active, incomingDir' \in Dir,
         CommitOK', Showable(activeDir', pruned')
  PROVE  InstallInv'
<1>1. step' = to /\ UNCHANGED <<active, staging>>
  BY DEF InCommit, vars, transferVars
<1>2. HostOK'
  BY <1>1 DEF InstallInv, HostOK, Steps, Committing, Deleting
<1>3. StagedAgrees'
  BY <1>1 DEF StagedAgrees, Committing
<1> QED BY <1>2, <1>3 DEF InstallInv

LEMMA CommitKeeps ==
  ASSUME InstallInv, TransferInv', Commit
  PROVE  InstallInv'
<1> USE DEF Committing
<1>1. CASE CommitBegins
  <2>1. HoldsPackage(incomingDir, staging) /\ active
    BY <1>1, WholeIsComplete DEF CommitBegins, InCommit, Whole
  <2>2. UNCHANGED <<incomingDir, activeDir, pruned, staging>>
        /\ step' = "setAside"
    BY <1>1 DEF CommitBegins, InCommit, RemovePrevious
  <2>3. CommitOK'
    BY <2>1, <2>2 DEF CommitOK, HoldsPackage, Complete, Unmixed, IsWhole
  <2>4. Showable(activeDir', pruned')
    BY <2>2 DEF InstallInv, Showable, Unmixed, Complete, IsWhole
  <2>5. incomingDir' \in Dir
    BY <2>2 DEF InstallInv
  <2>6. InCommit("idle", "setAside")
    BY <1>1 DEF CommitBegins
  <2> QED BY <2>1, <2>3, <2>4, <2>5, <2>6, CommitStays
<1>2. CASE CommitCannotBegin
  <2>1. /\ UNCHANGED <<incomingDir, activeDir, pruned>> /\ step' = "failed"
        /\ active
    BY <1>2 DEF CommitCannotBegin, InCommit, RemovePreviousFails, Whole
  <2>2. CommitOK'
    BY <2>1 DEF CommitOK
  <2>3. Showable(activeDir', pruned')
    BY <2>1 DEF InstallInv, Showable, Unmixed, Complete, IsWhole
  <2>4. incomingDir' \in Dir
    BY <2>1 DEF InstallInv
  <2>5. InCommit("idle", "failed")
    BY <1>2 DEF CommitCannotBegin
  <2> QED BY <2>1, <2>2, <2>3, <2>4, <2>5, CommitStays
<1>3. CASE CommitSetsAside
  <2>1. /\ step = "setAside" /\ step' = "putInPlace"
        /\ UNCHANGED <<incomingDir, pruned, staging>>
        /\ hadActive' = (activeDir # NoDir)
    BY <1>3 DEF CommitSetsAside, InCommit, SetAside, storeVars, dirs
  <2>2. active /\ HoldsPackage(incomingDir, staging)
    BY <2>1 DEF InstallInv, HostOK, CommitOK
  <2>3. /\ hadActive' => previousDir' = activeDir
        /\ activeDir' = NoDir
    BY <1>3 DEF CommitSetsAside, SetAside, storeVars, dirs
  <2>4. Showable(activeDir, pruned)
    BY DEF InstallInv
  <2>5. hadActive' => Showable(previousDir', pruned')
    BY <2>1, <2>3, <2>4 DEF Showable, Unmixed, Complete, IsWhole
  <2>6. HoldsPackage(incomingDir', staging')
    BY <2>1, <2>2 DEF HoldsPackage, Unmixed, Complete, IsWhole
  <2>7. CommitOK'
    BY <2>1, <2>5, <2>6 DEF CommitOK
  <2>8. Showable(activeDir', pruned')
    BY <2>3 DEF Showable
  <2>9. incomingDir' \in Dir /\ InCommit("setAside", "putInPlace")
    BY <1>3, <2>1 DEF InstallInv, CommitSetsAside
  <2> QED BY <2>2, <2>7, <2>8, <2>9, CommitStays
<1>4. CASE CommitCannotSetAside
  <2>1. /\ UNCHANGED <<incomingDir, activeDir, pruned>> /\ step' = "failed"
        /\ step = "setAside" /\ InCommit("setAside", "failed")
    BY <1>4 DEF CommitCannotSetAside, InCommit, RenameFails, dirs
  <2>2. CommitOK' /\ active
    BY <2>1 DEF CommitOK, InstallInv, HostOK
  <2>3. Showable(activeDir', pruned')
    BY <2>1 DEF InstallInv, Showable, Unmixed, Complete, IsWhole
  <2>4. incomingDir' \in Dir
    BY <2>1 DEF InstallInv
  <2> QED BY <2>1, <2>2, <2>3, <2>4, CommitStays
<1>5. CASE CommitPutsInPlace
  <2>1. /\ step = "putInPlace" /\ step' = "clean"
        /\ activeDir' = incomingDir /\ incomingDir' = NoDir
        /\ InCommit("putInPlace", "clean")
    BY <1>5 DEF CommitPutsInPlace, InCommit, PutInPlace
  <2>2. active /\ HoldsPackage(incomingDir, staging)
    BY <2>1 DEF InstallInv, HostOK, CommitOK
  <2>3. staging \in Packages
    BY <2>2 DEF InstallInv, HostOK
  <2>4. Showable(activeDir', pruned')
    BY <2>1, <2>2, <2>3
    DEF Showable, HoldsPackage, Unmixed, Complete, IsWhole
  <2>5. CommitOK' /\ incomingDir' \in Dir
    BY <2>1 DEF CommitOK, Dir
  <2> QED BY <2>1, <2>2, <2>4, <2>5, CommitStays
<1>6. CASE CommitCannotPutInPlace
  <2>1. /\ UNCHANGED <<dirs, pruned, hadActive, staging>>
        /\ step = "putInPlace"
        /\ step' = IF hadActive THEN "putBack" ELSE "failed"
        /\ InCommit("putInPlace", IF hadActive THEN "putBack" ELSE "failed")
    BY <1>6 DEF CommitCannotPutInPlace, InCommit, RenameFails
  <2>2. active /\ (hadActive => Showable(previousDir, pruned))
    BY <2>1 DEF InstallInv, HostOK, CommitOK
  <2>3. CommitOK'
    BY <2>1, <2>2 DEF CommitOK, dirs, Showable, Unmixed, Complete, IsWhole
  <2>4. Showable(activeDir', pruned')
    BY <2>1 DEF InstallInv, dirs, Showable, Unmixed, Complete, IsWhole
  <2>5. incomingDir' \in Dir
    BY <2>1 DEF InstallInv, dirs
  <2>6. (IF hadActive THEN "putBack" ELSE "failed") \in Committing
    OBVIOUS
  <2> QED BY <2>1, <2>2, <2>3, <2>4, <2>5, <2>6, CommitStays
<1>7. CASE CommitPutsBack
  <2>1. /\ step = "putBack" /\ step' = "failed"
        /\ InCommit("putBack", "failed") /\ UNCHANGED <<incomingDir, pruned>>
        /\ \/ activeDir' = previousDir
           \/ UNCHANGED activeDir
    BY <1>7 DEF CommitPutsBack, InCommit, PutBack, RenameFails, dirs
  <2>2. CommitOK' /\ active /\ incomingDir' \in Dir
    BY <2>1 DEF CommitOK, InstallInv, HostOK
  <2>3. Showable(activeDir, pruned) /\ Showable(previousDir, pruned)
    BY <2>1 DEF InstallInv, CommitOK
  <2>4. Showable(activeDir', pruned')
    BY <2>1, <2>3 DEF Showable, Unmixed, Complete, IsWhole
  <2> QED BY <2>1, <2>2, <2>4, CommitStays
<1>8. CASE CommitCleans
  <2>1. /\ step = "clean" /\ step' = "name" /\ InCommit("clean", "name")
        /\ UNCHANGED <<incomingDir, activeDir, pruned>>
    BY <1>8 DEF CommitCleans, InCommit, RemovePrevious, RemovePreviousFails
  <2>2. CommitOK' /\ active /\ incomingDir' \in Dir
    BY <2>1 DEF CommitOK, InstallInv, HostOK
  <2>3. Showable(activeDir', pruned')
    BY <2>1 DEF InstallInv, Showable, Unmixed, Complete, IsWhole
  <2> QED BY <2>1, <2>2, <2>3, CommitStays
<1>9. CASE CommitEnds
  <2>1. /\ step' = "idle" /\ ~active' /\ staging' = NoPackage
        /\ UNCHANGED <<incomingDir, activeDir, pruned>>
    BY <1>9 DEF CommitEnds, WriteName, WriteNameFails, EndOk, ResetTransfer,
                dirs
  <2>2. Showable(activeDir', pruned') /\ incomingDir' \in Dir
    BY <2>1 DEF InstallInv, Showable, Unmixed, Complete, IsWhole
  <2> QED BY <2>1, <2>2, IdleInactive
<1>10. CASE CommitFailed
  BY <1>10, GivesUp DEF CommitFailed, EndFails, GiveUp, InstallInv
<1> QED BY <1>1, <1>2, <1>3, <1>4, <1>5, <1>6, <1>7, <1>8, <1>9, <1>10
        DEF Commit

-----------------------------------------------------------------------------
(* The deletions, and a power loss.                                         *)

\* Removing files from the active directory keeps it showable.
LEMMA PruneKeeps ==
  ASSUME InstallInv, DeleteActive, Prune
  PROVE  Showable(activeDir', pruned')
<1>1. CASE activeDir' = NoDir
  BY <1>1 DEF Showable
<1>2. CASE activeDir' # NoDir
  <2>1. activeDir' \in Remains(activeDir)
    BY <1>2 DEF DeleteActive
  <2>2. activeDir # NoDir
    BY <2>1 DEF Remains
  <2>3. PICK p \in Packages :
          Unmixed(activeDir, p) /\ (Complete(activeDir, p) \/ pruned)
    BY <2>2 DEF InstallInv, Showable
  <2>4. Unmixed(activeDir, p)'
    BY <2>1, <2>3, RemainsUnmixed DEF Unmixed, IsWhole
  <2>5. activeDir' = activeDir \/ pruned'
    BY <1>2 DEF Prune
  <2>6. Complete(activeDir, p)' \/ pruned'
    BY <2>3, <2>5, <1>2 DEF Prune, Complete, Unmixed, IsWhole
  <2> QED BY <2>4, <2>6 DEF Showable, Unmixed, Complete, IsWhole
<1> QED BY <1>1, <1>2

LEMMA DeletionKeeps ==
  ASSUME InstallInv, TransferInv', Deletion
  PROVE  InstallInv'
<1>1. ASSUME NEW first \in {"deleteIncoming", "wipe"}, DeletionBegins(first)
      PROVE InstallInv'
  <2>1. /\ step' \in Deleting /\ staging' = NoPackage /\ ~active'
        /\ UNCHANGED <<activeDir, pruned>>
    BY <1>1 DEF DeletionBegins, Deleting, Abort, ResetTransfer, StoreAbort,
                storeVars, dirs
  <2>2. incomingDir' \in Dir
    BY <1>1, AbortTyped DEF DeletionBegins, InstallInv, storeVars, dirs
  <2>3. Showable(activeDir', pruned')
    BY <2>1 DEF InstallInv, Showable, Unmixed, Complete, IsWhole
  <2> QED BY <2>1, <2>2, <2>3, BusyDeleting
<1>2. CASE DeletesIncoming
  <2>1. /\ step' = "deleteActive" /\ UNCHANGED <<activeDir, pruned>>
        /\ UNCHANGED <<staging, active>>
    BY <1>2 DEF DeletesIncoming, InDeletion, DeleteIncoming, vars,
                transferVars
  <2>2. incomingDir' \in Dir
    BY <1>2, RemainsTyped DEF DeletesIncoming, DeleteIncoming, InstallInv, Dir
  <2>3. Showable(activeDir', pruned')
    BY <2>1 DEF InstallInv, Showable, Unmixed, Complete, IsWhole
  <2>4. step' \in Deleting
        /\ ~active' /\ staging' = NoPackage
    BY <1>2, <2>1 DEF DeletesIncoming, InDeletion, Deleting, InstallInv, HostOK
  <2> QED BY <2>2, <2>3, <2>4, BusyDeleting
<1>3. CASE DeletesActive
  <2>1. /\ step' = "deletePrevious" /\ UNCHANGED <<staging, active>>
        /\ UNCHANGED incomingDir
    BY <1>3 DEF DeletesActive, InDeletion, DeleteActive, vars, transferVars
  <2>2. Showable(activeDir', pruned')
    BY <1>3, PruneKeeps DEF DeletesActive
  <2>3. step' \in Deleting /\ incomingDir' \in Dir
        /\ ~active' /\ staging' = NoPackage
    BY <1>3, <2>1 DEF DeletesActive, InDeletion, Deleting, InstallInv, HostOK
  <2> QED BY <2>2, <2>3, BusyDeleting
<1>4. CASE DeletesPrevious
  <2>1. /\ step' = "deleteName" /\ UNCHANGED <<activeDir, pruned>>
        /\ UNCHANGED <<staging, active, incomingDir>>
    BY <1>4 DEF DeletesPrevious, InDeletion, DeletePrevious, vars,
                transferVars
  <2>2. Showable(activeDir', pruned')
    BY <2>1 DEF InstallInv, Showable, Unmixed, Complete, IsWhole
  <2>3. step' \in Deleting /\ incomingDir' \in Dir
        /\ ~active' /\ staging' = NoPackage
    BY <1>4, <2>1 DEF DeletesPrevious, InDeletion, Deleting, InstallInv, HostOK
  <2> QED BY <2>2, <2>3, BusyDeleting
<1>5. CASE DeletesName
  <2>1. /\ step' = "idle" /\ ~active' /\ step = "deleteName"
        /\ UNCHANGED <<activeDir, pruned, incomingDir, staging>>
    BY <1>5 DEF DeletesName, InDeletion, DeleteName, Reset, ResetTransfer,
                dirs
  <2>2. Showable(activeDir', pruned') /\ incomingDir' \in Dir
    BY <2>1 DEF InstallInv, Showable, Unmixed, Complete, IsWhole
  <2>3. staging' = NoPackage
    BY <2>1 DEF InstallInv, HostOK, Deleting
  <2> QED BY <2>1, <2>2, <2>3, IdleInactive
<1>6. CASE Wipe
  <2>1. /\ step' = "wipe" /\ UNCHANGED <<staging, active>>
    BY <1>6 DEF Wipe, InDeletion, vars, transferVars
  <2>2. \/ DeleteIncoming /\ UNCHANGED pruned
        \/ DeleteActive /\ Prune
        \/ DeletePrevious /\ UNCHANGED pruned
        \/ DeleteName /\ UNCHANGED pruned
    BY <1>6 DEF Wipe
  <2>3. incomingDir' \in Dir
    BY <2>2, RemainsTyped
    DEF InstallInv, Dir, DeleteIncoming, DeleteActive, DeletePrevious,
        DeleteName, dirs
  <2>4. Showable(activeDir', pruned')
    <3>1. CASE DeleteActive /\ Prune
      BY <3>1, PruneKeeps
    <3>2. CASE UNCHANGED <<activeDir, pruned>>
      BY <3>2 DEF InstallInv, Showable, Unmixed, Complete, IsWhole
    <3> QED BY <2>2, <3>1, <3>2
            DEF DeleteIncoming, DeletePrevious, DeleteName, dirs
  <2>5. step' \in Deleting
        /\ ~active' /\ staging' = NoPackage
    BY <1>6, <2>1 DEF Wipe, InDeletion, Deleting, InstallInv, HostOK
  <2> QED BY <2>3, <2>4, <2>5, BusyDeleting
<1>7. ASSUME NEW ok \in BOOLEAN, WipeEnds(ok) PROVE InstallInv'
  <2>1. /\ step' = "idle" /\ ~active' /\ step = "wipe"
        /\ UNCHANGED <<activeDir, pruned, incomingDir, staging>>
    BY <1>7 DEF WipeEnds, Reset, ResetTransfer, storeVars, dirs
  <2>2. Showable(activeDir', pruned') /\ incomingDir' \in Dir
    BY <2>1 DEF InstallInv, Showable, Unmixed, Complete, IsWhole
  <2>3. staging' = NoPackage
    BY <2>1 DEF InstallInv, HostOK, Deleting
  <2> QED BY <2>1, <2>2, <2>3, IdleInactive
<1> QED BY <1>1, <1>2, <1>3, <1>4, <1>5, <1>6, <1>7 DEF Deletion

LEMMA PowerLossKeeps ==
  ASSUME InstallInv, TransferInv', PowerLoss
  PROVE  InstallInv'
<1>1. /\ step' = "idle" /\ ~active' /\ staging' = NoPackage
      /\ UNCHANGED <<activeDir, pruned, incomingDir>>
  BY DEF PowerLoss, Abort, ResetTransfer, dirs
<1>2. Showable(activeDir', pruned') /\ incomingDir' \in Dir
  BY <1>1 DEF InstallInv, Showable, Unmixed, Complete, IsWhole
<1> QED BY <1>1, <1>2, IdleInactive

-----------------------------------------------------------------------------
LEMMA InstallInitial == InstallInit => InstallInv
<1> SUFFICES ASSUME InstallInit PROVE InstallInv
  OBVIOUS
<1>1. TransferInv
  BY TransferInit DEF InstallInit
<1>2. active = FALSE
  BY DEF InstallInit, Init
<1> QED BY <1>1, <1>2
        DEF InstallInit, InstallInv, StoreInit, Dir, HostOK, Steps,
            Committing, Deleting, StagedAgrees, CommitOK, Showable

LEMMA InstallStep == InstallInv /\ [InstallNext]_installVars => InstallInv'
<1> SUFFICES ASSUME InstallInv, [InstallNext]_installVars PROVE InstallInv'
  OBVIOUS
<1>1. TransferInv'
  BY InstallStepsTransfer, TransferStep DEF InstallInv
<1>2. CASE Transfer
  BY <1>1, <1>2, BeginStays, FileStays, ChunkStays, FileEndStays,
     EndFailsStays
  DEF Transfer
<1>3. CASE Commit
  BY <1>1, <1>3, CommitKeeps
<1>4. CASE Deletion
  BY <1>1, <1>4, DeletionKeeps
<1>5. CASE PowerLoss
  BY <1>1, <1>5, PowerLossKeeps
<1>6. CASE UNCHANGED installVars
  BY <1>1, <1>6, Untouched DEF installVars, vars, storeVars, hostVars
<1> QED BY <1>2, <1>3, <1>4, <1>5, <1>6 DEF InstallNext

\* Whatever fails and whenever power is lost, the package on its way agrees
\* with its counters and the active directory is showable.
THEOREM InstallInvariant == InstallSpec => []InstallInv
BY InstallInitial, InstallStep, PTL DEF InstallSpec

\* The directory the display reads never mixes two packages, never has a file
\* that is not whole, and is complete unless a deletion was cut short.
THEOREM ActiveIsPackageHolds == InstallSpec => []ActiveIsPackage
<1>1. InstallInv => ActiveIsPackage
  BY DEF InstallInv, Showable, ActiveIsPackage
<1> QED BY <1>1, InstallInvariant, PTL

\* What the protocol counts is what is on the file system.
THEOREM StagedAgreesHolds == InstallSpec => []StagedAgrees
<1>1. InstallInv => StagedAgrees
  BY DEF InstallInv
<1> QED BY <1>1, InstallInvariant, PTL

-----------------------------------------------------------------------------
(* What an acknowledged deletion leaves.                                     *)

Gone == activeDir = NoDir /\ previousDir = NoDir /\ activeName = NoPackage
SaysDeleted == ack.cmd \in ResetCommands /\ ack.ok

\* The inductive invariant.  A deletion that is acknowledged stays true until the
\* next package begins, whose acknowledgement takes the place of its own; while one
\* goes on and has met no failure, what it has passed is gone.
GoneInv ==
  /\ faults \in Nat
  /\ SaysDeleted => Gone /\ ~active
  /\ allOk /\ step \in {"deletePrevious", "deleteName"} => activeDir = NoDir
  /\ allOk /\ step = "deleteName" => previousDir = NoDir

LEMMA InitGone == InstallInit => GoneInv
  BY DEF InstallInit, Init, StoreInit, GoneInv, SaysDeleted, ResetCommands

\* The handlers of the transfer stay out of the two directories and acknowledge
\* in their own names.
LEMMA AbortCounts ==
  ASSUME faults \in Nat, NEW d, NEW n \in Nat, StoreAbort(d, n)
  PROVE  faults' \in Nat /\ UNCHANGED <<activeDir, previousDir, activeName>>
  BY DEF StoreAbort

LEMMA HandlerStays ==
  ASSUME faults \in Nat, Transfer
  PROVE  /\ UNCHANGED <<activeDir, previousDir, activeName>> /\ step = "idle" /\ step' = "idle"
         /\ faults' \in Nat
         /\ ~SaysDeleted'
<1>1. ASSUME NEW p \in Packages, NEW total \in Field, HostBegin(p, total)
      PROVE  /\ UNCHANGED <<activeDir, previousDir, activeName>> /\ step = "idle" /\ step' = "idle"
             /\ faults' \in Nat
             /\ ~SaysDeleted'
  BY <1>1
  DEF HostBegin, Handler, hostVars, BeginRefused, BeginNoSpace, BeginOk, Refuse, Ack,
      StoreUntouched, storeVars, dirs, StoreBeginFails, StoreBegin, Fault, NoFault,
      SaysDeleted, ResetCommands
<1>2. ASSUME NEW path \in Files \cup {NoFile}, NEW size \in Field, HostFile(path, size)
      PROVE  /\ UNCHANGED <<activeDir, previousDir, activeName>> /\ step = "idle" /\ step' = "idle"
             /\ faults' \in Nat
             /\ ~SaysDeleted'
  BY <1>2, AbortCounts
  DEF HostFile, Handler, hostVars, FileRefused, FileRejected, FileOpenFails, FileOk,
      Refuse, GiveUp, Ack, StoreUntouched, storeVars, dirs, StoreGivesUp, StoreOpen,
      NoFault, SaysDeleted, ResetCommands
<1>3. ASSUME NEW len \in Field, HostChunk(len)
      PROVE  /\ UNCHANGED <<activeDir, previousDir, activeName>> /\ step = "idle" /\ step' = "idle"
             /\ faults' \in Nat
             /\ ~SaysDeleted'
  BY <1>3, AbortCounts
  DEF HostChunk, Handler, hostVars, ChunkRefused, ChunkRejected, ChunkWriteFails, ChunkOk,
      Refuse, GiveUp, Ack, StoreUntouched, storeVars, dirs, StoreGivesUp, StoreWrite,
      NoFault, SaysDeleted, ResetCommands
<1>4. ASSUME NEW reported \in Field \cup {Absent}, HostFileEnd(reported)
      PROVE  /\ UNCHANGED <<activeDir, previousDir, activeName>> /\ step = "idle" /\ step' = "idle"
             /\ faults' \in Nat
             /\ ~SaysDeleted'
  BY <1>4, AbortCounts
  DEF HostFileEnd, Handler, hostVars, FileEndRefused, FileEndRejected, FileEndOk,
      Refuse, GiveUp, Ack, StoreUntouched, storeVars, dirs, StoreGivesUp, StoreClose,
      NoFault, SaysDeleted, ResetCommands
<1>5. ASSUME HostEndFails
      PROVE  /\ UNCHANGED <<activeDir, previousDir, activeName>> /\ step = "idle" /\ step' = "idle"
             /\ faults' \in Nat
             /\ ~SaysDeleted'
  BY <1>5, AbortCounts
  DEF HostEndFails, Handler, hostVars, EndRefused, EndRejected, EndFails,
      Refuse, GiveUp, Ack, StoreUntouched, storeVars, dirs, StoreGivesUp,
      SaysDeleted, ResetCommands
<1> QED
  BY <1>1, <1>2, <1>3, <1>4, <1>5 DEF Transfer

LEMMA HandlerLeaves ==
  ASSUME Transfer
  PROVE  /\ UNCHANGED <<activeDir, previousDir, activeName>>
         /\ step = "idle" /\ step' = "idle" /\ UNCHANGED crashes
<1>1. Handler
  BY DEF Transfer, HostBegin, HostFile, HostChunk, HostFileEnd, HostEndFails
<1>2. step = "idle" /\ step' = "idle" /\ UNCHANGED crashes
  BY <1>1 DEF Handler, hostVars
<1>3. UNCHANGED <<activeDir, previousDir, activeName>>
  BY DEF Transfer, HostBegin, HostFile, HostChunk, HostFileEnd, HostEndFails,
     StoreUntouched, StoreGivesUp, StoreAbort, StoreBegin, StoreBeginFails, StoreOpen,
     StoreWrite, StoreClose, storeVars, dirs
<1> QED
  BY <1>2, <1>3

LEMMA TransferGone == GoneInv /\ Transfer => GoneInv'
  BY HandlerStays DEF GoneInv

\* A commit runs with a package received, so no deletion is the last answer.
LEMMA CommitGone ==
  ASSUME GoneInv, step \in Committing => active, Commit
  PROVE  GoneInv'
<1>1. faults' \in Nat
  BY AbortCounts
  DEF GoneInv, Commit, CommitBegins, CommitCannotBegin, CommitSetsAside,
      CommitCannotSetAside, CommitPutsInPlace, CommitCannotPutInPlace, CommitPutsBack,
      CommitCleans, CommitEnds, CommitFailed, RemovePrevious, RemovePreviousFails,
      SetAside, PutInPlace, PutBack, RenameFails, WriteName, WriteNameFails,
      StoreGivesUp, Fault, NoFault, storeVars
<1>2. step' \notin {"deletePrevious", "deleteName"}
  BY DEF Commit, CommitBegins, CommitCannotBegin, CommitSetsAside, InCommit,
      CommitCannotSetAside, CommitPutsInPlace, CommitCannotPutInPlace, CommitPutsBack,
      CommitCleans, CommitEnds, CommitFailed
<1>3. active
  BY DEF Commit, CommitBegins, CommitCannotBegin, CommitSetsAside, InCommit, Whole,
      CommitCannotSetAside, CommitPutsInPlace, CommitCannotPutInPlace, CommitPutsBack,
      CommitCleans, CommitEnds, CommitFailed, EndOk, EndFails, Committing
<1>4. ~SaysDeleted
  BY <1>3 DEF GoneInv
<1>5. ack' = ack \/ ack'.cmd = "char_end"
  BY DEF Commit, CommitBegins, CommitCannotBegin, CommitSetsAside, InCommit, vars,
      CommitCannotSetAside, CommitPutsInPlace, CommitCannotPutInPlace, CommitPutsBack,
      CommitCleans, CommitEnds, CommitFailed, EndOk, EndFails, GiveUp, Ack
<1>6. ~SaysDeleted'
  BY <1>4, <1>5 DEF SaysDeleted, ResetCommands
<1> QED
  BY <1>1, <1>2, <1>6 DEF GoneInv

LEMMA NothingRemains == Remains(NoDir) = {}
  BY DEF Remains

LEMMA DeletionGone ==
  ASSUME GoneInv, step \in Deleting => ~active, Deletion
  PROVE  GoneInv'
<1> USE DEF GoneInv
<1>0. ASSUME NEW from, NEW to, InDeletion(from, to)
      PROVE  allOk' => allOk /\ faults' = faults
  BY <1>0 DEF InDeletion
<1>1. ASSUME NEW first \in {"deleteIncoming", "wipe"}, DeletionBegins(first)
      PROVE  GoneInv'
  BY <1>1, AbortCounts
  DEF DeletionBegins, Abort, ResetTransfer, storeVars, dirs, SaysDeleted, Gone
<1>2. CASE DeletesIncoming
  <2>1. /\ step' = "deleteActive" /\ UNCHANGED <<ack, active, activeDir, previousDir, activeName>>
        /\ faults' \in Nat
    BY <1>2
    DEF DeletesIncoming, DeleteIncoming, InDeletion, Fault, NoFault, vars, transferVars
  <2> QED BY <2>1 DEF SaysDeleted, Gone
<1>3. CASE DeletesActive
  <2>1. /\ step' = "deletePrevious" /\ UNCHANGED <<ack, active, previousDir, activeName>>
        /\ faults' \in Nat
        /\ activeDir' = NoDir \/ (faults' = faults + 1 /\ activeDir # NoDir)
    BY <1>3, NothingRemains
    DEF DeletesActive, DeleteActive, InDeletion, Fault, NoFault, vars, transferVars
  <2>2. allOk' => faults' = faults
    BY <1>0, <1>3 DEF DeletesActive
  <2> QED BY <2>1, <2>2 DEF SaysDeleted, Gone
<1>4. CASE DeletesPrevious
  <2>1. /\ step = "deletePrevious" /\ step' = "deleteName"
        /\ UNCHANGED <<ack, active, activeDir, activeName>>
        /\ faults' \in Nat
        /\ previousDir' = NoDir \/ (faults' = faults + 1 /\ previousDir # NoDir)
    BY <1>4, NothingRemains
    DEF DeletesPrevious, DeletePrevious, InDeletion, Fault, NoFault, vars, transferVars
  <2>2. allOk' => allOk /\ faults' = faults
    BY <1>0, <1>4 DEF DeletesPrevious
  <2> QED BY <2>1, <2>2 DEF SaysDeleted, Gone
<1>5. CASE DeletesName
  <2>1. /\ step = "deleteName" /\ step' = "idle" /\ UNCHANGED <<activeDir, previousDir>>
        /\ active' = FALSE /\ ack'.ok = allOk'
        /\ faults' \in Nat
        /\ activeName' = NoPackage \/ faults' = faults + 1
    BY <1>5
    DEF DeletesName, DeleteName, InDeletion, Fault, NoFault, Reset, Ack, ResetTransfer, dirs
  <2>2. allOk' => allOk /\ faults' = faults
    BY <1>0, <1>5 DEF DeletesName
  <2>3. SaysDeleted' => allOk'
    BY <2>1 DEF SaysDeleted
  <2> QED BY <2>1, <2>2, <2>3 DEF Gone
<1>6. CASE Wipe
  BY <1>6, NothingRemains
  DEF Wipe, DeleteIncoming, DeleteActive, DeletePrevious, DeleteName, InDeletion,
      Fault, NoFault, vars, transferVars, dirs, SaysDeleted, Gone
<1>7. ASSUME NEW ok \in BOOLEAN, WipeEnds(ok)
      PROVE  GoneInv'
  BY <1>7
  DEF WipeEnds, Wiped, Reset, Ack, ResetTransfer, storeVars, dirs, SaysDeleted, Gone
<1> QED
  BY <1>1, <1>2, <1>3, <1>4, <1>5, <1>6, <1>7 DEF Deletion

LEMMA NextGone ==
  ASSUME GoneInv, HostOK, [InstallNext]_installVars
  PROVE  GoneInv'
<1>1. CASE PowerLoss
  BY <1>1 DEF PowerLoss, Abort, ResetTransfer, dirs, GoneInv, SaysDeleted, Gone
<1>2. CASE UNCHANGED installVars
  BY <1>2
  DEF installVars, storeVars, dirs, hostVars, vars, transferVars, GoneInv, SaysDeleted, Gone
<1> QED
  BY <1>1, <1>2, TransferGone, CommitGone, DeletionGone DEF InstallNext, HostOK

\* A deletion that is acknowledged has left no character, and none that a later
\* failure could bring back, wherever file calls fail and power is lost.
THEOREM DeletedIsGoneHolds == InstallSpec => []DeletedIsGone
<1>1. InstallInv /\ GoneInv /\ [InstallNext]_installVars => GoneInv'
  BY NextGone DEF InstallInv
<1>2. GoneInv => DeletedIsGone
  BY DEF GoneInv, SaysDeleted, Gone, DeletedIsGone
<1> QED
  BY <1>1, <1>2, InitGone, InstallInvariant, PTL DEF InstallSpec

-----------------------------------------------------------------------------
(* Whose name is shown.                                                      *)

LEMMA OnePackage ==
  ASSUME NEW d, NEW p \in Packages, HoldsPackage(d, p)
  PROVE  PackageIn(d) = p
<1>1. ASSUME NEW q \in Packages, HoldsPackage(d, q)
      PROVE  q = p
  BY <1>1, FilesAssumption DEF HoldsPackage, Complete, Unmixed, IsWhole
<1> QED
  BY <1>1 DEF PackageIn

LEMMA NoPackageIn == PackageIn(NoDir) = NoPackage
  BY DEF PackageIn, HoldsPackage

\* The inductive invariant: as long as nothing has failed, the name is that of the
\* active directory but for the steps of a commit or of a deletion between the
\* directory and the name, which know what the directory holds.
NothingFailed == faults = 0 /\ crashes = 0

NameInv ==
  /\ faults \in Nat /\ crashes \in Nat
  /\ NothingFailed =>
       /\ allOk
       /\ step \notin {"putBack", "failed"}
       /\ step \in {"idle", "setAside", "deleteIncoming", "deleteActive"} =>
            activeName = PackageIn(activeDir)
       /\ step \in {"clean", "name"} => HoldsPackage(activeDir, staging)
       /\ step \in {"deletePrevious", "deleteName"} => activeDir = NoDir

LEMMA InitName == InstallInit => NameInv
  BY NoPackageIn DEF InstallInit, StoreInit, NameInv

\* Nothing is undone: without a failure after a step there was none before.
LEMMA TransferCounts ==
  ASSUME faults \in Nat, Transfer
  PROVE  UNCHANGED <<allOk, crashes>> /\ faults' >= faults
<1>1. ASSUME NEW d, NEW n \in Nat, StoreAbort(d, n)
      PROVE  faults' >= faults
  BY <1>1 DEF StoreAbort
<1>2. UNCHANGED <<allOk, crashes>>
  BY DEF Transfer, HostBegin, HostFile, HostChunk, HostFileEnd, HostEndFails, Handler,
         hostVars
<1>3. ASSUME NEW p \in Packages, NEW total \in Field, HostBegin(p, total)
      PROVE  faults' >= faults
  BY <1>3 DEF HostBegin, StoreUntouched, storeVars, StoreBeginFails, StoreBegin, Fault, NoFault
<1>4. ASSUME NEW path \in Files \cup {NoFile}, NEW size \in Field, HostFile(path, size)
      PROVE  faults' >= faults
  BY <1>1, <1>4 DEF HostFile, StoreUntouched, storeVars, StoreGivesUp, StoreOpen, NoFault
<1>5. ASSUME NEW len \in Field, HostChunk(len)
      PROVE  faults' >= faults
  BY <1>1, <1>5 DEF HostChunk, StoreUntouched, storeVars, StoreGivesUp, StoreWrite, NoFault
<1>6. ASSUME NEW reported \in Field \cup {Absent}, HostFileEnd(reported)
      PROVE  faults' >= faults
  BY <1>1, <1>6 DEF HostFileEnd, StoreUntouched, storeVars, StoreGivesUp, StoreClose, NoFault
<1>7. ASSUME HostEndFails
      PROVE  faults' >= faults
  BY <1>1, <1>7 DEF HostEndFails, StoreUntouched, storeVars, StoreGivesUp
<1> QED
  BY <1>2, <1>3, <1>4, <1>5, <1>6, <1>7 DEF Transfer

LEMMA TransferName == NameInv /\ Transfer => NameInv'
<1> SUFFICES ASSUME NameInv, Transfer
             PROVE  NameInv'
  OBVIOUS
<1>1. /\ UNCHANGED <<activeDir, activeName, allOk, crashes>>
      /\ step = "idle" /\ step' = "idle" /\ faults' \in Nat /\ faults' >= faults
  BY HandlerStays, TransferCounts DEF NameInv
<1>2. NothingFailed' => NothingFailed
  BY <1>1 DEF NothingFailed, NameInv
<1>3. PackageIn(activeDir)' = PackageIn(activeDir)
  BY <1>1 DEF PackageIn, HoldsPackage, Complete, Unmixed, IsWhole
<1> QED
  BY <1>1, <1>2, <1>3 DEF NameInv

LEMMA CommitName ==
  ASSUME NameInv, HostOK, CommitOK, Commit
  PROVE  NameInv'
<1>1. UNCHANGED <<allOk, crashes>>
  BY DEF Commit, CommitBegins, CommitCannotBegin, CommitSetsAside, InCommit,
      CommitCannotSetAside, CommitPutsInPlace, CommitCannotPutInPlace, CommitPutsBack,
      CommitCleans, CommitEnds, CommitFailed
<1>2. CASE CommitBegins
  <2>1. /\ step = "idle" /\ step' = "setAside" /\ UNCHANGED <<activeDir, activeName, faults>>
    BY <1>2 DEF CommitBegins, InCommit, RemovePrevious, NoFault
  <2> QED
    BY <1>1, <2>1 DEF NameInv, NothingFailed, PackageIn, HoldsPackage, Complete, Unmixed, IsWhole
<1>3. CASE CommitSetsAside
  <2>1. step' = "putInPlace" /\ UNCHANGED faults
    BY <1>3 DEF CommitSetsAside, InCommit, SetAside, NoFault, storeVars
  <2> QED
    BY <1>1, <2>1 DEF NameInv, NothingFailed
<1>4. CASE CommitPutsInPlace
  <2>1. /\ step = "putInPlace" /\ step' = "clean" /\ UNCHANGED <<faults, staging>>
        /\ activeDir' = incomingDir
    BY <1>4 DEF CommitPutsInPlace, InCommit, PutInPlace, NoFault
  <2>2. HoldsPackage(activeDir, staging)'
    BY <2>1 DEF CommitOK, HoldsPackage, Complete, Unmixed, IsWhole
  <2> QED
    BY <1>1, <2>1, <2>2 DEF NameInv, NothingFailed
<1>5. CASE CommitCannotBegin \/ CommitCannotSetAside \/ CommitCannotPutInPlace
  <2>1. faults' = faults + 1
    BY <1>5 DEF CommitCannotBegin, CommitCannotSetAside, CommitCannotPutInPlace,
                RemovePreviousFails, RenameFails, Fault
  <2> QED
    BY <1>1, <2>1 DEF NameInv, NothingFailed
<1>6. CASE CommitPutsBack \/ CommitFailed
  <2>1. step \in {"putBack", "failed"}
    BY <1>6 DEF CommitPutsBack, CommitFailed, InCommit
  <2>2. faults' \in Nat /\ faults' >= faults
    BY <1>6 DEF CommitPutsBack, CommitFailed, PutBack, RenameFails, Fault, NoFault,
                StoreGivesUp, StoreAbort, NameInv
  <2> QED
    BY <1>1, <2>1, <2>2 DEF NameInv, NothingFailed
<1>7. CASE CommitCleans
  <2>1. /\ step = "clean" /\ step' = "name" /\ UNCHANGED <<activeDir, staging>>
        /\ faults' \in {faults, faults + 1}
    BY <1>7 DEF CommitCleans, InCommit, RemovePrevious, RemovePreviousFails, Fault, NoFault
  <2>2. HoldsPackage(activeDir, staging) => HoldsPackage(activeDir, staging)'
    BY <2>1 DEF HoldsPackage, Complete, Unmixed, IsWhole
  <2> QED
    BY <1>1, <2>1, <2>2 DEF NameInv, NothingFailed
<1>8. CASE CommitEnds
  <2>1. /\ step = "name" /\ step' = "idle" /\ UNCHANGED activeDir
        /\ \/ faults' = faults + 1
           \/ faults' = faults /\ activeName' = staging
    BY <1>8 DEF CommitEnds, WriteName, WriteNameFails, Fault, NoFault, dirs
  <2>2. staging \in Packages
    BY <2>1 DEF HostOK, Committing
  <2>3. HoldsPackage(activeDir, staging) => PackageIn(activeDir) = staging
    BY <2>2, OnePackage
  <2>4. PackageIn(activeDir)' = PackageIn(activeDir)
    BY <2>1 DEF PackageIn, HoldsPackage, Complete, Unmixed, IsWhole
  <2> QED
    BY <1>1, <2>1, <2>3, <2>4 DEF NameInv, NothingFailed
<1> QED
  BY <1>2, <1>3, <1>4, <1>5, <1>6, <1>7, <1>8 DEF Commit

LEMMA DeletionName ==
  ASSUME NameInv, Deletion
  PROVE  NameInv'
<1>1. ASSUME NEW first \in {"deleteIncoming", "wipe"}, DeletionBegins(first)
      PROVE  NameInv'
  <2>1. /\ step = "idle" /\ step' = first /\ allOk' = TRUE
        /\ UNCHANGED <<activeDir, activeName, crashes>>
        /\ faults' \in Nat /\ faults' >= faults
    BY <1>1 DEF DeletionBegins, StoreAbort, storeVars, dirs, NameInv
  <2>2. PackageIn(activeDir)' = PackageIn(activeDir)
    BY <2>1 DEF PackageIn, HoldsPackage, Complete, Unmixed, IsWhole
  <2> QED
    BY <2>1, <2>2 DEF NameInv, NothingFailed
<1>2. CASE DeletesIncoming
  <2>1. /\ step = "deleteIncoming" /\ step' = "deleteActive"
        /\ UNCHANGED <<activeDir, activeName, crashes>>
        /\ \/ faults' = faults + 1
           \/ faults' = faults /\ (allOk => allOk')
    BY <1>2 DEF DeletesIncoming, DeleteIncoming, InDeletion, Fault, NoFault
  <2>2. PackageIn(activeDir)' = PackageIn(activeDir)
    BY <2>1 DEF PackageIn, HoldsPackage, Complete, Unmixed, IsWhole
  <2> QED
    BY <2>1, <2>2 DEF NameInv, NothingFailed
<1>3. CASE DeletesActive
  <2>1. /\ step' = "deletePrevious" /\ UNCHANGED crashes
        /\ \/ faults' = faults + 1
           \/ faults' = faults /\ (allOk => allOk') /\ activeDir' = NoDir
    BY <1>3 DEF DeletesActive, DeleteActive, InDeletion, Fault, NoFault
  <2>2. step = "deleteActive"
    BY <1>3 DEF DeletesActive, InDeletion
  <2> QED
    BY <2>1, <2>2 DEF NameInv, NothingFailed
<1>4. CASE DeletesPrevious
  <2>1. /\ step = "deletePrevious" /\ step' = "deleteName" /\ UNCHANGED <<activeDir, crashes>>
        /\ \/ faults' = faults + 1
           \/ faults' = faults /\ (allOk => allOk')
    BY <1>4 DEF DeletesPrevious, DeletePrevious, InDeletion, Fault, NoFault
  <2> QED
    BY <2>1 DEF NameInv, NothingFailed
<1>5. CASE DeletesName
  <2>1. /\ step = "deleteName" /\ step' = "idle" /\ UNCHANGED <<activeDir, crashes>>
        /\ \/ faults' = faults + 1
           \/ faults' = faults /\ (allOk => allOk') /\ activeName' = NoPackage
    BY <1>5 DEF DeletesName, DeleteName, InDeletion, Fault, NoFault, dirs
  <2>2. activeDir = NoDir => PackageIn(activeDir)' = NoPackage
    BY <2>1, NoPackageIn DEF PackageIn, HoldsPackage
  <2> QED
    BY <2>1, <2>2 DEF NameInv, NothingFailed
<1>6. CASE Wipe
  <2>1. /\ step = "wipe" /\ step' = "wipe" /\ UNCHANGED crashes
        /\ \/ faults' = faults + 1
           \/ faults' = faults /\ (allOk => allOk')
    BY <1>6 DEF Wipe, DeleteIncoming, DeleteActive, DeletePrevious, DeleteName, InDeletion,
                Fault, NoFault
  <2> QED
    BY <2>1 DEF NameInv, NothingFailed
<1>7. ASSUME NEW ok \in BOOLEAN, WipeEnds(ok)
      PROVE  NameInv'
  <2>1. /\ step' = "idle" /\ UNCHANGED <<activeDir, activeName, crashes, faults, allOk>>
        /\ allOk => activeDir = NoDir /\ activeName = NoPackage
    BY <1>7 DEF WipeEnds, Wiped, storeVars, dirs
  <2>2. activeDir = NoDir => PackageIn(activeDir)' = NoPackage
    BY <2>1, NoPackageIn DEF PackageIn, HoldsPackage
  <2> QED
    BY <2>1, <2>2 DEF NameInv, NothingFailed
<1> QED
  BY <1>1, <1>2, <1>3, <1>4, <1>5, <1>6, <1>7 DEF Deletion

LEMMA NextName ==
  ASSUME NameInv, HostOK, CommitOK, [InstallNext]_installVars
  PROVE  NameInv'
<1>1. CASE PowerLoss
  BY <1>1 DEF PowerLoss, NameInv, NothingFailed
<1>2. CASE UNCHANGED installVars
  BY <1>2
  DEF installVars, storeVars, dirs, hostVars, NameInv, NothingFailed, PackageIn,
      HoldsPackage, Complete, Unmixed, IsWhole
<1> QED
  BY <1>1, <1>2, TransferName, CommitName, DeletionName DEF InstallNext

\* As long as no file call fails and power stays, the name that is shown is that of
\* the character that is shown.
THEOREM NameIsOfActiveHolds == InstallSpec => []NameIsOfActive
<1>1. InstallInv /\ NameInv /\ [InstallNext]_installVars => NameInv'
  BY NextName DEF InstallInv
<1>2. NameInv => NameIsOfActive
  BY DEF NameInv, NothingFailed, NameIsOfActive, Shown
<1> QED
  BY <1>1, <1>2, InitName, InstallInvariant, PTL DEF InstallSpec

-----------------------------------------------------------------------------
(* The abstract slot.                                                       *)

LEMMA ShownNext ==
  Shown' = IF hadActive' /\ step' \in {"putInPlace", "putBack"}
           THEN PackageIn(previousDir')
           ELSE PackageIn(activeDir')
  BY DEF Shown, PackageIn, HoldsPackage, Complete, Unmixed, IsWhole

\* The package that the slot counts as staged.
Staged == IF step \in {"clean", "name"} THEN NoPackage ELSE staging

LEMMA DoingIs ==
  /\ Doing("putInPlace") = "replacing"
  /\ Doing("putBack") = "undoing"
  /\ \A at \in Deleting : Doing(at) = "deleting"
  /\ \A at : at \notin {"putInPlace", "putBack"} \cup Deleting => Doing(at) = "nothing"
  BY Zenon DEF Doing, Deleting

\* Between its renamings a commit has no active directory: what it set aside, if
\* there was anything, is all there is.
SlotInv == step \in {"putInPlace", "putBack"} => activeDir = NoDir

LEMMA SlotKept ==
  ASSUME Shown' = Shown, Staged' = Staged, Doing(step') = Doing(step)
  PROVE  [Slot!Next]_Slot!slotVars
  BY DEF Staged, Slot!slotVars

\* A package is given up while nothing else is done.
LEMMA SlotFails ==
  ASSUME Shown' = Shown, Staged' \in {Staged, NoPackage},
         Doing(step) = "nothing", Doing(step') = "nothing"
  PROVE  [Slot!Next]_Slot!slotVars
  BY DEF Staged, Slot!Next, Slot!Fail, Slot!slotVars

LEMMA TransferSlot ==
  ASSUME InstallInv, SlotInv, Transfer
  PROVE  [Slot!Next]_Slot!slotVars /\ SlotInv'
<1>1. /\ UNCHANGED <<activeDir, previousDir, activeName>>
      /\ step = "idle" /\ step' = "idle" /\ UNCHANGED crashes
  BY HandlerLeaves
<1>2. Shown' = Shown
  BY <1>1, ShownNext DEF Shown
<1>3. Staged = staging /\ Staged' = staging'
  BY <1>1 DEF Staged
<1>4. staging' \in {staging, NoPackage} \/ (staging = NoPackage /\ staging' \in Packages)
  <2>1. ASSUME NEW p \in Packages, NEW total \in Field, HostBegin(p, total)
        PROVE  staging' = staging \/ (staging = NoPackage /\ staging' \in Packages)
    BY <2>1 DEF HostBegin, StoreUntouched, BeginOk, InstallInv, HostOK
  <2>2. ASSUME NEW path \in Files \cup {NoFile}, NEW size \in Field, HostFile(path, size)
        PROVE  staging' \in {staging, NoPackage}
    BY <2>2 DEF HostFile, StoreUntouched, StoreGivesUp
  <2>3. ASSUME NEW len \in Field, HostChunk(len)
        PROVE  staging' \in {staging, NoPackage}
    BY <2>3 DEF HostChunk, StoreUntouched, StoreGivesUp
  <2>4. ASSUME NEW reported \in Field \cup {Absent}, HostFileEnd(reported)
        PROVE  staging' \in {staging, NoPackage}
    BY <2>4 DEF HostFileEnd, StoreUntouched, StoreGivesUp
  <2>5. ASSUME HostEndFails
        PROVE  staging' \in {staging, NoPackage}
    BY <2>5 DEF HostEndFails, StoreUntouched, StoreGivesUp
  <2> QED
    BY <2>1, <2>2, <2>3, <2>4, <2>5 DEF Transfer
<1>5. SlotInv'
  BY <1>1 DEF SlotInv
<1>6. Doing(step) = "nothing" /\ Doing(step') = "nothing"
  BY <1>1, DoingIs DEF Deleting
<1>7. CASE staging' \in {staging, NoPackage}
  BY <1>2, <1>3, <1>5, <1>6, <1>7, SlotFails
<1>8. CASE staging = NoPackage /\ staging' \in Packages
  <2>1. Slot!Begin(staging')
    BY <1>1, <1>2, <1>3, <1>6, <1>8 DEF Slot!Begin, Slot!Turn, Staged
  <2> QED
    BY <1>5, <1>8, <2>1 DEF Slot!Next
<1> QED
  BY <1>4, <1>7, <1>8

LEMMA CommitSlot ==
  ASSUME InstallInv, SlotInv, Commit
  PROVE  [Slot!Next]_Slot!slotVars /\ SlotInv'
<1> DEFINE Quiet == {"idle", "setAside", "clean", "name", "failed"}
<1>0. /\ \A at \in Quiet : Doing(at) = "nothing"
      /\ UNCHANGED crashes
  BY DoingIs DEF Deleting, Commit, CommitBegins, CommitCannotBegin, CommitSetsAside,
     CommitCannotSetAside, CommitPutsInPlace, CommitCannotPutInPlace, CommitPutsBack,
     CommitCleans, CommitEnds, CommitFailed, InCommit
<1>1. CASE CommitBegins \/ CommitCannotBegin
  <2>1. /\ step = "idle" /\ step' \in {"setAside", "failed"}
        /\ UNCHANGED <<activeDir, staging>>
    BY <1>1 DEF CommitBegins, CommitCannotBegin, InCommit, RemovePrevious,
                RemovePreviousFails
  <2>2. Shown' = Shown /\ Staged' = Staged
    BY <2>1, ShownNext DEF Shown, Staged
  <2> QED
    BY <1>0, <2>1, <2>2, SlotFails DEF SlotInv
\* The first renaming: from here on the slot is being replaced.
<1>2. CASE CommitSetsAside
  <2>1. /\ step = "setAside" /\ step' = "putInPlace" /\ UNCHANGED staging
        /\ hadActive' = (activeDir # NoDir) /\ activeDir' = NoDir
        /\ activeDir # NoDir => previousDir' = activeDir
    BY <1>2 DEF CommitSetsAside, InCommit, SetAside, storeVars, dirs
  <2>2. Shown' = Shown
    BY <2>1, ShownNext DEF Shown
  <2>3. Staged = staging /\ Staged' = staging /\ staging # NoPackage
    BY <2>1, InstallAssumption DEF Staged, InstallInv, HostOK, Committing
  <2>4. Doing(step) = "nothing" /\ Doing(step') = "replacing"
    BY <1>0, <2>1, DoingIs
  <2>5. Slot!StartReplacing
    BY <1>0, <2>2, <2>3, <2>4 DEF Slot!StartReplacing, Slot!Turn, Staged
  <2> QED
    BY <2>1, <2>5 DEF Slot!Next, Slot!Replacing, SlotInv
<1>3. CASE CommitCannotSetAside
  <2>1. /\ step = "setAside" /\ step' = "failed" /\ UNCHANGED <<activeDir, staging>>
    BY <1>3 DEF CommitCannotSetAside, InCommit, RenameFails, dirs
  <2>2. Shown' = Shown /\ Staged' = Staged
    BY <2>1, ShownNext DEF Shown, Staged
  <2> QED
    BY <1>0, <2>1, <2>2, SlotFails DEF SlotInv
\* The second one: the slot takes the staged package.
<1>4. CASE CommitPutsInPlace
  <2>1. /\ step = "putInPlace" /\ step' = "clean" /\ activeDir' = incomingDir
        /\ UNCHANGED <<staging, faults>>
    BY <1>4 DEF CommitPutsInPlace, InCommit, PutInPlace, NoFault
  <2>2. staging \in Packages /\ HoldsPackage(incomingDir, staging)
    BY <2>1 DEF InstallInv, HostOK, Committing, CommitOK
  <2>3. PackageIn(incomingDir) = staging
    BY <2>2, OnePackage
  <2>4. Shown' = staging
    BY <2>1, <2>3, ShownNext
  <2>5. Staged = staging /\ Staged' = NoPackage
    BY <2>1, <2>2 DEF Staged
  <2>6. Doing(step) = "replacing" /\ Doing(step') = "nothing"
    BY <1>0, <2>1, DoingIs
  <2>7. Slot!Install
    BY <1>0, <2>1, <2>4, <2>5, <2>6 DEF Slot!Install, Slot!Turn, Staged
  <2> QED
    BY <2>1, <2>7 DEF Slot!Next, Slot!Replacing, SlotInv
<1>5. CASE CommitCannotPutInPlace
  <2>1. /\ step = "putInPlace" /\ step' = IF hadActive THEN "putBack" ELSE "failed"
        /\ UNCHANGED <<activeDir, previousDir, hadActive, staging>>
        /\ faults' = faults + 1
    BY <1>5 DEF CommitCannotPutInPlace, InCommit, RenameFails, Fault, dirs
  <2>2. Shown' = Shown /\ Staged' = Staged
    BY <2>1, NoPackageIn, ShownNext DEF Shown, Staged, SlotInv
  <2>3. Doing(step) = "replacing" /\ Doing(step') \in {"undoing", "nothing"}
    BY <1>0, <2>1, DoingIs
  <2>4. Slot!CannotInstall
    BY <1>0, <2>1, <2>2, <2>3 DEF Slot!CannotInstall, Slot!Turn, Staged
  <2> QED
    BY <2>1, <2>4 DEF Slot!Next, Slot!Replacing, SlotInv
\* The renaming back: what was set aside is there again, or is lost.
<1>6. CASE CommitPutsBack
  <2>1. /\ step = "putBack" /\ step' = "failed" /\ hadActive /\ UNCHANGED staging
        /\ Doing(step) = "undoing" /\ Doing(step') = "nothing"
    BY <1>0, <1>6, DoingIs DEF CommitPutsBack, InCommit, InstallInv, CommitOK
  <2>2. Staged' = Staged
    BY <2>1 DEF Staged
  <2>3. CASE PutBack
    <3>1. Shown' = Shown /\ UNCHANGED faults
      BY <2>1, <2>3, ShownNext DEF Shown, PutBack, NoFault
    <3>2. Slot!Restore
      BY <1>0, <2>1, <2>2, <3>1 DEF Slot!Restore, Slot!Turn, Staged
    <3> QED
      BY <2>1, <3>2 DEF Slot!Next, Slot!Replacing, SlotInv
  <2>4. CASE RenameFails
    <3>1. activeDir' = NoDir /\ faults' = faults + 1
      BY <2>1, <2>4 DEF SlotInv, RenameFails, Fault, dirs
    <3>2. Shown' = NoPackage
      BY <2>1, <3>1, NoPackageIn, ShownNext
    <3>3. Slot!CannotRestore
      BY <1>0, <2>1, <2>2, <3>1, <3>2 DEF Slot!CannotRestore, Slot!Turn, Staged
    <3> QED
      BY <2>1, <3>3 DEF Slot!Next, Slot!Replacing, SlotInv
  <2> QED
    BY <1>6, <2>3, <2>4 DEF CommitPutsBack
<1>7. CASE CommitCleans
  <2>1. /\ step = "clean" /\ step' = "name" /\ UNCHANGED <<activeDir, staging>>
    BY <1>7 DEF CommitCleans, InCommit, RemovePrevious, RemovePreviousFails
  <2>2. Shown' = Shown /\ Staged' = Staged
    BY <2>1, ShownNext DEF Shown, Staged
  <2> QED
    BY <1>0, <2>1, <2>2, SlotFails DEF SlotInv
<1>8. CASE CommitEnds
  <2>1. /\ step = "name" /\ step' = "idle" /\ UNCHANGED activeDir
        /\ staging' = NoPackage
    BY <1>8 DEF CommitEnds, WriteName, WriteNameFails, dirs
  <2>2. Shown' = Shown /\ Staged' = NoPackage
    BY <2>1, ShownNext DEF Shown, Staged
  <2> QED
    BY <1>0, <2>1, <2>2, SlotFails DEF SlotInv
<1>9. CASE CommitFailed
  <2>1. /\ step = "failed" /\ step' = "idle" /\ UNCHANGED activeDir
        /\ staging' = NoPackage
    BY <1>9 DEF CommitFailed, StoreGivesUp, StoreAbort
  <2>2. Shown' = Shown /\ Staged' = NoPackage
    BY <2>1, ShownNext DEF Shown, Staged
  <2> QED
    BY <1>0, <2>1, <2>2, SlotFails DEF SlotInv
<1> QED
  BY <1>1, <1>2, <1>3, <1>4, <1>5, <1>6, <1>7, <1>8, <1>9 DEF Commit

\* A removal of the active directory that stops half-way leaves the package it
\* held, when it took nothing that the manifest names, or none.
LEMMA PruneSlot ==
  ASSUME InstallInv, DeleteActive
  PROVE  PackageIn(activeDir') \in {PackageIn(activeDir), NoPackage}
<1>1. CASE activeDir' = NoDir
  BY <1>1, NoPackageIn
<1>2. CASE ~\E q \in Packages : HoldsPackage(activeDir', q)
  BY <1>2 DEF PackageIn
<1>3. CASE activeDir' # NoDir /\ \E q \in Packages : HoldsPackage(activeDir', q)
  <2>1. activeDir' \in Remains(activeDir)
    BY <1>3 DEF DeleteActive
  <2>2. activeDir # NoDir
    BY <2>1 DEF Remains
  <2>3. PICK kept \in SUBSET Files :
          activeDir' = [f \in Files |-> IF f \in kept THEN activeDir[f] ELSE Missing]
    BY <2>1, <2>2 DEF Remains
  <2>4. PICK q \in Packages : HoldsPackage(activeDir', q)
    BY <1>3
  <2>5. PICK p \in Packages : Unmixed(activeDir, p)
    BY <2>2 DEF InstallInv, Showable
  <2>6. \A f \in Files : activeDir'[f] # Missing => activeDir'[f] = activeDir[f]
    BY <2>3
  <2>7. activeDir'[Manifest] # Missing /\ IsWhole(activeDir'[Manifest], q)
    BY <2>4, FilesAssumption DEF HoldsPackage, Complete, Unmixed
  <2>8. p = q
    BY <2>5, <2>6, <2>7, FilesAssumption DEF Unmixed, IsWhole
  <2>9. \A f \in Names[q] \cup {Manifest} : activeDir[f] # Missing
    <3>1. Names[q] \cup {Manifest} \subseteq Files
      BY InstallAssumption, FilesAssumption
    <3>2. \A f \in Names[q] \cup {Manifest} : activeDir'[f] # Missing
      BY <2>4 DEF HoldsPackage, Complete
    <3> QED
      BY <2>6, <3>1, <3>2
  <2>10. HoldsPackage(activeDir, q)
    BY <2>2, <2>5, <2>8, <2>9 DEF HoldsPackage, Complete
  <2> QED
    BY <2>4, <2>10, OnePackage
<1> QED
  BY <1>1, <1>2, <1>3

LEMMA DeletionSlot ==
  ASSUME InstallInv, SlotInv, Deletion
  PROVE  [Slot!Next]_Slot!slotVars /\ SlotInv'
<1>0. /\ \A at \in Deleting : Doing(at) = "deleting"
      /\ Doing("idle") = "nothing"
      /\ UNCHANGED crashes
  BY DoingIs DEF Deleting, Deletion, DeletionBegins, DeletesIncoming, DeletesActive,
     DeletesPrevious, DeletesName, Wipe, WipeEnds, InDeletion
<1>1. ASSUME DeleteActive, step \in Deleting, step' \in Deleting, UNCHANGED staging
      PROVE  [Slot!Next]_Slot!slotVars /\ SlotInv'
  <2>1. Staged' = Staged
    BY <1>1 DEF Staged, Deleting
  <2>2. Shown' \in {Shown, NoPackage}
    BY <1>1, ShownNext, PruneSlot DEF Shown, Deleting
  <2>3. Doing(step) = "deleting" /\ Doing(step') = "deleting"
    BY <1>0, <1>1
  <2>4. Shown' = NoPackage => Slot!Delete
    BY <1>0, <2>1, <2>3 DEF Slot!Delete, Slot!Turn, Staged
  <2> QED
    BY <1>1, <2>1, <2>2, <2>3, <2>4, SlotKept DEF Slot!Next, SlotInv, Deleting
<1>2. ASSUME NEW first \in {"deleteIncoming", "wipe"}, DeletionBegins(first)
      PROVE  [Slot!Next]_Slot!slotVars /\ SlotInv'
  <2>1. /\ step = "idle" /\ step' = first /\ staging' = NoPackage
        /\ UNCHANGED activeDir
    BY <1>2 DEF DeletionBegins, StoreAbort, storeVars, dirs
  <2>2. Shown' = Shown /\ Staged' = NoPackage
    BY <2>1, ShownNext DEF Shown, Staged
  <2>3. Doing(step) = "nothing" /\ Doing(step') = "deleting"
    BY <1>0, <2>1 DEF Deleting
  <2>4. Slot!StartDeleting
    BY <1>0, <2>2, <2>3 DEF Slot!StartDeleting, Slot!Turn, Staged
  <2> QED
    BY <2>1, <2>4 DEF Slot!Next, SlotInv
\* A step that leaves the active directory alone.
<1>3. ASSUME step \in Deleting, step' \in Deleting \cup {"idle"},
             UNCHANGED <<activeDir, staging>>
      PROVE  [Slot!Next]_Slot!slotVars /\ SlotInv'
  <2>1. Shown' = Shown /\ Staged' = Staged
    BY <1>3, ShownNext DEF Shown, Staged, Deleting
  <2>2. CASE step' \in Deleting
    BY <1>0, <1>3, <2>1, <2>2, SlotKept DEF SlotInv, Deleting
  <2>3. CASE step' = "idle"
    <3>1. Slot!EndDeleting
      BY <1>0, <1>3, <2>1, <2>3 DEF Slot!EndDeleting, Staged
    <3> QED
      BY <2>3, <3>1 DEF Slot!Next, SlotInv
  <2> QED
    BY <1>3, <2>2, <2>3
<1>4. CASE DeletesActive
  BY <1>1, <1>4 DEF DeletesActive, InDeletion, Deleting
<1>5. CASE DeletesIncoming \/ DeletesPrevious \/ DeletesName
  <2>1. /\ step \in Deleting /\ step' \in Deleting \cup {"idle"}
        /\ UNCHANGED <<activeDir, staging>>
    BY <1>5 DEF DeletesIncoming, DeleteIncoming, DeletesPrevious, DeletePrevious,
                DeletesName, DeleteName, InDeletion, Deleting, dirs
  <2> QED
    BY <1>3, <2>1
<1>6. CASE Wipe
  <2>1. step = "wipe" /\ step' = "wipe" /\ UNCHANGED staging
    BY <1>6 DEF Wipe, InDeletion
  <2>2. CASE DeleteActive
    BY <1>1, <2>1, <2>2 DEF Deleting
  <2>3. CASE ~DeleteActive
    <3>1. UNCHANGED activeDir
      BY <1>6, <2>3 DEF Wipe, DeleteIncoming, DeletePrevious, DeleteName, dirs
    <3> QED
      BY <1>3, <2>1, <3>1 DEF Deleting
  <2> QED
    BY <2>2, <2>3
<1>7. ASSUME NEW ok \in BOOLEAN, WipeEnds(ok)
      PROVE  [Slot!Next]_Slot!slotVars /\ SlotInv'
  BY <1>3, <1>7 DEF WipeEnds, storeVars, dirs, Deleting
<1> QED
  BY <1>2, <1>4, <1>5, <1>6, <1>7 DEF Deletion

\* A power loss: between the renamings it takes the old character, else the slot
\* stays as it is.
LEMMA PowerLossSlot ==
  ASSUME InstallInv, SlotInv, PowerLoss
  PROVE  [Slot!Next]_Slot!slotVars /\ SlotInv'
<1>1. /\ step' = "idle" /\ staging' = NoPackage /\ crashes' = crashes + 1
      /\ UNCHANGED <<activeDir, previousDir>>
  BY DEF PowerLoss, dirs
<1>2. Staged' = NoPackage /\ Shown' = PackageIn(activeDir) /\ SlotInv'
  BY <1>1, ShownNext DEF Staged, SlotInv
<1>3. Doing(step') = "nothing"
  BY <1>1, DoingIs DEF Deleting
<1>4. CASE step \in {"putInPlace", "putBack"}
  <2>1. Shown' = NoPackage /\ Doing(step) \in {"replacing", "undoing"}
    BY <1>2, <1>4, DoingIs, NoPackageIn DEF SlotInv
  <2>2. Slot!PowerLoss
    BY <1>1, <1>2, <1>3, <2>1 DEF Slot!PowerLoss, Staged
  <2> QED
    BY <1>2, <2>2 DEF Slot!Next
<1>5. CASE step \in Deleting
  <2>1. Shown' = Shown /\ Doing(step) = "deleting"
    BY <1>2, <1>5, DoingIs DEF Shown, Deleting
  <2>2. Staged' = Staged
    BY <1>2, <1>5 DEF Staged, Deleting, InstallInv, HostOK
  <2>3. Slot!EndDeleting
    BY <1>3, <2>1, <2>2 DEF Slot!EndDeleting, Staged
  <2> QED
    BY <1>2, <2>3 DEF Slot!Next
<1>6. CASE step \notin {"putInPlace", "putBack"} \cup Deleting
  <2>1. Shown' = Shown /\ Doing(step) = "nothing"
    BY <1>2, <1>6, DoingIs DEF Shown
  <2> QED
    BY <1>2, <1>3, <2>1, SlotFails
<1> QED
  BY <1>4, <1>5, <1>6

LEMMA NextSlotStep ==
  ASSUME InstallInv, SlotInv, [InstallNext]_installVars
  PROVE  [Slot!Next]_Slot!slotVars /\ SlotInv'
<1>1. CASE UNCHANGED installVars
  <2>1. UNCHANGED <<step, staging, hadActive, activeDir, previousDir>>
    BY <1>1 DEF installVars, storeVars, dirs, hostVars
  <2>2. Shown' = Shown /\ Staged' = Staged
    BY <2>1, ShownNext DEF Shown, Staged
  <2> QED
    BY <2>1, <2>2, SlotKept DEF SlotInv
<1> QED
  BY <1>1, TransferSlot, CommitSlot, DeletionSlot, PowerLossSlot DEF InstallNext

LEMMA InitSlot == InstallInit => SlotInv /\ Slot!Init
<1> SUFFICES ASSUME InstallInit
             PROVE  SlotInv /\ Slot!Init
  OBVIOUS
<1>1. SlotInv
  BY DEF InstallInit, StoreInit, SlotInv
<1>2. Shown = NoPackage
  BY NoPackageIn DEF InstallInit, StoreInit, Shown
<1>3. Doing(step) = "nothing"
  BY DoingIs DEF InstallInit, Deleting
<1> QED
  BY <1>1, <1>2, <1>3 DEF InstallInit, Slot!Init

\* However many calls fail and however often power is lost, the store implements
\* the slot: what is shown changes only as a whole staged package arrives, or is
\* emptied, by a deletion that was ordered, by a power loss between the two
\* renamings of buddy_character_store_commit, or as both its second renaming and
\* the one back fail.
THEOREM SlotSpecHolds == InstallSpec => SlotSpec
<1>1. InstallInv /\ SlotInv /\ [InstallNext]_installVars
        => [Slot!Next]_Slot!slotVars /\ SlotInv'
  BY NextSlotStep
<1> QED
  BY <1>1, InitSlot, InstallInvariant, PTL DEF InstallSpec, SlotSpec, Slot!Spec

-----------------------------------------------------------------------------
(* The display and the factory reset of the settings page.                  *)

Loading == {"idle", "reading", "checking"}

\* No reset of the settings page is under way but one that has removed everything.
Undisturbed == ~resetFailed /\ (ui \in Loading \/ (ui = "wiped" /\ wipeOk))

Nowhere == incomingDir = NoDir /\ activeDir = NoDir /\ previousDir = NoDir

\* What holds of the host thread whatever a reset has done to its directories.
\* Where no reset has been, all that was proved of the host thread alone holds.
HostShape ==
  /\ staging \in IF active THEN Packages ELSE {NoPackage}
  /\ step \in Steps
  /\ step \in Deleting => ~active

HostInv ==
  /\ TransferInv
  /\ HostShape
  /\ emptied => Nowhere
  /\ Undisturbed => emptied \/ InstallInv

\* Without a fault, no character is pruned, no deletion fails and no commit is
\* undone.
FaultlessInv ==
  /\ faults \in Nat
  /\ faults = 0 => /\ allOk /\ ~pruned
                   /\ Undisturbed /\ ~emptied => step \notin {"putBack", "failed"}

\* The host thread may have changed the active directory, and will invalidate the
\* cache at the end of its command.
Settling ==
  ~emptied /\ step \in {"putInPlace", "clean", "name", "deletePrevious", "deleteName", "wipe"}

\* What the UI thread has read agrees with the active directory as it is.
Agrees ==
  CASE ui = "idle" ->
         IF available
         THEN HoldsPackage(activeDir, manifestOf) /\ cached = Names[manifestOf]
         ELSE PackageIn(activeDir) = NoPackage
    [] ui = "reading" -> TRUE
    [] ui = "checking" ->
         /\ HoldsPackage(activeDir, manifestOf)
         /\ cached \subseteq Names[manifestOf]

CacheInv ==
  /\ ui \in {"reading", "checking"} => ~available
  /\ ui = "reading" => cached = {}
  /\ faults = 0 /\ ~resetFailed /\ ui \in Loading => invalidated \/ Settling \/ Agrees

\* The steps of the host thread that only a reset of the other makes possible.
OddStep ==
  \/ \E path \in Files, size \in Size : OpensNothing(path, size)
  \/ \E len \in Size : ChunkIsLost(len)
  \/ ClosesNothing(Absent)
  \/ CommitFindsNothing \/ CommitEndsReset \/ CommitFailedReset

LEMMA HostKinds == Host => Transfer \/ Commit \/ Deletion \/ OddStep
<1> SUFFICES ASSUME Host
             PROVE  Transfer \/ Commit \/ Deletion \/ OddStep
  OBVIOUS
<1>0. Size \subseteq Field /\ Absent \in Field \cup {Absent}
  BY TransferAssumption DEF Size, UInt32, Field
<1>1. ASSUME NEW p \in Packages, NEW total \in Size, Begins(p, total)
      PROVE  Transfer
  BY <1>0, <1>1 DEF Begins, Transfer
<1>2. CASE HostTransfer
  BY <1>0, <1>2 DEF HostTransfer, Transfer, OddStep
<1>3. CASE HostCommit
  BY <1>3 DEF HostCommit, Commit, OddStep
<1>4. CASE HostDeletion \/ DeletionEnds
  BY <1>4 DEF HostDeletion, DeletionEnds, Deletion
<1>5. CASE CommitBeginsHere
  BY <1>5 DEF CommitBeginsHere, Commit
<1>6. CASE CommitEndsInvalidating \/ CommitFails
  BY <1>6 DEF CommitEndsInvalidating, CommitFails, Commit, OddStep
<1> QED
  BY <1>1, <1>2, <1>3, <1>4, <1>5, <1>6 DEF Host

LEMMA OddNeedsReset ==
  ASSUME InstallInv, OddStep
  PROVE  FALSE
<1>0. step = "idle" /\ active /\ fileOpen => FileIsThere /\ fd # NoFile
  <2> SUFFICES ASSUME step = "idle", active, fileOpen
               PROVE  FileIsThere /\ fd # NoFile
    OBVIOUS
  <2>1. /\ incomingDir # NoDir /\ fd = filePath
        /\ incomingDir[filePath] = [from |-> staging, size |-> fileWritten,
                                    announced |-> fileExpected]
    BY DEF InstallInv, StagedAgrees
  <2>2. filePath \in Files /\ staging \in Packages
    BY DEF InstallInv, TransferInv, FlagsOK, HostOK
  <2>3. fileWritten \in Nat /\ fileExpected \in Nat
    BY TransferAssumption DEF InstallInv, TransferInv, NumbersOK, UInt32
  <2>4. incomingDir[filePath] \in StoredFile
    BY <2>1, <2>2, <2>3 DEF StoredFile
  <2>5. incomingDir[filePath] # Missing /\ filePath # NoFile
    BY <2>2, <2>4, StoreAssumption, FilesAssumption
  <2> QED
    BY <2>1, <2>5 DEF FileIsThere, HasFile
<1>1. ASSUME NEW path \in Files, NEW size \in Size, OpensNothing(path, size)
      PROVE  FALSE
  BY <1>1 DEF OpensNothing, Handler, FileOpenFails, FileReady, InstallInv, StagedAgrees
<1>2. ASSUME NEW len \in Size, ChunkIsLost(len)
      PROVE  FALSE
  <2>1. step = "idle" /\ ~FileIsThere
    BY <1>2 DEF ChunkIsLost, Handler
  <2>2. fileOpen
    BY <2>1 DEF FileIsThere
  <2> QED
    BY <1>0, <2>1, <2>2 DEF InstallInv, TransferInv, Accounting
<1>3. CASE ClosesNothing(Absent)
  BY <1>0, <1>3 DEF ClosesNothing, Handler, FileCloseFails
<1>4. CASE CommitFindsNothing
  BY <1>4 DEF CommitFindsNothing, InCommit, InstallInv, CommitOK, HoldsPackage
<1>5. CASE CommitEndsReset \/ CommitFailedReset
  BY <1>5 DEF CommitEndsReset, CommitFailedReset, InstallInv, HostOK, Committing
<1> QED
  BY <1>1, <1>2, <1>3, <1>4, <1>5 DEF OddStep

\* What the host thread leaves to the other.
LEMMA HostFrame ==
  ASSUME Host
  PROVE  /\ UNCHANGED <<ui, available, manifestOf, cached, wipeOk, resetFailed>>
         /\ \/ emptied' = emptied
            \/ \E p \in Packages, total \in Size : Begins(p, total)
  BY DEF Host, Begins, Unnoticed, CommitBeginsHere, CommitEndsInvalidating, CommitFails,
         DeletionEnds, uiVars, cacheVars, wipeVars, historyVars, emptyVars

-----------------------------------------------------------------------------
(* The shape of the host thread's state, whatever becomes of the directories. *)

LEMMA TransferShape ==
  ASSUME HostShape, Transfer
  PROVE  HostShape'
<1> DEFINE Still == active' = active /\ staging' = staging
           Over == active' = FALSE /\ staging' = NoPackage
<1>1. ASSUME NEW p \in Packages, NEW total \in Field, HostBegin(p, total)
      PROVE  Still \/ (active' = TRUE /\ staging' = p)
  BY <1>1 DEF HostBegin, BeginRefused, BeginNoSpace, BeginOk, Refuse, StoreUntouched,
              transferVars
<1>2. ASSUME NEW path \in Files \cup {NoFile}, NEW size \in Field, HostFile(path, size)
      PROVE  Still \/ Over
  BY <1>2 DEF HostFile, FileRefused, FileRejected, FileOpenFails, FileOk, Refuse, GiveUp,
              ResetTransfer, StoreUntouched, StoreGivesUp, transferVars
<1>3. ASSUME NEW len \in Field, HostChunk(len)
      PROVE  Still \/ Over
  BY <1>3 DEF HostChunk, ChunkRefused, ChunkRejected, ChunkWriteFails, ChunkOk, Refuse,
              GiveUp, ResetTransfer, StoreUntouched, StoreGivesUp, transferVars
<1>4. ASSUME NEW reported \in Field \cup {Absent}, HostFileEnd(reported)
      PROVE  Still \/ Over
  BY <1>4 DEF HostFileEnd, FileEndRefused, FileEndRejected, FileEndOk, Refuse, GiveUp,
              ResetTransfer, StoreUntouched, StoreGivesUp, transferVars
<1>5. ASSUME HostEndFails
      PROVE  Still \/ Over
  BY <1>5 DEF HostEndFails, EndRefused, EndRejected, EndFails, Refuse, GiveUp,
              ResetTransfer, StoreUntouched, StoreGivesUp, transferVars
<1>6. step = "idle" /\ step' = "idle"
  BY DEF Transfer, HostBegin, HostFile, HostChunk, HostFileEnd, HostEndFails, Handler, hostVars
<1>7. Still \/ Over \/ (active' = TRUE /\ staging' \in Packages)
  <2> HIDE DEF Still, Over
  <2> QED
    BY <1>1, <1>2, <1>3, <1>4, <1>5 DEF Transfer
<1> QED
  BY <1>6, <1>7 DEF HostShape, Deleting, Steps

LEMMA CommitShape ==
  ASSUME HostShape, Commit
  PROVE  HostShape'
<1>1. ASSUME NEW from, NEW to \in Committing, InCommit(from, to)
      PROVE  HostShape'
  BY <1>1 DEF InCommit, vars, transferVars, HostShape, Committing, Deleting, Steps
<1>2. CASE CommitEnds \/ CommitFailed
  BY <1>2 DEF CommitEnds, CommitFailed, EndOk, EndFails, GiveUp, ResetTransfer, StoreGivesUp,
              HostShape, Deleting, Steps
<1>3. CASE CommitCannotPutInPlace
  BY <1>1, <1>3 DEF CommitCannotPutInPlace, Committing
<1> QED
  BY <1>1, <1>2, <1>3
  DEF Commit, CommitBegins, CommitCannotBegin, CommitSetsAside, CommitCannotSetAside,
      CommitPutsInPlace, CommitPutsBack, CommitCleans, Committing

LEMMA DeletionShape ==
  ASSUME HostShape, Deletion
  PROVE  HostShape'
<1>1. ASSUME NEW first \in {"deleteIncoming", "wipe"}, DeletionBegins(first)
      PROVE  HostShape'
  BY <1>1 DEF DeletionBegins, Abort, ResetTransfer, HostShape, Steps
<1>2. ASSUME NEW from \in Deleting, NEW to \in Deleting, InDeletion(from, to), UNCHANGED vars
      PROVE  HostShape'
  BY <1>2 DEF InDeletion, vars, transferVars, HostShape, Deleting, Steps
<1>3. CASE DeletesName
  BY <1>3 DEF DeletesName, InDeletion, Reset, ResetTransfer, HostShape, Deleting, Steps
<1>4. ASSUME NEW ok \in BOOLEAN, WipeEnds(ok)
      PROVE  HostShape'
  BY <1>4 DEF WipeEnds, Reset, ResetTransfer, HostShape, Deleting, Steps
<1> QED
  BY <1>1, <1>2, <1>3, <1>4
  DEF Deletion, DeletesIncoming, DeletesActive, DeletesPrevious, Wipe, Deleting

\* A step of the installation keeps the shape, and so does an odd one.
LEMMA HostKeepsShape ==
  ASSUME TransferInv, HostShape, Host
  PROVE  TransferInv' /\ HostShape'
<1>1. CASE Transfer \/ Commit \/ Deletion
  BY <1>1, InstallStepsTransfer, TransferStep, TransferShape, CommitShape, DeletionShape
  DEF InstallNext
<1>2. ASSUME NEW path \in Files, NEW size \in Size, OpensNothing(path, size)
      PROVE  TransferInv' /\ HostShape'
  BY <1>2, GiveUpKeeps, ZeroFits
  DEF OpensNothing, FileOpenFails, GiveUp, ResetTransfer, Handler, hostVars, StoreGivesUp,
      HostShape, Commands, Deleting
<1>3. ASSUME NEW len \in Size, ChunkIsLost(len)
      PROVE  TransferInv' /\ HostShape'
  <2>1. len \in Field /\ fileWritten \in UInt32
    BY TransferAssumption DEF Size, UInt32, Field, TransferInv, NumbersOK
  <2>2. CASE ChunkOk(len) /\ StoreUntouched
    BY <1>3, <2>1, <2>2, ChunkKeeps
    DEF ChunkIsLost, ChunkOk, StoreUntouched, Handler, hostVars, HostShape, Deleting
  <2>3. CASE GiveUp("chunk", fileWritten) /\ StoreGivesUp(incomingDir, 0)
    BY <1>3, <2>1, <2>3, GiveUpKeeps
    DEF ChunkIsLost, GiveUp, ResetTransfer, StoreGivesUp, Handler, hostVars, HostShape,
        Commands, Deleting
  <2> QED
    BY <1>3, <2>2, <2>3 DEF ChunkIsLost, ChunkRejected
<1>4. CASE ClosesNothing(Absent)
  <2>1. fileWritten \in UInt32
    BY DEF TransferInv, NumbersOK
  <2> QED
    BY <1>4, <2>1, GiveUpKeeps
    DEF ClosesNothing, FileCloseFails, GiveUp, ResetTransfer, StoreGivesUp, Handler, hostVars,
        HostShape, Commands, Deleting
<1>5. CASE CommitFindsNothing
  BY <1>5, TransferStep
  DEF CommitFindsNothing, InCommit, vars, transferVars, HostShape, Deleting, Steps
<1>6. CASE CommitEndsReset
  <2>1. ResetTransfer /\ Ack("char_end", TRUE, 0) /\ "char_end" \in Commands
    BY <1>6 DEF CommitEndsReset, Reset, Commands
  <2>2. TransferInv'
    BY <2>1, AckTyped, ResetKeeps, ZeroFits
  <2> QED
    BY <1>6, <2>1, <2>2 DEF CommitEndsReset, ResetTransfer, HostShape, Deleting, Steps
<1>7. CASE CommitFailedReset
  BY <1>7, GiveUpKeeps, ZeroFits
  DEF CommitFailedReset, GiveUp, ResetTransfer, HostShape, Commands, Deleting, Steps
<1> QED
  BY <1>1, <1>2, <1>3, <1>4, <1>5, <1>6, <1>7, HostKinds DEF OddStep

-----------------------------------------------------------------------------
(* What a reset has removed stays away until the next package is begun.      *)

LEMMA GivesUpNowhere ==
  ASSUME Nowhere, NEW d, d = NoDir, NEW n, StoreGivesUp(d, n)
  PROVE  Nowhere'
  BY NothingRemains DEF StoreGivesUp, StoreAbort, Nowhere

LEMMA NothingBegins ==
  ASSUME HostShape, Nowhere, NEW p \in Packages, NEW total \in Size, HostBegin(p, total),
         staging' = staging
  PROVE  Nowhere'
<1>1. ~BeginOk(total) \/ staging' # p
  BY InstallAssumption DEF HostShape, BeginOk
<1> QED
  BY <1>1, NothingRemains
  DEF HostBegin, StoreUntouched, storeVars, dirs, StoreBeginFails, Nowhere

LEMMA NothingReceived ==
  ASSUME Nowhere, HostTransfer
  PROVE  Nowhere'
<1>0. ASSUME StoreUntouched
      PROVE  Nowhere'
  BY <1>0 DEF StoreUntouched, storeVars, dirs, Nowhere
<1>1. incomingDir = NoDir
  BY DEF Nowhere
<1>2. ASSUME NEW path \in Files, NEW size \in Size,
             HostFile(path, size) \/ OpensNothing(path, size)
      PROVE  Nowhere'
  BY <1>0, <1>1, <1>2, GivesUpNowhere DEF HostFile, OpensNothing, StoreOpen
<1>3. ASSUME NEW len \in Size, FileIsThere, HostChunk(len)
      PROVE  Nowhere'
  <2>1. ~fileOpen
    BY <1>1, <1>3 DEF FileIsThere, HasFile
  <2> QED
    BY <1>0, <1>3, <2>1 DEF HostChunk, ChunkRejected, ChunkWriteFails, ChunkOk
<1>4. ASSUME NEW len \in Size, ChunkIsLost(len)
      PROVE  Nowhere'
  BY <1>0, <1>1, <1>4, GivesUpNowhere DEF ChunkIsLost
<1>5. CASE HostFileEnd(Absent) \/ ClosesNothing(Absent)
  <2>1. ASSUME StoreClose
        PROVE  Nowhere'
    BY <2>1 DEF StoreClose, dirs, Nowhere
  <2> QED
    BY <1>0, <1>1, <1>5, <2>1, GivesUpNowhere DEF HostFileEnd, ClosesNothing
<1>6. CASE HostEndFails
  BY <1>0, <1>1, <1>6, GivesUpNowhere DEF HostEndFails
<1> QED
  BY <1>2, <1>3, <1>4, <1>5, <1>6 DEF HostTransfer

LEMMA NothingCommitted ==
  ASSUME Nowhere, HostCommit \/ CommitBeginsHere \/ CommitEndsInvalidating \/ CommitFails
  PROVE  Nowhere'
<1>1. CASE HostCommit
  BY <1>1, NothingRemains
  DEF HostCommit, CommitCannotBegin, CommitSetsAside, CommitCannotSetAside,
      CommitCannotPutInPlace, CommitFindsNothing, CommitPutsBack, CommitCleans,
      RemovePrevious, RemovePreviousFails, RenameFails, PutBack, storeVars, dirs, Nowhere
<1>2. CASE CommitBeginsHere
  BY <1>2 DEF CommitBeginsHere, HasFile, Nowhere
<1>3. CASE CommitEndsInvalidating
  BY <1>3 DEF CommitEndsInvalidating, CommitEnds, CommitEndsReset, WriteName, WriteNameFails,
              dirs, Nowhere
<1>4. CASE CommitFails
  <2>1. incomingDir = NoDir
    BY DEF Nowhere
  <2> QED
    BY <1>4, <2>1, GivesUpNowhere
    DEF CommitFails, CommitFailed, CommitFailedReset, storeVars, dirs, Nowhere
<1> QED
  BY <1>1, <1>2, <1>3, <1>4

LEMMA NothingDeleted ==
  ASSUME Nowhere, Deletion
  PROVE  Nowhere'
<1>1. ASSUME NEW first \in {"deleteIncoming", "wipe"}, DeletionBegins(first)
      PROVE  Nowhere'
  BY <1>1, NothingRemains DEF DeletionBegins, StoreAbort, storeVars, dirs, Nowhere
<1>2. ASSUME NEW ok \in BOOLEAN, WipeEnds(ok)
      PROVE  Nowhere'
  BY <1>2 DEF WipeEnds, storeVars, dirs, Nowhere
<1> QED
  BY <1>1, <1>2, NothingRemains
  DEF Deletion, DeletesIncoming, DeletesActive, DeletesPrevious, DeletesName, Wipe,
      DeleteIncoming, DeleteActive, DeletePrevious, DeleteName, dirs, Nowhere

LEMMA HostStaysNowhere ==
  ASSUME HostShape, emptied => Nowhere, Host
  PROVE  emptied' => Nowhere'
<1>1. ASSUME NEW p \in Packages, NEW total \in Size, Begins(p, total)
      PROVE  emptied' => Nowhere'
  BY <1>1, NothingBegins DEF Begins
<1>2. CASE (emptied' = emptied /\ HostDeletion) \/ DeletionEnds
  <2>1. Deletion /\ emptied' = emptied
    BY <1>2 DEF HostDeletion, DeletionEnds, Deletion, historyVars, emptyVars
  <2> QED
    BY <2>1, NothingDeleted
<1>3. CASE emptied' = emptied /\ (HostTransfer \/ HostCommit)
  BY <1>3, NothingReceived, NothingCommitted
<1>4. CASE CommitBeginsHere \/ CommitEndsInvalidating \/ CommitFails
  <2>1. emptied' = emptied
    BY <1>4 DEF CommitBeginsHere, CommitEndsInvalidating, CommitFails, historyVars, emptyVars
  <2> QED
    BY <1>4, <2>1, NothingCommitted
<1> QED
  BY <1>1, <1>2, <1>3, <1>4 DEF Host, Unnoticed, historyVars, emptyVars

-----------------------------------------------------------------------------
(* The invariant of the two threads.                                         *)

LEMMA InitDisplay == DisplayInit => HostInv
<1> SUFFICES ASSUME DisplayInit
             PROVE  HostInv
  OBVIOUS
<1>1. InstallInv
  BY InstallInitial DEF DisplayInit
<1> QED
  BY <1>1 DEF DisplayInit, HostInv, HostShape, InstallInv, HostOK

\* A package that is begun after a reset finds everything as it was at first.
LEMMA BeginsAnew ==
  ASSUME TransferInv', HostShape, Nowhere, NEW p \in Packages, NEW total \in Size,
         HostBegin(p, total), staging' # staging
  PROVE  InstallInv'
<1>1. BeginOk(total) /\ StoreBegin /\ staging' = p
  BY DEF HostBegin, StoreUntouched
<1>2. /\ incomingDir' = EmptyDir /\ fd' = NoFile
      /\ activeDir' = NoDir /\ previousDir' = NoDir
  BY <1>1 DEF StoreBegin, Nowhere
<1>3. EmptyDir \in Contents /\ EmptyDir # NoDir
  BY StoreAssumption DEF EmptyDir, Contents
<1>4. active' = TRUE /\ ~fileOpen' /\ filePath' = NoFile /\ ~sawManifest' /\ step' = "idle"
  BY <1>1 DEF BeginOk, HostBegin, Handler, hostVars
<1>5. StagedAgrees'
  BY <1>2, <1>3, <1>4 DEF StagedAgrees, EmptyDir
<1>6. HostOK' /\ CommitOK'
  BY <1>1, <1>4 DEF HostOK, CommitOK, Steps, Committing, Deleting
<1>7. Showable(activeDir, pruned)'
  BY <1>2 DEF Showable
<1> QED
  BY <1>2, <1>3, <1>5, <1>6, <1>7 DEF InstallInv, Dir

LEMMA HostKeepsInv ==
  ASSUME HostInv, Host
  PROVE  HostInv'
<1>1. TransferInv' /\ HostShape'
  BY HostKeepsShape DEF HostInv
<1>2. emptied' => Nowhere'
  BY HostStaysNowhere DEF HostInv
<1>3. Undisturbed' => emptied' \/ InstallInv'
  <2> SUFFICES ASSUME Undisturbed', ~emptied'
               PROVE  InstallInv'
    OBVIOUS
  <2>1. Undisturbed
    BY HostFrame DEF Undisturbed
  <2>2. CASE emptied
    <3>1. PICK p \in Packages, total \in Size : Begins(p, total)
      BY <2>2, HostFrame
    <3>2. HostBegin(p, total) /\ staging' # staging
      BY <2>2, <3>1 DEF Begins
    <3> QED
      BY <1>1, <2>2, <3>2, BeginsAnew DEF HostInv
  <2>3. CASE ~emptied
    <3>1. InstallInv
      BY <2>1, <2>3 DEF HostInv
    <3>2. InstallNext
      BY <3>1, HostKinds, OddNeedsReset DEF InstallNext
    <3> QED
      BY <3>1, <3>2, InstallStep
  <2> QED
    BY <2>2, <2>3
<1> QED
  BY <1>1, <1>2, <1>3 DEF HostInv

LEMMA UiKeepsInv ==
  ASSUME HostInv, Ui
  PROVE  HostInv'
<1>1. CASE UNCHANGED <<installVars, emptied>> /\ (Undisturbed' => Undisturbed)
  <2>1. InstallInv => InstallInv'
    BY <1>1, InstallStep
  <2>2. TransferInv'
    BY <1>1, TransferStep DEF HostInv, installVars
  <2>3. UNCHANGED <<staging, active, step, incomingDir, activeDir, previousDir, emptied>>
    BY <1>1 DEF installVars, vars, transferVars, storeVars, dirs, hostVars
  <2> QED
    BY <1>1, <2>1, <2>2, <2>3 DEF HostInv, HostShape, Nowhere
<1>2. CASE UiLoad \/ ShowsCharacter \/ CyclesPet
  <2>1. UNCHANGED <<installVars, emptied, resetFailed>> /\ ui \in Loading
    BY <1>2 DEF UiLoad, LoadBegins, ReadsManifest, LoadEnds, ChecksFile, ShowsCharacter,
                CyclesPet, historyVars, emptyVars, Loading
  <2> QED
    BY <1>1, <2>1 DEF Undisturbed
<1>3. CASE UiResetBegins
  <2>1. /\ ResetTransfer /\ UNCHANGED <<ack, step, emptied, resetFailed>>
        /\ staging' = NoPackage /\ ui' = "closing"
    BY <1>3 DEF UiResetBegins, Abort, hostVars, emptyVars
  <2>2. TransferInv'
    BY <2>1, ResetKeeps DEF HostInv, TransferInv, FlagsOK
  <2>3. HostShape'
    BY <2>1 DEF HostInv, HostShape, ResetTransfer
  <2>4. Nowhere => Nowhere'
    BY <1>3, NothingRemains DEF UiResetBegins, StoreAbort, storeVars, dirs, Nowhere
  <2>5. ~Undisturbed'
    BY <2>1 DEF Undisturbed, Loading
  <2> QED
    BY <2>1, <2>2, <2>3, <2>4, <2>5 DEF HostInv
<1>4. ASSUME NEW from, NEW to, UiWipes(from, to)
      PROVE  TransferInv' /\ HostShape'
  <2>1. UNCHANGED vars /\ UNCHANGED <<step, staging, active>>
    BY <1>4 DEF UiWipes, hostVars, vars, transferVars
  <2>2. TransferInv'
    BY <2>1, TransferStep DEF HostInv
  <2> QED
    BY <2>1, <2>2 DEF HostInv, HostShape
<1>5. CASE UiScanEnds
  <2>1. /\ UiWipes("scanning", "wiped") /\ UNCHANGED dirs
        /\ wipeOk' = Wiped /\ emptied' = (emptied \/ Wiped)
    BY <1>5 DEF UiScanEnds
  <2>2. ui' = "wiped" /\ UNCHANGED <<incomingDir, activeDir, previousDir>>
    BY <2>1 DEF UiWipes, dirs
  <2>3. TransferInv' /\ HostShape'
    BY <1>4, <2>1
  <2>4. emptied' => Nowhere'
    BY <2>1, <2>2 DEF HostInv, Wiped, Nowhere
  <2>5. Undisturbed' => emptied'
    BY <2>1, <2>2 DEF Undisturbed, Loading
  <2> QED
    BY <2>3, <2>4, <2>5 DEF HostInv
\* The other steps of the removal are in the middle of it, or end it badly.
<1>6. CASE \/ UiClosesFile \/ UiUnlinksName
           \/ \E e \in Entries \ {"name"} :
                \/ UiOpensEntry(e)
                \/ \E f \in Files : UiUnlinks(e, f)
                \/ UiRemovesDir(e)
  <2>1. TransferInv' /\ HostShape'
    BY <1>4, <1>6 DEF UiClosesFile, UiUnlinksName, UiOpensEntry, UiUnlinks, UiRemovesDir
  <2>2. /\ emptied' = emptied
        /\ ui' \in {"scanning", "incoming", "active", "previous"}
             \/ (ui' = "wiped" /\ wipeOk' = FALSE)
    BY <1>6 DEF UiClosesFile, UiUnlinksName, UiOpensEntry, UiUnlinks, UiRemovesDir, UiWipes,
                emptyVars, Entries
  <2>3. ~Undisturbed'
    BY <2>2 DEF Undisturbed, Loading
  <2>4. Nowhere => Nowhere'
    BY <1>6 DEF UiClosesFile, UiUnlinksName, UiOpensEntry, UiUnlinks, UiRemovesDir, HasFile,
                DirOf, SetDir, dirs, Nowhere, Entries
  <2> QED
    BY <2>1, <2>2, <2>3, <2>4 DEF HostInv
<1>7. ASSUME NEW ok \in BOOLEAN, UiResetEnds(ok)
      PROVE  HostInv'
  <2>1. /\ UNCHANGED <<installVars, emptied>> /\ ui = "wiped"
        /\ resetFailed' = (resetFailed \/ ~wipeOk)
    BY <1>7 DEF UiResetEnds, emptyVars
  <2> QED
    BY <1>1, <2>1 DEF Undisturbed
<1> QED
  BY <1>2, <1>3, <1>5, <1>6, <1>7 DEF Ui, UiReset

LEMMA NextDisplay == HostInv /\ [DisplayNext]_displayVars => HostInv'
<1> SUFFICES ASSUME HostInv, [DisplayNext]_displayVars
             PROVE  HostInv'
  OBVIOUS
<1>1. CASE UNCHANGED displayVars
  <2>1. /\ UNCHANGED <<installVars, ui, wipeOk, resetFailed, emptied>>
        /\ UNCHANGED <<staging, active, step, incomingDir, activeDir, previousDir>>
    BY <1>1 DEF displayVars, uiVars, wipeVars, historyVars, emptyVars, installVars, vars,
                transferVars, storeVars, dirs, hostVars
  <2>2. InstallInv => InstallInv'
    BY <2>1, InstallStep
  <2>3. TransferInv'
    BY <2>1, TransferStep DEF HostInv, installVars
  <2> QED
    BY <2>1, <2>2, <2>3 DEF HostInv, HostShape, Nowhere, Undisturbed
<1> QED
  BY <1>1, HostKeepsInv, UiKeepsInv DEF DisplayNext

\* With the display and its resets beside the host thread, what the protocol counts
\* and what the store holds agree in every behaviour.
THEOREM DisplayInvariant == DisplaySpec => []HostInv
  BY InitDisplay, NextDisplay, PTL DEF DisplaySpec

\* And unless such a reset is under way or has failed half-way, the directory that
\* the display reads is a package, as it is without the display.
THEOREM ActiveIsPackageWithDisplay == DisplaySpec => [](Undisturbed => ActiveIsPackage)
<1>1. HostInv => (Undisturbed => ActiveIsPackage)
  BY DEF HostInv, Nowhere, InstallInv, Showable, ActiveIsPackage
<1> QED
  BY <1>1, DisplayInvariant, PTL

-----------------------------------------------------------------------------
(* The name of the character.                                                *)

\* A commit knows the name it will write from the step that begins it to its end; a
\* commit that a reset did not abort writes the name of what it stages.  And while
\* nothing is there, only the commit that the reset overtook is under way.
NamedInv ==
  /\ displayName # NoPackage => step \in Committing
  /\ active /\ step \in {"setAside", "putInPlace", "putBack", "clean", "name"}
       => displayName = staging
  /\ emptied => /\ activeName \in {NoPackage, overtaken}
                /\ displayName \in {NoPackage, overtaken}

LEMMA InitNamed == DisplayInit => NamedInv
  BY DEF DisplayInit, InstallInit, StoreInit, NamedInv

LEMMA HostNamed ==
  ASSUME HostInv, NamedInv, Host
  PROVE  NamedInv'
<1>1. ASSUME Transfer, UNCHANGED <<displayName, overtaken>>, emptied' => emptied
      PROVE  NamedInv'
  BY <1>1, HandlerLeaves DEF NamedInv, Committing
<1>2. ASSUME NEW p \in Packages, NEW total \in Size, Begins(p, total)
      PROVE  NamedInv'
  <2>1. Transfer
    BY <1>2, TransferAssumption DEF Begins, Transfer, Size, UInt32, Field
  <2> QED
    BY <1>1, <1>2, <2>1 DEF Begins
<1>3. CASE HostTransfer /\ Unnoticed
  <2>0. UNCHANGED <<displayName, overtaken, emptied>>
    BY <1>3 DEF Unnoticed, historyVars, emptyVars
  <2>1. UNCHANGED activeName /\ step = "idle" /\ step' = "idle"
    <3>1. CASE Transfer
      BY <3>1, HandlerLeaves
    <3>2. CASE ~Transfer
      <4>1. Size \subseteq Field /\ Absent \in Field \cup {Absent}
        BY TransferAssumption DEF Size, UInt32, Field
      <4>2. \/ \E path \in Files, size \in Size : OpensNothing(path, size)
            \/ \E len \in Size : ChunkIsLost(len)
            \/ ClosesNothing(Absent)
        BY <1>3, <3>2, <4>1 DEF HostTransfer, Transfer
      <4> QED
        BY <4>2 DEF OpensNothing, ChunkIsLost, ClosesNothing, Handler, hostVars,
                    StoreGivesUp, StoreAbort, StoreUntouched, storeVars
    <3> QED
      BY <3>1, <3>2
  <2> QED
    BY <2>0, <2>1 DEF NamedInv, Committing
<1>4. CASE HostCommit /\ Unnoticed
  <2>1. UNCHANGED <<displayName, overtaken, emptied>>
    BY <1>4 DEF Unnoticed, historyVars, emptyVars
  <2>2. /\ step' \in Committing
        /\ step' # "failed" => step \in {"setAside", "putInPlace", "putBack", "clean"}
        /\ UNCHANGED <<vars, staging>>
    BY <1>4 DEF HostCommit, CommitCannotBegin, CommitSetsAside, CommitCannotSetAside,
                CommitPutsInPlace, CommitCannotPutInPlace, CommitFindsNothing,
                CommitPutsBack, CommitCleans, InCommit, Committing
  <2>3. UNCHANGED activeName
    BY <1>4 DEF HostCommit, CommitCannotBegin, CommitSetsAside, CommitCannotSetAside,
                CommitPutsInPlace, CommitCannotPutInPlace, CommitFindsNothing,
                CommitPutsBack, CommitCleans, RemovePrevious, RemovePreviousFails,
                SetAside, RenameFails, PutInPlace, PutBack, storeVars
  <2>4. UNCHANGED active
    BY <2>2 DEF vars, transferVars
  <2> QED
    BY <2>1, <2>2, <2>3, <2>4 DEF NamedInv
<1>5. CASE (HostDeletion /\ Unnoticed) \/ DeletionEnds
  <2>1. UNCHANGED <<displayName, overtaken, emptied>>
    BY <1>5 DEF Unnoticed, DeletionEnds, historyVars, emptyVars
  <2>2. step \in {"idle"} \cup Deleting /\ step' \in {"idle"} \cup Deleting
    BY <1>5 DEF HostDeletion, DeletionBegins, DeletesIncoming, DeletesActive,
                DeletesPrevious, Wipe, DeletionEnds, DeletesName, WipeEnds, InDeletion,
                Deleting
  <2>3. activeName' \in {activeName, NoPackage}
    BY <1>5 DEF HostDeletion, DeletionBegins, DeletesIncoming, DeletesActive,
                DeletesPrevious, Wipe, DeletionEnds, DeletesName, WipeEnds, StoreAbort,
                DeleteIncoming, DeleteActive, DeletePrevious, DeleteName, storeVars
  <2> QED
    BY <2>1, <2>2, <2>3 DEF NamedInv, Committing, Deleting
<1>6. CASE CommitBeginsHere
  <2>1. ~emptied /\ ~emptied'
    BY <1>6 DEF CommitBeginsHere, historyVars, emptyVars, HostInv, Nowhere, HasFile
  <2>2. /\ step' = "setAside" /\ displayName' = staging /\ UNCHANGED staging
    BY <1>6 DEF CommitBeginsHere, CommitBegins, InCommit
  <2> QED
    BY <2>1, <2>2 DEF NamedInv, Committing
<1>7. CASE CommitEndsInvalidating
  <2>1. /\ step = "name" /\ step' = "idle" /\ displayName' = NoPackage
        /\ UNCHANGED <<overtaken, emptied>>
    BY <1>7 DEF CommitEndsInvalidating, CommitEnds, CommitEndsReset, historyVars, emptyVars
  <2>2. activeName' \in {activeName, displayName, NoPackage}
    <3>1. CASE CommitEndsReset
      BY <3>1 DEF CommitEndsReset, WriteName, WriteNameFails
    <3>2. CASE CommitEnds
      <4>1. staging = displayName \/ staging = NoPackage
        BY <2>1 DEF NamedInv, HostInv, HostShape
      <4> QED
        BY <3>2, <4>1 DEF CommitEnds, WriteName, WriteNameFails
    <3> QED
      BY <1>7, <3>1, <3>2 DEF CommitEndsInvalidating
  <2> QED
    BY <2>1, <2>2 DEF NamedInv, Committing
<1>8. CASE CommitFails
  <2>1. /\ step' = "idle" /\ displayName' = NoPackage
        /\ UNCHANGED <<overtaken, emptied, activeName>>
    BY <1>8 DEF CommitFails, CommitFailed, CommitFailedReset, StoreGivesUp, StoreAbort,
                storeVars, historyVars, emptyVars
  <2> QED
    BY <2>1 DEF NamedInv, Committing
<1> QED
  BY <1>2, <1>3, <1>4, <1>5, <1>6, <1>7, <1>8 DEF Host

LEMMA UiNamed ==
  ASSUME HostInv, NamedInv, Ui
  PROVE  NamedInv'
<1>1. UNCHANGED <<displayName, step>>
  BY DEF Ui, UiLoad, LoadBegins, ReadsManifest, LoadEnds, ChecksFile, ShowsCharacter,
      CyclesPet, UiReset, UiResetBegins, UiClosesFile, UiOpensEntry, UiUnlinks, UiRemovesDir,
      UiUnlinksName, UiScanEnds, UiResetEnds, UiWipes, installVars, hostVars
<1>2. active' = FALSE \/ UNCHANGED <<active, staging>>
  <2>1. CASE UiLoad \/ ShowsCharacter \/ CyclesPet
    BY <2>1 DEF UiLoad, LoadBegins, ReadsManifest, LoadEnds, ChecksFile, ShowsCharacter,
                CyclesPet, installVars, vars, transferVars
  <2>2. CASE UiReset
    BY <2>2 DEF UiReset, UiResetBegins, UiClosesFile, UiOpensEntry, UiUnlinks, UiRemovesDir,
                UiUnlinksName, UiScanEnds, UiResetEnds, UiWipes, installVars, vars,
                transferVars, Abort, ResetTransfer
  <2> QED
    BY <2>1, <2>2 DEF Ui
<1>3. CASE UiScanEnds
  <2>1. /\ UNCHANGED activeName
        /\ emptied' => emptied \/ Wiped
        /\ Wiped => overtaken' = displayName
        /\ ~Wiped => UNCHANGED overtaken
    BY <1>3 DEF UiScanEnds
  <2>2. emptied' => /\ activeName' \in {NoPackage, overtaken'}
                    /\ displayName' \in {NoPackage, overtaken'}
    BY <1>1, <2>1 DEF Wiped, NamedInv
  <2> QED
    BY <1>1, <1>2, <2>2 DEF NamedInv
<1>4. CASE ~UiScanEnds
  <2>1. UNCHANGED <<emptied, overtaken>>
    BY <1>4 DEF Ui, UiLoad, LoadBegins, ReadsManifest, LoadEnds, ChecksFile,
        ShowsCharacter, CyclesPet, UiReset, UiResetBegins, UiClosesFile, UiOpensEntry,
        UiUnlinks, UiRemovesDir, UiUnlinksName, UiResetEnds, historyVars, emptyVars
  <2>2. activeName' \in {activeName, NoPackage}
    BY <1>4 DEF Ui, UiLoad, LoadBegins, ReadsManifest, LoadEnds, ChecksFile,
        ShowsCharacter, CyclesPet, UiReset, UiResetBegins, UiClosesFile, UiOpensEntry,
        UiUnlinks, UiRemovesDir, UiUnlinksName, UiResetEnds, StoreAbort, installVars,
        storeVars
  <2> QED
    BY <1>1, <1>2, <2>1, <2>2 DEF NamedInv
<1> QED
  BY <1>3, <1>4

LEMMA NextNamed == HostInv /\ NamedInv /\ [DisplayNext]_displayVars => NamedInv'
<1> SUFFICES ASSUME HostInv, NamedInv, UNCHANGED displayVars
             PROVE  NamedInv'
  BY HostNamed, UiNamed DEF DisplayNext
<1>1. UNCHANGED <<displayName, step, active, staging, emptied, overtaken, activeName>>
  BY DEF displayVars, historyVars, emptyVars, installVars, vars, transferVars, storeVars,
      hostVars
<1> QED
  BY <1>1 DEF NamedInv

\* After a factory reset on the settings page has removed everything, no directory of
\* a package that was begun before it comes back, wherever in a command of the desktop
\* it came and whatever files failed; and the file with the name of the character only
\* if the reset overtook its commit, which writes the name last.
THEOREM ResetLeavesNothingHolds == DisplaySpec => []ResetLeavesNothing
<1>1. DisplaySpec => []NamedInv
  BY DisplayInvariant, InitNamed, NextNamed, PTL DEF DisplaySpec
<1>2. HostInv /\ NamedInv => ResetLeavesNothing
  BY DEF HostInv, Nowhere, NamedInv, ResetLeavesNothing
<1> QED
  BY <1>1, <1>2, DisplayInvariant, PTL

-----------------------------------------------------------------------------
(* The cached manifest.                                                      *)

\* The count of faults never goes down, and as long as it stays, a deletion goes
\* well and leaves nothing half-removed.
Counted ==
  /\ faults' \in Nat /\ faults' >= faults
  /\ faults' = faults => (allOk => allOk') /\ (~pruned => ~pruned')

LEMMA CommitCounts ==
  ASSUME faults \in Nat, Commit
  PROVE  Counted
<1>1. UNCHANGED allOk /\ (pruned' = pruned \/ pruned' = FALSE)
  BY DEF Commit, CommitBegins, CommitCannotBegin, CommitSetsAside, InCommit,
      CommitCannotSetAside, CommitPutsInPlace, CommitCannotPutInPlace, CommitPutsBack,
      CommitCleans, CommitEnds, CommitFailed
<1>2. faults' \in Nat /\ faults' >= faults
  BY DEF Commit, CommitBegins, CommitCannotBegin, CommitSetsAside, CommitCannotSetAside,
      CommitPutsInPlace, CommitCannotPutInPlace, CommitPutsBack, CommitCleans, CommitEnds,
      CommitFailed, RemovePrevious, RemovePreviousFails, SetAside, PutInPlace, PutBack,
      RenameFails, WriteName, WriteNameFails, StoreGivesUp, StoreAbort, storeVars, Fault,
      NoFault
<1> QED
  BY <1>1, <1>2 DEF Counted

LEMMA DeletionCounts ==
  ASSUME faults \in Nat, Deletion
  PROVE  Counted
<1>1. ASSUME NEW first \in {"deleteIncoming", "wipe"}, DeletionBegins(first)
      PROVE  Counted
  BY <1>1 DEF DeletionBegins, StoreAbort, storeVars, Counted
<1>2. ASSUME NEW ok \in BOOLEAN, WipeEnds(ok)
      PROVE  Counted
  BY <1>2 DEF WipeEnds, storeVars, Counted
<1>3. ASSUME NEW from, NEW to, InDeletion(from, to)
      PROVE  faults' = faults => (allOk => allOk')
  BY <1>3 DEF InDeletion
<1>4. ASSUME DeleteIncoming \/ DeletePrevious \/ DeleteName, UNCHANGED pruned
      PROVE  faults' \in Nat /\ faults' >= faults /\ (~pruned => ~pruned')
  BY <1>4 DEF DeleteIncoming, DeletePrevious, DeleteName, Fault, NoFault
<1>5. ASSUME DeleteActive, Prune
      PROVE  /\ faults' \in Nat /\ faults' >= faults
             /\ faults' = faults => ~pruned'
  <2>1. faults' = faults \/ faults' = faults + 1
    BY <1>5 DEF DeleteActive, Fault, NoFault
  <2>2. faults' = faults + 1 \/ activeDir' = NoDir
    BY <1>5 DEF DeleteActive, Fault, NoFault
  <2>3. activeDir' = NoDir => ~pruned'
    BY <1>5 DEF Prune
  <2>4. faults + 1 # faults
    OBVIOUS
  <2>5. faults' \in Nat /\ faults' >= faults
    BY <2>1
  <2> QED
    BY <2>2, <2>3, <2>4, <2>5
<1>6. CASE DeletesIncoming \/ DeletesPrevious \/ DeletesName
  BY <1>3, <1>4, <1>6 DEF DeletesIncoming, DeletesPrevious, DeletesName, Counted
<1>7. CASE DeletesActive
  BY <1>3, <1>5, <1>7 DEF DeletesActive, Counted
<1>8. CASE Wipe
  BY <1>3, <1>4, <1>5, <1>8 DEF Wipe, Counted
<1> QED
  BY <1>1, <1>2, <1>6, <1>7, <1>8 DEF Deletion

LEMMA OddCounts ==
  ASSUME faults \in Nat, OddStep
  PROVE  Counted
<1>1. StoreGivesUp(incomingDir, 0) => faults' = faults \/ faults' = faults + 1
  BY DEF StoreGivesUp, StoreAbort
<1>2. faults' = faults \/ faults' = faults + 1
  <2>1. CASE \/ \E path \in Files, size \in Size : OpensNothing(path, size)
             \/ \E len \in Size : ChunkIsLost(len)
             \/ ClosesNothing(Absent)
    BY <1>1, <2>1 DEF OpensNothing, ChunkIsLost, ClosesNothing, StoreUntouched, storeVars
  <2>2. CASE CommitFindsNothing \/ CommitEndsReset \/ CommitFailedReset
    BY <2>2 DEF CommitFindsNothing, CommitEndsReset, CommitFailedReset, storeVars, WriteName,
                WriteNameFails, Fault, NoFault
  <2> QED
    BY <2>1, <2>2 DEF OddStep
<1>3. UNCHANGED <<allOk, pruned>>
  BY DEF OddStep, OpensNothing, ChunkIsLost, ClosesNothing, CommitFindsNothing,
      CommitEndsReset, CommitFailedReset, Handler, hostVars, InCommit
<1>4. faults' \in Nat /\ faults' >= faults
  BY <1>2
<1> QED
  BY <1>3, <1>4 DEF Counted

LEMMA HostCounts ==
  ASSUME faults \in Nat, Host
  PROVE  Counted
<1>1. CASE Transfer
  <2>1. UNCHANGED pruned
    BY <1>1 DEF Transfer, HostBegin, HostFile, HostChunk, HostFileEnd, HostEndFails, Handler
  <2> QED
    BY <1>1, <2>1, TransferCounts, HandlerStays DEF Counted
<1> QED
  BY <1>1, CommitCounts, DeletionCounts, OddCounts, HostKinds

\* Without a fault the host thread comes to no step that undoes a commit.
LEMMA NoUndoing ==
  ASSUME HostInv, FaultlessInv, Host, faults' = 0, Undisturbed', ~emptied'
  PROVE  step' \notin {"putBack", "failed"}
<1>1. Undisturbed /\ faults = 0 /\ faults \in Nat
  BY HostFrame, HostCounts DEF Undisturbed, FaultlessInv, Counted
<1>2. CASE \E p \in Packages, total \in Size : Begins(p, total)
  BY <1>2 DEF Begins, HostBegin, Handler, hostVars
<1>3. CASE emptied' = emptied
  <2>1. InstallInv /\ step \notin {"putBack", "failed"}
    BY <1>1, <1>3 DEF HostInv, FaultlessInv
  <2>2. CASE Transfer
    BY <1>1, <2>2, HandlerStays
  <2>3. CASE Commit
    BY <1>1, <2>1, <2>3
    DEF Commit, CommitBegins, CommitCannotBegin, CommitSetsAside, CommitCannotSetAside,
        CommitPutsInPlace, CommitCannotPutInPlace, CommitPutsBack, CommitCleans, CommitEnds,
        CommitFailed, InCommit, RemovePreviousFails, RenameFails, Fault
  <2>4. CASE Deletion
    BY <2>4
    DEF Deletion, DeletionBegins, DeletesIncoming, DeletesActive, DeletesPrevious,
        DeletesName, Wipe, WipeEnds, InDeletion
  <2> QED
    BY <2>1, <2>2, <2>3, <2>4, HostKinds, OddNeedsReset
<1> QED
  BY <1>2, <1>3, HostFrame

LEMMA UiFrame ==
  ASSUME Ui
  PROVE  /\ UNCHANGED <<step, allOk, pruned>>
         /\ faults' = faults \/ (UiResetBegins /\ StoreAbort(incomingDir, 0))
         /\ Undisturbed' /\ ~emptied' => Undisturbed /\ ~emptied
<1>1. UNCHANGED <<step, allOk, pruned>>
  BY DEF Ui, UiLoad, LoadBegins, ReadsManifest, LoadEnds, ChecksFile, ShowsCharacter,
      CyclesPet, UiReset, UiResetBegins, UiClosesFile, UiOpensEntry, UiUnlinks, UiRemovesDir,
      UiUnlinksName, UiScanEnds, UiResetEnds, UiWipes, installVars, hostVars
<1>2. faults' = faults \/ (UiResetBegins /\ StoreAbort(incomingDir, 0))
  BY DEF Ui, UiLoad, LoadBegins, ReadsManifest, LoadEnds, ChecksFile, ShowsCharacter,
      CyclesPet, UiReset, UiResetBegins, UiClosesFile, UiOpensEntry, UiUnlinks, UiRemovesDir,
      UiUnlinksName, UiScanEnds, UiResetEnds, UiWipes, installVars, storeVars
<1>3. Undisturbed' /\ ~emptied' => Undisturbed /\ ~emptied
  <2>1. CASE UiLoad \/ ShowsCharacter \/ CyclesPet
    BY <2>1 DEF UiLoad, LoadBegins, ReadsManifest, LoadEnds, ChecksFile, ShowsCharacter,
                CyclesPet, historyVars, emptyVars, Loading, Undisturbed
  <2>2. CASE UiReset
    BY <2>2 DEF UiReset, UiResetBegins, UiClosesFile, UiOpensEntry, UiUnlinks, UiRemovesDir,
                UiUnlinksName, UiScanEnds, UiResetEnds, UiWipes, emptyVars, Entries, Loading,
                Undisturbed
  <2> QED
    BY <2>1, <2>2 DEF Ui
<1> QED
  BY <1>1, <1>2, <1>3

LEMMA NextFaultless ==
  ASSUME HostInv, FaultlessInv, [DisplayNext]_displayVars
  PROVE  FaultlessInv'
<1>1. CASE Host
  <2>1. Counted
    BY <1>1, HostCounts DEF FaultlessInv
  <2> QED
    BY <1>1, <2>1, NoUndoing DEF FaultlessInv, Counted
<1>2. CASE Ui
  <2>1. faults' \in Nat /\ faults' >= faults
    BY <1>2, UiFrame DEF FaultlessInv, StoreAbort
  <2> QED
    BY <1>2, <2>1, UiFrame DEF FaultlessInv
<1>3. CASE UNCHANGED displayVars
  <2>1. UNCHANGED <<faults, allOk, pruned, step, ui, wipeOk, resetFailed, emptied>>
    BY <1>3 DEF displayVars, uiVars, wipeVars, historyVars, emptyVars, installVars, storeVars,
                hostVars
  <2> QED
    BY <2>1 DEF FaultlessInv, Undisturbed
<1> QED
  BY <1>1, <1>2, <1>3 DEF DisplayNext

LEMMA AgreesKept ==
  ASSUME UNCHANGED <<ui, available, manifestOf, cached, activeDir>>
  PROVE  Agrees' <=> Agrees
  BY DEF Agrees, PackageIn, HoldsPackage, Complete, Unmixed, IsWhole

LEMMA InvalidatedStays ==
  ASSUME Host, ~invalidated'
  PROVE  ~invalidated /\ ~CommitEndsInvalidating /\ (DeletionEnds => ~allOk')
<1>1. ~CommitEndsInvalidating
  BY DEF CommitEndsInvalidating
<1>2. DeletionEnds => ~invalidated /\ ~allOk'
  BY DEF DeletionEnds
<1>3. invalidated' = invalidated \/ CommitEndsInvalidating \/ DeletionEnds
  BY DEF Host, Begins, Unnoticed, CommitBeginsHere, CommitFails, uiVars, cacheVars
<1> QED
  BY <1>1, <1>2, <1>3

\* Between two commands the host thread leaves the active directory alone, and before
\* it changes it in a commit or a deletion, the end of the command is settled.
LEMMA HostSettles ==
  ASSUME InstallInv, Host, ~CommitEndsInvalidating, ~DeletionEnds, faults = 0, faults' = 0,
         step \notin {"putBack", "failed"}
  PROVE  \/ step' \in {"putInPlace", "clean", "name", "deletePrevious", "deleteName", "wipe"}
         \/ /\ step \in {"idle", "deleteIncoming"}
            /\ activeDir' = activeDir
<1> DEFINE Ahead == step' \in {"putInPlace", "clean", "name", "deletePrevious", "deleteName",
                               "wipe"}
           Aside == step \in {"idle", "deleteIncoming"} /\ activeDir' = activeDir
<1>1. ~OddStep
  BY OddNeedsReset
<1>2. ~Fault
  BY DEF Fault
<1>3. ASSUME NEW p \in Packages, NEW total \in Size, Begins(p, total)
      PROVE  Aside
  BY <1>3 DEF Begins, HostBegin, Handler, StoreUntouched, StoreBeginFails, StoreBegin,
              storeVars, dirs
<1>4. CASE HostTransfer
  <2>1. ASSUME StoreUntouched \/ (\E d, n : StoreGivesUp(d, n)) \/ StoreClose
               \/ (\E f, q, s : StoreOpen(f, q, s)) \/ (\E n : StoreWrite(n))
        PROVE  activeDir' = activeDir
    BY <2>1 DEF StoreUntouched, StoreGivesUp, StoreAbort, StoreClose, StoreOpen, StoreWrite,
                storeVars, dirs
  <2>2. ASSUME NEW path \in Files, NEW size \in Size, HostFile(path, size)
        PROVE  Aside
    BY <2>1, <2>2 DEF HostFile, Handler
  <2>3. ASSUME NEW len \in Size, HostChunk(len)
        PROVE  Aside
    BY <2>1, <2>3 DEF HostChunk, Handler
  <2>4. CASE HostFileEnd(Absent) \/ HostEndFails
    BY <2>1, <2>4 DEF HostFileEnd, HostEndFails, Handler
  <2> QED
    BY <1>1, <1>4, <2>2, <2>3, <2>4 DEF HostTransfer, OddStep
<1>5. CASE HostCommit
  <2>1. \/ CommitSetsAside \/ CommitPutsInPlace \/ CommitCleans
    BY <1>1, <1>2, <1>5
    DEF HostCommit, OddStep, CommitCannotBegin, CommitCannotSetAside, CommitCannotPutInPlace,
        CommitPutsBack, InCommit, RemovePreviousFails, RenameFails
  <2> QED
    BY <2>1 DEF CommitSetsAside, CommitPutsInPlace, CommitCleans, InCommit
<1>6. CASE HostDeletion
  <2>1. ASSUME NEW first \in {"deleteIncoming", "wipe"}, DeletionBegins(first)
        PROVE  Aside \/ Ahead
    BY <2>1 DEF DeletionBegins, StoreAbort, storeVars, dirs
  <2> QED
    BY <1>6, <2>1 DEF HostDeletion, DeletesIncoming, DeletesActive, DeletesPrevious, Wipe,
                      InDeletion, DeleteIncoming
<1>7. CASE CommitBeginsHere
  BY <1>7 DEF CommitBeginsHere, CommitBegins, InCommit, RemovePrevious
<1>8. CASE CommitFails
  BY <1>1, <1>8 DEF CommitFails, CommitFailed, OddStep
<1> QED
  BY <1>3, <1>4, <1>5, <1>6, <1>7, <1>8 DEF Host

LEMMA HostCache ==
  ASSUME HostInv, FaultlessInv, CacheInv, Host
  PROVE  CacheInv'
<1>1. UNCHANGED <<ui, available, manifestOf, cached, resetFailed>>
  BY HostFrame
<1>2. FaultlessInv' /\ Counted
  BY NextFaultless, HostCounts DEF DisplayNext, FaultlessInv
<1>3. ASSUME faults' = 0, ~resetFailed', ui' \in Loading, ~invalidated', ~Settling'
      PROVE  Agrees'
  <2>1. faults = 0 /\ faults' = faults
    BY <1>2, <1>3 DEF FaultlessInv, Counted
  <2>2. Undisturbed /\ ~invalidated /\ allOk' /\ ~CommitEndsInvalidating /\ ~DeletionEnds
    BY <1>1, <1>2, <1>3, InvalidatedStays DEF Undisturbed, FaultlessInv
  <2>3. Settling \/ Agrees
    BY <1>1, <1>3, <2>1, <2>2 DEF CacheInv
  <2>4. ASSUME NEW p \in Packages, NEW total \in Size, Begins(p, total)
        PROVE  Agrees'
    <3>1. step = "idle" /\ activeDir' = activeDir
      BY <2>4 DEF Begins, HostBegin, Handler, StoreUntouched, StoreBeginFails, StoreBegin,
                  storeVars, dirs
    <3> QED
      BY <1>1, <2>3, <3>1, AgreesKept DEF Settling
  <2>5. CASE emptied /\ emptied'
    <3>1. activeDir' = activeDir
      BY <2>5, HostStaysNowhere DEF HostInv, Nowhere
    <3> QED
      BY <1>1, <2>3, <2>5, <3>1, AgreesKept DEF Settling
  <2>6. CASE ~emptied /\ ~emptied'
    <3>1. InstallInv /\ step \notin {"putBack", "failed"}
      BY <2>1, <2>2, <2>6 DEF HostInv, FaultlessInv
    <3>2. step \in {"idle", "deleteIncoming"} /\ activeDir' = activeDir
      BY <1>3, <2>1, <2>2, <2>6, <3>1, HostSettles DEF Settling
    <3> QED
      BY <1>1, <2>3, <3>2, AgreesKept DEF Settling
  <2> QED
    BY <2>4, <2>5, <2>6, HostFrame
<1> QED
  BY <1>1, <1>3 DEF CacheInv

\* What the UI thread reads from the active directory is a package or nothing at all.
LEMMA ManifestIsOfPackage ==
  ASSUME HostInv, FaultlessInv, faults = 0, Undisturbed, HasFile(activeDir, Manifest)
  PROVE  HoldsPackage(activeDir, activeDir[Manifest].from)
<1>1. InstallInv /\ ~pruned
  BY DEF HostInv, FaultlessInv, HasFile, Nowhere
<1>2. PICK p \in Packages : Unmixed(activeDir, p) /\ Complete(activeDir, p)
  BY <1>1 DEF InstallInv, Showable, HasFile
<1>3. activeDir[Manifest].from = p
  BY <1>2, FilesAssumption DEF Unmixed, IsWhole, HasFile
<1> QED
  BY <1>2, <1>3 DEF HoldsPackage, HasFile

LEMMA UiCache ==
  ASSUME HostInv, FaultlessInv, CacheInv, Ui
  PROVE  CacheInv'
<1>1. CASE UiReset
  <2>1. CASE ui' \notin Loading
    BY <2>1 DEF CacheInv, Loading
  <2>2. ASSUME NEW ok \in BOOLEAN, UiResetEnds(ok)
        PROVE  CacheInv'
    BY <2>2 DEF UiResetEnds, CacheInv
  <2> QED
    BY <1>1, <2>1, <2>2
    DEF UiReset, UiResetBegins, UiClosesFile, UiOpensEntry, UiUnlinks, UiRemovesDir,
        UiUnlinksName, UiScanEnds, UiWipes, Entries, Loading
<1>2. CASE UiLoad \/ ShowsCharacter \/ CyclesPet
  <2>1. /\ UNCHANGED <<faults, step, activeDir, resetFailed, emptied>>
        /\ ui \in Loading /\ Settling' = Settling
    BY <1>2 DEF UiLoad, LoadBegins, ReadsManifest, LoadEnds, ChecksFile, ShowsCharacter,
                CyclesPet, historyVars, emptyVars, Loading, installVars, storeVars, dirs,
                hostVars, Settling
  <2>2. CASE LoadBegins
    BY <2>2 DEF LoadBegins, CacheInv, Agrees
  <2>3. CASE ReadsManifest
    <3>1. ui = "reading" /\ ~available /\ cached = {}
             /\ UNCHANGED <<available, cached, invalidated>>
      BY <2>3 DEF ReadsManifest, CacheInv
    <3>2. CASE HasFile(activeDir, Manifest)
      <4>1. ui' = "checking" /\ manifestOf' = activeDir[Manifest].from
        BY <2>3, <3>2 DEF ReadsManifest
      <4>2. ASSUME faults = 0, ~resetFailed
            PROVE  HoldsPackage(activeDir, manifestOf')
        BY <2>1, <3>2, <4>1, <4>2, ManifestIsOfPackage DEF Undisturbed
      <4>3. faults = 0 /\ ~resetFailed => Agrees'
        BY <2>1, <3>1, <4>1, <4>2 DEF Agrees, HoldsPackage, Complete, Unmixed, IsWhole
      <4> QED
        BY <2>1, <3>1, <4>1, <4>3 DEF CacheInv
    <3>3. CASE ~HasFile(activeDir, Manifest)
      <4>1. ui' = "idle"
        BY <2>3, <3>3 DEF ReadsManifest
      <4>2. \A p \in Packages : ~HoldsPackage(activeDir, p)
        BY <3>3 DEF HoldsPackage, Complete, HasFile
      <4>3. PackageIn(activeDir)' = NoPackage
        BY <2>1, <4>2 DEF PackageIn, HoldsPackage, Complete, Unmixed, IsWhole
      <4>4. Agrees'
        BY <3>1, <4>1, <4>3 DEF Agrees
      <4> QED
        BY <3>1, <4>1, <4>4 DEF CacheInv
    <3> QED
      BY <3>2, <3>3
  <2>4. ASSUME NEW f \in Files, ChecksFile(f)
        PROVE  CacheInv'
    <3>1. /\ ui = "checking" /\ f \in Names[manifestOf] \ cached /\ ~available
          /\ UNCHANGED <<available, manifestOf, invalidated>>
          /\ ui' \in {"checking", "idle"}
      BY <2>4 DEF ChecksFile, CacheInv
    <3>2. ASSUME Agrees
          PROVE  Agrees'
      <4>1. HoldsPackage(activeDir, manifestOf) /\ cached \subseteq Names[manifestOf]
        BY <3>1, <3>2 DEF Agrees
      <4>2. HasFile(activeDir, f)
        BY <3>1, <4>1 DEF HoldsPackage, Complete, HasFile
      <4>3. cached' = cached \cup {f} /\ ui' = "checking"
        BY <2>4, <3>1, <4>2 DEF ChecksFile
      <4>4. HoldsPackage(activeDir, manifestOf)'
        BY <2>1, <3>1, <4>1 DEF HoldsPackage, Complete, Unmixed, IsWhole
      <4>5. (cached \subseteq Names[manifestOf])'
        BY <3>1, <4>1, <4>3
      <4> QED
        BY <4>3, <4>4, <4>5 DEF Agrees
    <3> QED
      BY <2>1, <3>1, <3>2 DEF CacheInv
  <2>5. CASE LoadEnds
    <3>1. /\ ui = "checking" /\ cached = Names[manifestOf] /\ ui' = "idle" /\ available'
          /\ UNCHANGED <<manifestOf, cached, invalidated>>
      BY <2>5 DEF LoadEnds
    <3>2. HoldsPackage(activeDir, manifestOf) => HoldsPackage(activeDir, manifestOf)'
      BY <2>1, <3>1 DEF HoldsPackage, Complete, Unmixed, IsWhole
    <3>3. Agrees => Agrees'
      BY <3>1, <3>2 DEF Agrees
    <3> QED
      BY <2>1, <3>1, <3>3 DEF CacheInv
  <2>6. CASE ShowsCharacter
    <3>1. UNCHANGED <<ui, available, manifestOf, cached, invalidated>>
      BY <2>6 DEF ShowsCharacter, cacheVars
    <3> QED
      BY <2>1, <3>1, AgreesKept DEF CacheInv
  <2>7. CASE CyclesPet
    BY <2>7 DEF CyclesPet, CacheInv
  <2> QED
    BY <1>2, <2>2, <2>3, <2>4, <2>5, <2>6, <2>7 DEF UiLoad
<1> QED
  BY <1>1, <1>2 DEF Ui

LEMMA NextCache ==
  HostInv /\ FaultlessInv /\ CacheInv /\ [DisplayNext]_displayVars => CacheInv'
<1> SUFFICES ASSUME HostInv, FaultlessInv, CacheInv, UNCHANGED displayVars
             PROVE  CacheInv'
  BY HostCache, UiCache DEF DisplayNext
<1>1. /\ UNCHANGED <<ui, available, manifestOf, cached, activeDir>>
      /\ UNCHANGED <<faults, resetFailed, invalidated, emptied, step>>
  BY DEF displayVars, uiVars, cacheVars, historyVars, emptyVars, installVars, storeVars, dirs,
      hostVars
<1> QED
  BY <1>1, AgreesKept DEF CacheInv, Settling

LEMMA InitCache == DisplayInit => FaultlessInv /\ CacheInv
  BY DEF DisplayInit, InstallInit, StoreInit, FaultlessInv, CacheInv

\* Once a load of the manifest is over and the host thread is between two commands,
\* what the home page draws from is the active character: a load whose file calls fell
\* between those of a commit or of a deletion has been invalidated since.
THEOREM CacheIsOfActiveHolds == DisplaySpec => []CacheIsOfActive
<1>1. DisplaySpec => [](FaultlessInv /\ CacheInv)
  <2>1. HostInv /\ FaultlessInv /\ CacheInv /\ [DisplayNext]_displayVars
          => (FaultlessInv /\ CacheInv)'
    BY NextFaultless, NextCache
  <2> QED
    BY <2>1, DisplayInvariant, InitCache, PTL DEF DisplaySpec
<1>2. CacheInv => CacheIsOfActive
  BY DEF CacheInv, CacheIsOfActive, Agrees, Settling, Loading
<1> QED
  BY <1>1, <1>2, PTL
=============================================================================
