-------------------------- MODULE CharacterInstall -------------------------
(***************************************************************************)
(* A character package from its first command to the directory the display  *)
(* reads: the transfer of BuddyProtocol.cpp with the store of               *)
(* buddy_character_store.c behind its hooks.  The handlers of the transfer   *)
(* are one step with all their file calls; the commit and the deletions,     *)
(* which a power loss can cut anywhere, are one step per call (step).        *)
(***************************************************************************)
EXTENDS CharacterTransfer, CharacterStore

CONSTANTS Names,          \* the files that the manifest of a package names
          MaxCrashes      \* bound: power losses

ASSUME InstallAssumption ==
  /\ NoPackage \notin Packages
  /\ Names \in [Packages -> SUBSET Files]
  /\ MaxFaults \in Nat /\ MaxCrashes \in Nat

VARIABLES step,           \* where the host thread is in a commit or deletion
          staging,        \* character_transfer_.safe_name
          hadActive,      \* had_active of buddy_character_store_commit
          allOk,          \* ok of the deletions
          crashes,
          pruned          \* history: a deletion removed a part of the character

hostVars == <<step, hadActive, allOk>>
installVars == <<vars, storeVars, hostVars, staging, crashes, pruned>>

InstallInit ==
  /\ Init /\ StoreInit
  /\ step = "idle" /\ hadActive = FALSE /\ allOk = TRUE
  /\ staging = NoPackage
  /\ crashes = 0
  /\ pruned = FALSE

-----------------------------------------------------------------------------
(* What is in a directory.                                                  *)

IsWhole(file, p) == file.from = p /\ file.size = file.announced

\* Nothing but files of p, each of them whole.
Unmixed(d, p) == \A f \in Files : d[f] # Missing => IsWhole(d[f], p)

Complete(d, p) ==
  /\ Unmixed(d, p)
  /\ \A f \in Names[p] \cup {Manifest} : d[f] # Missing

HoldsPackage(d, p) == d # NoDir /\ Complete(d, p)

PackageIn(d) ==
  IF \E p \in Packages : HoldsPackage(d, p)
  THEN CHOOSE p \in Packages : HoldsPackage(d, p)
  ELSE NoPackage

\* The character a display would find, but that a commit between its renamings
\* still counts as showing the old one.
Shown ==
  IF hadActive /\ step \in {"putInPlace", "putBack"}
  THEN PackageIn(previousDir)
  ELSE PackageIn(activeDir)

-----------------------------------------------------------------------------
(* The handlers of the transfer.                                            *)

Handler == step = "idle" /\ UNCHANGED <<hostVars, crashes, pruned>>

\* The effects on the store of a handler that refuses, and of one that gives
\* up having met n faults.
StoreUntouched == UNCHANGED <<storeVars, staging>>

StoreGivesUp(d, n) ==
  /\ StoreAbort(d, n)
  /\ staging' = NoPackage

HostBegin(p, total) ==
  /\ Handler
  /\ \/ BeginRefused(total) /\ StoreUntouched
     \/ BeginNoSpace(total) /\ StoreBeginFails /\ UNCHANGED staging
     \/ /\ BeginOk(total)
        /\ StoreBegin
        /\ staging' = p

HostFile(path, size) ==
  /\ Handler
  /\ \/ FileRefused /\ StoreUntouched
     \/ FileRejected(path, size) /\ StoreGivesUp(incomingDir, 0)
     \/ FileOpenFails(path, size) /\ StoreGivesUp(incomingDir, 1)
     \/ /\ FileOk(path, size)
        /\ StoreOpen(path, staging, size)
        /\ UNCHANGED staging

HostChunk(len) ==
  /\ Handler
  /\ \/ ChunkRefused /\ StoreUntouched
     \/ ChunkRejected(len) /\ StoreGivesUp(incomingDir, 0)
     \/ /\ ChunkWriteFails(len)
        /\ \E n \in 0 .. len - 1 : StoreGivesUp(Longer(n), 1)
     \/ /\ ChunkOk(len)
        /\ StoreWrite(len)
        /\ UNCHANGED staging

\* close_file fails only when no file is open: not here (StagedAgrees).
HostFileEnd(reported) ==
  /\ Handler
  /\ \/ FileEndRefused /\ StoreUntouched
     \/ FileEndRejected(reported) /\ StoreGivesUp(incomingDir, 0)
     \/ /\ FileEndOk(reported)
        /\ StoreClose
        /\ UNCHANGED staging

\* The manifest of the package may be unusable whatever files are there.
HostEndFails ==
  /\ Handler
  /\ \/ EndRefused /\ StoreUntouched
     \/ (EndRejected \/ EndFails) /\ StoreGivesUp(incomingDir, 0)

-----------------------------------------------------------------------------
(* buddy_character_store_commit, called by handle_character_end.            *)

InCommit(from, to) ==
  /\ step = from
  /\ step' = to
  /\ UNCHANGED <<vars, staging, allOk, crashes>>

CommitBegins ==
  /\ InCommit("idle", "setAside")
  /\ Whole /\ StagedManifestHolds(Names[staging])
  /\ RemovePrevious /\ fd' = NoFile
  /\ UNCHANGED <<hadActive, pruned>>

CommitCannotBegin ==
  /\ InCommit("idle", "failed")
  /\ Whole /\ StagedManifestHolds(Names[staging])
  /\ RemovePreviousFails /\ fd' = NoFile
  /\ UNCHANGED <<hadActive, pruned>>

CommitSetsAside ==
  /\ InCommit("setAside", "putInPlace")
  /\ hadActive' = (activeDir # NoDir)
  /\ IF activeDir # NoDir THEN SetAside ELSE UNCHANGED storeVars
  /\ UNCHANGED pruned

CommitCannotSetAside ==
  /\ InCommit("setAside", "failed")
  /\ activeDir # NoDir
  /\ hadActive' = TRUE
  /\ RenameFails
  /\ UNCHANGED pruned

CommitPutsInPlace ==
  /\ InCommit("putInPlace", "clean")
  /\ PutInPlace
  /\ pruned' = FALSE
  /\ UNCHANGED hadActive

CommitCannotPutInPlace ==
  /\ InCommit("putInPlace", IF hadActive THEN "putBack" ELSE "failed")
  /\ RenameFails
  /\ UNCHANGED <<hadActive, pruned>>

\* FAULT: the old character stays where it was set aside.
CommitForgetsToPutBack ==
  /\ InCommit("putBack", "failed")
  /\ UNCHANGED <<storeVars, hadActive, pruned>>

\* The result of the renaming back is not looked at.
CommitPutsBack ==
  /\ InCommit("putBack", "failed")
  /\ PutBack \/ RenameFails
  /\ UNCHANGED <<hadActive, pruned>>

CommitCleans ==
  /\ InCommit("clean", "name")
  /\ RemovePrevious \/ RemovePreviousFails
  /\ UNCHANGED <<fd, hadActive, pruned>>

\* FAULT: the name of the character is left as it was.
CommitEndsWithoutName ==
  /\ step = "name" /\ step' = "idle"
  /\ EndOk
  /\ staging' = NoPackage
  /\ UNCHANGED <<storeVars, hadActive, allOk, crashes, pruned>>

CommitEnds ==
  /\ step = "name" /\ step' = "idle"
  /\ WriteName(staging) \/ WriteNameFails
  /\ EndOk
  /\ staging' = NoPackage
  /\ UNCHANGED <<hadActive, allOk, crashes, pruned>>

CommitFailed ==
  /\ step = "failed" /\ step' = "idle"
  /\ EndFails
  /\ StoreGivesUp(incomingDir, 0)
  /\ UNCHANGED <<hadActive, allOk, crashes, pruned>>

-----------------------------------------------------------------------------
(* delete_character and factory_reset, commands of the desktop.             *)

DeletionBegins(first) ==
  /\ step = "idle" /\ step' = first
  /\ Abort
  /\ IF active THEN StoreAbort(incomingDir, 0) ELSE UNCHANGED storeVars
  /\ staging' = NoPackage
  /\ allOk' = TRUE
  /\ UNCHANGED <<hadActive, crashes, pruned>>

\* FAULT: only the last removal counts.
InDeletionCountingLast(from, to) ==
  /\ step = from
  /\ step' = to
  /\ allOk' = (faults' = faults)
  /\ UNCHANGED <<staging, hadActive, crashes>>

\* A deletion goes on, whether or not this removal fails, and remembers it.
InDeletion(from, to) ==
  /\ step = from
  /\ step' = to
  /\ allOk' = (allOk /\ faults' = faults)
  /\ UNCHANGED <<staging, hadActive, crashes>>

Prune ==
  pruned' = (activeDir' # NoDir /\ (pruned \/ activeDir' # activeDir))

DeletesIncoming ==
  /\ DeleteIncoming
  /\ InDeletion("deleteIncoming", "deleteActive")
  /\ UNCHANGED <<vars, pruned>>

DeletesActive ==
  /\ DeleteActive /\ Prune
  /\ InDeletion("deleteActive", "deletePrevious")
  /\ UNCHANGED vars

DeletesPrevious ==
  /\ DeletePrevious
  /\ InDeletion("deletePrevious", "deleteName")
  /\ UNCHANGED <<vars, pruned>>

DeletesName ==
  /\ DeleteName
  /\ InDeletion("deleteName", "idle")
  /\ Reset("char_delete", allOk')
  /\ UNCHANGED pruned

\* remove_tree of /characters takes its entries in the order of the directory
\* and stops at the first that stays.
Wipe ==
  /\ allOk
  /\ \/ incomingDir # NoDir /\ DeleteIncoming /\ UNCHANGED pruned
     \/ activeDir # NoDir /\ DeleteActive /\ Prune
     \/ previousDir # NoDir /\ DeletePrevious /\ UNCHANGED pruned
     \/ activeName # NoPackage /\ DeleteName /\ UNCHANGED pruned
  /\ InDeletion("wipe", "wipe")
  /\ UNCHANGED vars

Wiped == /\ incomingDir = NoDir /\ activeDir = NoDir /\ previousDir = NoDir
         /\ activeName = NoPackage

\* The preferences and the bonds follow, which may fail as well.
WipeEnds(ok) ==
  /\ step = "wipe" /\ step' = "idle"
  /\ ~allOk \/ Wiped
  /\ ok => allOk
  /\ Reset("factory_reset", ok)
  /\ UNCHANGED <<storeVars, staging, hadActive, allOk, crashes, pruned>>

\* Power is lost: what BuddyProtocol keeps in memory is gone, and nothing at
\* the next start looks at the directories.
PowerLoss ==
  /\ crashes < MaxCrashes
  /\ crashes' = crashes + 1
  /\ Abort
  /\ step' = "idle" /\ hadActive' = FALSE /\ allOk' = TRUE
  /\ staging' = NoPackage
  /\ fd' = NoFile
  /\ UNCHANGED <<dirs, activeName, faults, pruned>>

Transfer ==
  \/ \E p \in Packages, total \in Field : HostBegin(p, total)
  \/ \E path \in Files \cup {NoFile}, size \in Field : HostFile(path, size)
  \/ \E len \in Field : HostChunk(len)
  \/ \E reported \in Field \cup {Absent} : HostFileEnd(reported)
  \/ HostEndFails

Commit ==
  \/ CommitBegins \/ CommitCannotBegin
  \/ CommitSetsAside \/ CommitCannotSetAside
  \/ CommitPutsInPlace \/ CommitCannotPutInPlace
  \/ CommitPutsBack \/ CommitCleans \/ CommitEnds \/ CommitFailed

Deletion ==
  \/ \E first \in {"deleteIncoming", "wipe"} : DeletionBegins(first)
  \/ DeletesIncoming \/ DeletesActive \/ DeletesPrevious \/ DeletesName
  \/ Wipe
  \/ \E ok \in BOOLEAN : WipeEnds(ok)

InstallNext == Transfer \/ Commit \/ Deletion \/ PowerLoss

InstallSpec == InstallInit /\ [][InstallNext]_installVars

-----------------------------------------------------------------------------
(* Properties                                                               *)

Steps == {"idle", "setAside", "putInPlace", "putBack", "clean", "name",
          "failed", "deleteIncoming", "deleteActive", "deletePrevious",
          "deleteName", "wipe"}

InstallTypeOK ==
  /\ TypeOK
  /\ incomingDir \in Dir /\ activeDir \in Dir /\ previousDir \in Dir
  /\ activeName \in Packages \cup {NoPackage}
  /\ fd \in Files \cup {NoFile}
  /\ step \in Steps
  /\ hadActive \in BOOLEAN /\ allOk \in BOOLEAN /\ pruned \in BOOLEAN
  /\ staging \in IF active THEN Packages ELSE {NoPackage}
  /\ faults \in 0 .. MaxFaults /\ crashes \in 0 .. MaxCrashes

\* What the protocol counts is what is on the file system: while a package is
\* being received, the open file is the one it wrote to, with as many bytes
\* as it counted, and every other file of the staging area was closed whole
\* and came with this package, not with one that failed before.
StagedAgrees ==
  active /\ step = "idle" =>
    /\ incomingDir # NoDir
    /\ fd = filePath
    /\ fileOpen => incomingDir[filePath] =
         [from |-> staging, size |-> fileWritten, announced |-> fileExpected]
    /\ \A f \in Files \ {filePath} :
         incomingDir[f] # Missing => IsWhole(incomingDir[f], staging)
    /\ sawManifest /\ filePath # Manifest => incomingDir[Manifest] # Missing

\* Whatever fails and whenever power is lost, the directory the display reads
\* has only whole files, all of one package, and unless a deletion was cut
\* short it has all that the package's manifest names.
ActiveIsPackage ==
  activeDir # NoDir =>
    \E p \in Packages :
       Unmixed(activeDir, p) /\ (Complete(activeDir, p) \/ pruned)

\* A deletion that is acknowledged has left no character, and none that a
\* later failure could bring back.
DeletedIsGone ==
  step = "idle" /\ ack.cmd \in ResetCommands /\ ack.ok
    => activeDir = NoDir /\ previousDir = NoDir /\ activeName = NoPackage

\* The name that is shown belongs to the character that is shown, as long as
\* no file call fails and power stays.
NameIsOfActive ==
  step = "idle" /\ faults = 0 /\ crashes = 0 => activeName = Shown

Deleting == {"deleteIncoming", "deleteActive", "deletePrevious", "deleteName",
             "wipe"}

\* What the device is at, as the slot counts it: a commit replaces the
\* character between its two renamings.
Doing(at) ==
  CASE at = "putInPlace" -> "replacing"
    [] at = "putBack" -> "undoing"
    [] at \in Deleting -> "deleting"
    [] OTHER -> "nothing"

\* The slot changes only as a whole package arrives, or in a deletion that the
\* desktop ordered; a package that fails leaves no trace but in two cases,
\* which CharacterSlot has as actions of their own: power is lost between the
\* two renamings of a commit, or both the second and the one back fail.
\* docs/protocol.md:151 allows neither (PreviousStaysIntact).
Slot == INSTANCE CharacterSlot
          WITH slot <- Shown,
               staged <- IF step \in {"clean", "name"} THEN NoPackage
                         ELSE staging,
               doing <- Doing(step)

SlotSpec == Slot!Spec

\* docs/protocol.md: "A failed package must leave the previous active
\* character intact."  Between commands a character that was set aside is not
\* the only one there is.  The code does not keep this when power is lost between
\* the two renamings of a commit, or when both ways of one fail.
PreviousStaysIntact ==
  step = "idle" /\ activeDir = NoDir => PackageIn(previousDir) = NoPackage
=============================================================================
