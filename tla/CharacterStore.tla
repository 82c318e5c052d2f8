--------------------------- MODULE CharacterStore --------------------------
(***************************************************************************)
(* The character package store                                              *)
(* (src/app/src/storage/buddy_character_store.c): three directories, a file  *)
(* with the display name, and one open file.  An operator is what one hook,  *)
(* or one step of a hook that can be cut short by a power loss, does to      *)
(* them; CharacterInstall calls them.                                        *)
(*                                                                           *)
(* A call to the file system may fail.  A fault spends one of MaxFaults, and *)
(* remove_tree, which unlinks file by file, leaves a part of the tree then.  *)
(***************************************************************************)
EXTENDS CharacterFiles, Naturals

CONSTANTS Packages, NoPackage,
          Missing,        \* a file that is not in its directory
          NoDir,          \* a directory that does not exist
          MaxFaults       \* bound: calls to the file system that fail

VARIABLES incomingDir,    \* /characters/.incoming
          activeDir,      \* /characters/active
          previousDir,    \* /characters/.previous
          activeName,     \* whose name is in /characters/active_name.txt
          fd,             \* the file g_character_fd writes to
          faults          \* how many calls have failed

dirs == <<incomingDir, activeDir, previousDir>>
storeVars == <<dirs, activeName, fd, faults>>

EmptyDir == [f \in Files |-> Missing]

\* A file knows the package that brought it, its length, and the length that
\* the desktop announced for it.
StoredFile == [from : Packages, size : Nat, announced : Nat]
Contents == [Files -> StoredFile \cup {Missing}]
Dir == Contents \cup {NoDir}

ASSUME StoreAssumption ==
  /\ Missing \notin StoredFile
  /\ NoDir \notin Contents

StoreInit ==
  /\ incomingDir = NoDir /\ activeDir = NoDir /\ previousDir = NoDir
  /\ activeName = NoPackage
  /\ fd = NoFile
  /\ faults = 0

Fault == faults < MaxFaults /\ faults' = faults + 1
NoFault == UNCHANGED faults

\* What remove_tree can leave of a directory when it fails.
Remains(d) ==
  IF d = NoDir THEN {}
  ELSE {[f \in Files |-> IF f \in kept THEN d[f] ELSE Missing] :
          kept \in SUBSET Files}

-----------------------------------------------------------------------------
\* FAULT: the remains of an earlier package are taken over.
StoreBeginOver ==
  /\ incomingDir' = IF incomingDir = NoDir THEN EmptyDir ELSE incomingDir
  /\ fd' = NoFile
  /\ NoFault
  /\ UNCHANGED <<activeDir, previousDir, activeName>>

\* buddy_character_store_begin: the staging area is made anew.
StoreBegin ==
  /\ incomingDir' = EmptyDir
  /\ fd' = NoFile
  /\ NoFault
  /\ UNCHANGED <<activeDir, previousDir, activeName>>

\* The old staging area cannot be removed, or there is no room for a new one.
StoreBeginFails ==
  /\ \/ Fault /\ incomingDir' \in Remains(incomingDir)
     \/ NoFault /\ incomingDir' = NoDir
  /\ fd' = NoFile
  /\ UNCHANGED <<activeDir, previousDir, activeName>>

\* buddy_character_store_open_file truncates the file.
StoreOpen(f, package, size) ==
  /\ incomingDir # NoDir
  /\ incomingDir' = [incomingDir EXCEPT
        ![f] = [from |-> package, size |-> 0, announced |-> size]]
  /\ fd' = f
  /\ NoFault
  /\ UNCHANGED <<activeDir, previousDir, activeName>>

Longer(n) == [incomingDir EXCEPT ![fd].size = @ + n]

\* buddy_character_store_write.
StoreWrite(len) ==
  /\ fd # NoFile
  /\ incomingDir' = Longer(len)
  /\ NoFault
  /\ UNCHANGED <<activeDir, previousDir, activeName, fd>>

\* buddy_character_store_close_file.
StoreClose ==
  /\ fd # NoFile
  /\ fd' = NoFile
  /\ NoFault
  /\ UNCHANGED <<dirs, activeName>>

\* buddy_character_store_abort, called with the staging area left as d, by a
\* handler that has met n faults.
StoreAbort(d, n) ==
  /\ faults + n <= MaxFaults
  /\ \/ faults' = faults + n /\ incomingDir' = NoDir
     \/ /\ faults + n < MaxFaults
        /\ faults' = faults + n + 1
        /\ incomingDir' \in Remains(d)
  /\ fd' = NoFile
  /\ UNCHANGED <<activeDir, previousDir, activeName>>

\* FAULT: the files that the manifest names are not looked for.
StagedManifestFound(names) ==
  incomingDir # NoDir /\ incomingDir[Manifest] # Missing

\* The tests of handle_character_end that the staged package can pass:
\* read_file finds the manifest, and file_exists each file it names.
StagedManifestHolds(names) ==
  /\ incomingDir # NoDir
  /\ \A f \in names : incomingDir[f] # Missing

-----------------------------------------------------------------------------
(* The steps of buddy_character_store_commit.                               *)

\* remove_tree of .previous.
RemovePrevious ==
  /\ previousDir' = NoDir
  /\ NoFault
  /\ UNCHANGED <<incomingDir, activeDir, activeName>>

RemovePreviousFails ==
  /\ Fault
  /\ previousDir' \in Remains(previousDir)
  /\ UNCHANGED <<incomingDir, activeDir, activeName>>

\* rename(active, .previous).
SetAside ==
  /\ previousDir' = activeDir
  /\ activeDir' = NoDir
  /\ NoFault
  /\ UNCHANGED <<incomingDir, activeName, fd>>

\* rename(.incoming, active).
PutInPlace ==
  /\ activeDir' = incomingDir
  /\ incomingDir' = NoDir
  /\ NoFault
  /\ UNCHANGED <<previousDir, activeName, fd>>

\* rename(.previous, active), after the renaming of .incoming failed.
PutBack ==
  /\ activeDir' = previousDir
  /\ previousDir' = NoDir
  /\ NoFault
  /\ UNCHANGED <<incomingDir, activeName, fd>>

\* A renaming fails.
RenameFails ==
  /\ Fault
  /\ UNCHANGED <<dirs, activeName, fd>>

\* buddy_store_write_text; a failed write leaves no name, or the old one.
WriteName(package) ==
  /\ activeName' = package
  /\ NoFault
  /\ UNCHANGED <<dirs, fd>>

WriteNameFails ==
  /\ Fault
  /\ activeName' \in {activeName, NoPackage}
  /\ UNCHANGED <<dirs, fd>>

-----------------------------------------------------------------------------
(* The steps of buddy_character_store_delete_active.                        *)

DeleteIncoming ==
  /\ fd' = NoFile
  /\ \/ NoFault /\ incomingDir' = NoDir
     \/ Fault /\ incomingDir' \in Remains(incomingDir)
  /\ UNCHANGED <<activeDir, previousDir, activeName>>

DeleteActive ==
  /\ \/ NoFault /\ activeDir' = NoDir
     \/ Fault /\ activeDir' \in Remains(activeDir)
  /\ UNCHANGED <<incomingDir, previousDir, activeName, fd>>

DeletePrevious ==
  /\ \/ NoFault /\ previousDir' = NoDir
     \/ Fault /\ previousDir' \in Remains(previousDir)
  /\ UNCHANGED <<incomingDir, activeDir, activeName, fd>>

DeleteName ==
  /\ \/ NoFault /\ activeName' = NoPackage
     \/ Fault /\ UNCHANGED activeName
  /\ UNCHANGED <<dirs, fd>>
=============================================================================
