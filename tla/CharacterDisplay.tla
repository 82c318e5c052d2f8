-------------------------- MODULE CharacterDisplay -------------------------
(***************************************************************************)
(* What the display makes of the character directory while the host thread  *)
(* changes it: the cached manifest of buddy_character_runtime.c, filled by   *)
(* the UI thread in several file calls, the GIF of the home page, and the    *)
(* factory reset of the settings page, which removes the whole tree from the *)
(* UI thread.  CharacterInstall is the host thread; here its file calls may   *)
(* find that the other thread has taken a directory away.                    *)
(*                                                                           *)
(* A persona and the turn of the idle variants choose among the files of the *)
(* manifest; that choice is left open.                                       *)
(***************************************************************************)
EXTENDS CharacterInstall

CONSTANT MaxResets       \* bound: factory resets on the settings page

ASSUME DisplayAssumption == MaxResets \in Nat

VARIABLES ui,            \* what the UI thread is in the middle of
          invalidated,   \* s_invalidated, TRUE at boot; s_loaded is its past
          available,     \* s_available
          manifestOf,    \* whose manifest buddy_runtime_load_active holds
          cached,        \* the files in s_states
          gif,           \* s_home_character_path, and what lv_gif opened
          toVisit,       \* entries of /characters that readdir has yet to give
          toUnlink,      \* files of the directory being removed
          wipeOk,        \* what buddy_store_remove_tree returned so far
          displayName,   \* display_name of handle_character_end
          emptied,       \* history: a reset has wiped all since the last begin
          overtaken,     \* history: whose commit was under way as it did
          resetFailed,   \* history: a reset of the settings page has failed
          resets,        \* how many have begun
          refreshed      \* history: drawn since the last invalidation

cacheVars == <<invalidated, available, manifestOf, cached>>
wipeVars == <<toVisit, toUnlink, wipeOk>>
emptyVars == <<emptied, overtaken>>
historyVars == <<emptyVars, resetFailed, resets>>
gifVars == <<gif, refreshed>>
uiVars == <<ui, cacheVars, gifVars, wipeVars>>
displayVars == <<installVars, uiVars, displayName, historyVars>>

NoGif == [path |-> NoFile, from |-> NoPackage]
Entries == {"incoming", "active", "previous", "name"}

DisplayInit ==
  /\ InstallInit
  /\ ui = "idle"
  /\ invalidated = TRUE /\ available = FALSE
  /\ manifestOf = NoPackage /\ cached = {}
  /\ gif = NoGif /\ refreshed = FALSE
  /\ toVisit = {} /\ toUnlink = {} /\ wipeOk = TRUE
  /\ displayName = NoPackage
  /\ emptied = FALSE /\ overtaken = NoPackage
  /\ resetFailed = FALSE /\ resets = 0

-----------------------------------------------------------------------------
(* buddy_runtime_load_active.                                               *)

HasFile(d, f) == d # NoDir /\ d[f] # Missing

\* The flag goes down before anything is read.
LoadBegins ==
  /\ ui = "idle" /\ invalidated
  /\ ui' = "reading"
  /\ invalidated' = FALSE
  /\ available' = FALSE /\ cached' = {} /\ manifestOf' = NoPackage
  /\ UNCHANGED <<installVars, gifVars, wipeVars, displayName, historyVars>>

\* buddy_runtime_read_manifest, and cJSON_ParseWithLength of what it read.
ReadsManifest ==
  /\ ui = "reading"
  /\ IF HasFile(activeDir, Manifest)
     THEN manifestOf' = activeDir[Manifest].from /\ ui' = "checking"
     ELSE ui' = "idle" /\ UNCHANGED manifestOf
  /\ UNCHANGED <<installVars, invalidated, available, cached, gifVars, wipeVars,
                 displayName, historyVars>>

\* buddy_runtime_parse_state: the file must exist, or the load has failed.
ChecksFile(f) ==
  /\ ui = "checking" /\ f \in Names[manifestOf] \ cached
  /\ IF HasFile(activeDir, f)
     THEN cached' = cached \cup {f} /\ UNCHANGED ui
     ELSE ui' = "idle" /\ UNCHANGED cached
  /\ UNCHANGED <<installVars, invalidated, available, manifestOf, gifVars,
                 wipeVars, displayName, historyVars>>

\* FAULT: the flag goes down when the manifest has been taken over, so that an
\* invalidation in between is lost.
LoadEndsClearingFlag ==
  /\ ui = "checking" /\ cached = Names[manifestOf]
  /\ ui' = "idle"
  /\ available' = TRUE /\ invalidated' = FALSE
  /\ UNCHANGED <<installVars, manifestOf, cached, gifVars, wipeVars,
                 displayName, historyVars>>

LoadEnds ==
  /\ ui = "checking" /\ cached = Names[manifestOf]
  /\ ui' = "idle"
  /\ available' = TRUE
  /\ UNCHANGED <<installVars, invalidated, manifestOf, cached, gifVars, wipeVars,
                 displayName, historyVars>>

\* buddy_ui_update_character_gif with a cache that is loaded: the source is
\* set only when the path differs from the one that was set before.
ShowsCharacter ==
  /\ ui = "idle" /\ ~invalidated
  /\ IF available
     THEN \E f \in cached :
            gif' = IF f = gif.path THEN gif
                   ELSE [path |-> f,
                         from |-> IF HasFile(activeDir, f)
                                  THEN activeDir[f].from ELSE NoPackage]
     ELSE gif' = NoGif
  /\ refreshed' = TRUE
  /\ UNCHANGED <<installVars, ui, cacheVars, wipeVars, displayName,
                 historyVars>>

\* buddy_ui_cycle_pet reads the cache and then drops it.
CyclesPet ==
  /\ ui = "idle" /\ ~invalidated
  /\ invalidated' = TRUE
  /\ UNCHANGED <<installVars, ui, available, manifestOf, cached, gifVars,
                 wipeVars, displayName, historyVars>>

-----------------------------------------------------------------------------
(* buddy_ui_run_factory_reset, on the UI thread.                            *)

Present(e) ==
  CASE e = "incoming" -> incomingDir # NoDir
    [] e = "active"   -> activeDir # NoDir
    [] e = "previous" -> previousDir # NoDir
    [] e = "name"     -> activeName # NoPackage

DirOf(e) == CASE e = "incoming" -> incomingDir
              [] e = "active"   -> activeDir
              [] e = "previous" -> previousDir

SetDir(e, d) ==
  /\ incomingDir' = IF e = "incoming" THEN d ELSE incomingDir
  /\ activeDir'   = IF e = "active"   THEN d ELSE activeDir
  /\ previousDir' = IF e = "previous" THEN d ELSE previousDir

UiWipes(from, to) ==
  /\ ui = from /\ ui' = to
  /\ UNCHANGED <<transferVars, ack, closedBytes, hostVars, faults, crashes,
                 pruned, staging, cacheVars, gifVars, displayName, resetFailed, resets>>

\* The GIF is released, and a transfer is aborted whatever the host thread is
\* in the middle of.
UiResetBegins ==
  /\ ui = "idle" /\ resets < MaxResets
  /\ resets' = resets + 1
  /\ ui' = "closing"
  /\ gif' = NoGif /\ UNCHANGED refreshed
  /\ Abort
  /\ IF active THEN StoreAbort(incomingDir, 0) ELSE UNCHANGED storeVars
  /\ staging' = NoPackage
  /\ UNCHANGED <<crashes, hostVars, pruned, cacheVars, wipeVars, displayName,
                 emptyVars, resetFailed>>

\* buddy_character_store_delete_all.
UiClosesFile ==
  /\ UiWipes("closing", "scanning")
  /\ fd' = NoFile
  /\ toVisit' = Entries
  /\ UNCHANGED <<dirs, activeName, toUnlink, wipeOk, emptyVars>>

\* remove_tree of one entry: a file at once, a directory file by file.
UiOpensEntry(e) ==
  /\ e \in toVisit \ {"name"} /\ Present(e)
  /\ UiWipes("scanning", e)
  /\ toVisit' = toVisit \ {e}
  /\ toUnlink' = {f \in Files : HasFile(DirOf(e), f)}
  /\ UNCHANGED <<dirs, activeName, fd, wipeOk, emptyVars>>

UiUnlinks(e, f) ==
  /\ f \in toUnlink
  /\ UiWipes(e, e)
  /\ toUnlink' = toUnlink \ {f}
  /\ IF HasFile(DirOf(e), f)
     THEN SetDir(e, [DirOf(e) EXCEPT ![f] = Missing])
     ELSE UNCHANGED dirs
  /\ UNCHANGED <<activeName, fd, toVisit, wipeOk, emptyVars>>

\* rmdir fails when the directory has gone, or has files again.
UiRemovesDir(e) ==
  /\ toUnlink = {}
  /\ UiWipes(e, IF DirOf(e) = EmptyDir THEN "scanning" ELSE "wiped")
  /\ IF DirOf(e) = EmptyDir
     THEN SetDir(e, NoDir) /\ UNCHANGED wipeOk
     ELSE wipeOk' = FALSE /\ UNCHANGED dirs
  /\ UNCHANGED <<activeName, fd, toVisit, toUnlink, emptyVars>>

UiUnlinksName ==
  /\ "name" \in toVisit /\ Present("name")
  /\ UiWipes("scanning", "scanning")
  /\ toVisit' = toVisit \ {"name"}
  /\ activeName' = NoPackage
  /\ UNCHANGED <<dirs, fd, toUnlink, wipeOk, emptyVars>>

\* FAULT: the end of the scan is taken for an empty directory.
UiScanEndsUnchecked ==
  /\ \A e \in toVisit : ~Present(e)
  /\ UiWipes("scanning", "wiped")
  /\ wipeOk' = TRUE
  /\ emptied' = TRUE /\ overtaken' = displayName
  /\ UNCHANGED <<dirs, activeName, fd, toVisit, toUnlink>>

\* Nothing is left that readdir has not given: rmdir of /characters.
UiScanEnds ==
  /\ \A e \in toVisit : ~Present(e)
  /\ UiWipes("scanning", "wiped")
  /\ wipeOk' = Wiped
  /\ emptied' = (emptied \/ Wiped)
  /\ overtaken' = IF Wiped THEN displayName ELSE overtaken
  /\ UNCHANGED <<dirs, activeName, fd, toVisit, toUnlink>>

\* The preferences and the bonds follow, which may fail as well.
UiResetEnds(ok) ==
  /\ ui = "wiped" /\ ui' = "idle"
  /\ ok => wipeOk
  /\ invalidated' = (invalidated \/ wipeOk)
  /\ resetFailed' = (resetFailed \/ ~wipeOk)
  /\ toVisit' = {} /\ wipeOk' = TRUE
  /\ UNCHANGED <<installVars, available, manifestOf, cached, gifVars, toUnlink,
                 displayName, emptyVars, resets>>

UiLoad ==
  \/ LoadBegins \/ ReadsManifest \/ LoadEnds
  \/ \E f \in Files : ChecksFile(f)

UiReset ==
  \/ UiResetBegins \/ UiClosesFile
  \/ \E e \in Entries \ {"name"} :
       \/ UiOpensEntry(e)
       \/ \E f \in Files : UiUnlinks(e, f)
       \/ UiRemovesDir(e)
  \/ UiUnlinksName \/ UiScanEnds
  \/ \E ok \in BOOLEAN : UiResetEnds(ok)

-----------------------------------------------------------------------------
(* The host thread, which may find that a directory or a file has gone.     *)

Unnoticed == UNCHANGED <<uiVars, displayName, historyVars>>

\* The open file is where the transfer believes it to be.
FileIsThere == fileOpen => fd # NoFile /\ HasFile(incomingDir, fd)

Begins(p, total) ==
  /\ HostBegin(p, total)
  /\ emptied' = (emptied /\ staging' = staging)
  /\ UNCHANGED <<uiVars, displayName, overtaken, resetFailed, resets>>

OpensNothing(path, size) ==
  /\ Handler
  /\ incomingDir = NoDir
  /\ FileOpenFails(path, size)
  /\ StoreGivesUp(incomingDir, 0)

\* A descriptor that was closed takes nothing; one of a file that was
\* unlinked takes the bytes, which nobody will find.
ChunkIsLost(len) ==
  /\ Handler
  /\ ~FileIsThere
  /\ \/ ChunkRejected(len) /\ StoreGivesUp(incomingDir, 0)
     \/ /\ fd = NoFile /\ ChunkFits(len)
        /\ GiveUp("chunk", fileWritten)
        /\ StoreGivesUp(incomingDir, 0)
     \/ /\ fd # NoFile
        /\ ChunkOk(len)
        /\ StoreUntouched

ClosesNothing(reported) ==
  /\ Handler
  /\ fd = NoFile
  /\ FileCloseFails(reported)
  /\ StoreGivesUp(incomingDir, 0)

\* Ill-formed fields are refused without a trace, or end the transfer as other
\* mistakes do: CharacterInstall has them.
Size == UInt32

HostTransfer ==
  \/ \E path \in Files, size \in Size :
        HostFile(path, size) \/ OpensNothing(path, size)
  \/ \E len \in Size : (FileIsThere /\ HostChunk(len)) \/ ChunkIsLost(len)
  \/ HostFileEnd(Absent) \/ ClosesNothing(Absent)
  \/ HostEndFails

CommitBeginsHere ==
  /\ HasFile(incomingDir, Manifest)
  /\ CommitBegins
  /\ displayName' = staging
  /\ UNCHANGED <<uiVars, historyVars>>

CommitFindsNothing ==
  /\ InCommit("putInPlace", IF hadActive THEN "putBack" ELSE "failed")
  /\ incomingDir = NoDir
  /\ UNCHANGED <<storeVars, hadActive, pruned>>

\* The members of the transfer were reset meanwhile; the local copy of the
\* name was not.
CommitEndsReset ==
  /\ step = "name" /\ step' = "idle"
  /\ ~active
  /\ WriteName(displayName) \/ WriteNameFails
  /\ Reset("char_end", TRUE)
  /\ UNCHANGED <<staging, hadActive, allOk, crashes, pruned>>

CommitFailedReset ==
  /\ step = "failed" /\ step' = "idle"
  /\ ~active
  /\ GiveUp("char_end", 0)
  /\ UNCHANGED <<storeVars, staging, hadActive, allOk, crashes, pruned>>

HostCommit ==
  \/ CommitCannotBegin
  \/ CommitSetsAside \/ CommitCannotSetAside
  \/ incomingDir # NoDir /\ CommitPutsInPlace
  \/ CommitCannotPutInPlace \/ CommitFindsNothing
  \/ CommitPutsBack \/ CommitCleans

\* buddy_character_runtime_invalidate is the last call of a commit, and of a
\* deletion that has removed everything.
CommitEndsInvalidating ==
  /\ CommitEnds \/ CommitEndsReset
  /\ displayName' = NoPackage
  /\ invalidated' = TRUE /\ refreshed' = FALSE
  /\ UNCHANGED <<ui, available, manifestOf, cached, gif, wipeVars,
                 historyVars>>

CommitFails ==
  /\ CommitFailed \/ CommitFailedReset
  /\ displayName' = NoPackage
  /\ UNCHANGED <<uiVars, historyVars>>

DeletionEnds ==
  /\ DeletesName \/ \E ok \in BOOLEAN : WipeEnds(ok)
  /\ invalidated' = (invalidated \/ allOk')
  /\ refreshed' = (refreshed /\ ~allOk')
  /\ UNCHANGED <<ui, available, manifestOf, cached, gif, wipeVars,
                 displayName, historyVars>>

HostDeletion ==
  \/ \E first \in {"deleteIncoming", "wipe"} : DeletionBegins(first)
  \/ DeletesIncoming \/ DeletesActive \/ DeletesPrevious \/ Wipe

Host ==
  \/ \E p \in Packages, total \in Size : Begins(p, total)
  \/ (HostTransfer \/ HostCommit \/ HostDeletion) /\ Unnoticed
  \/ CommitBeginsHere \/ CommitEndsInvalidating \/ CommitFails
  \/ DeletionEnds

Ui == UiLoad \/ ShowsCharacter \/ CyclesPet \/ UiReset

DisplayNext == Ui \/ Host

DisplaySpec == DisplayInit /\ [][DisplayNext]_displayVars

-----------------------------------------------------------------------------
(* Properties                                                               *)

\* Once a load is over and the host thread is between two commands, the cache
\* is that of the active character, however its steps fell between those of a
\* commit or of a deletion: a manifest that was read too early has been
\* invalidated since.  A reset that failed half-way leaves it wrong.
CacheIsOfActive ==
  ui = "idle" /\ step = "idle" /\ ~invalidated /\ ~resetFailed /\ faults = 0
    => IF available
       THEN HoldsPackage(activeDir, manifestOf) /\ cached = Names[manifestOf]
       ELSE PackageIn(activeDir) = NoPackage

\* After a factory reset on the settings page has removed everything, no
\* directory of a package that was begun before it comes back, though the
\* reset may have come in the middle of a commit or of a file.  The file with
\* the name of the character may: a commit that was under way as the reset
\* looked for what is left writes it last, and only that commit does.
ResetLeavesNothing ==
  emptied => /\ incomingDir = NoDir /\ activeDir = NoDir /\ previousDir = NoDir
             /\ activeName \in {NoPackage, overtaken}

\* docs/protocol.md: char_end will "Validate manifest and activate package".
\* The home page that has been drawn since shows the package that is active.
\* The code does not keep this when a file of the new package has the path of
\* the GIF that is shown.
GifIsCurrent ==
  refreshed /\ ui = "idle" /\ step = "idle" /\ available /\ gif # NoGif
    => gif.from = PackageIn(activeDir)
=============================================================================
