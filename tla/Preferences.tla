---------------------------- MODULE Preferences -----------------------------
(***************************************************************************)
(* What the device remembers: the identity, the species and the statistics   *)
(* of BuddyProtocol, the settings of the display, and the keys that           *)
(* src/app/src/storage/buddy_prefs.c keeps of them on flash.  The BLE host    *)
(* thread and the UI thread change values in RAM, copy them and write the     *)
(* copies; either may reset everything.  The mutex of buddy_prefs.c covers     *)
(* one write, not the change before it.                                       *)
(*                                                                           *)
(* A value is the set of the changes it contains: the latest one for a name,  *)
(* all of them for the statistics, none for a default.  Changes are numbered.  *)
(* The four keys of the settings are one here.                                *)
(***************************************************************************)
EXTENDS Naturals, Sequences

CONSTANTS Host, Ui,       \* the two threads
          Absent,         \* a key that flash does not hold
          MaxChanges,     \* bound: changes of values
          MaxFaults       \* bound: calls that fail

Changes == 1 .. MaxChanges

ASSUME PrefsAssumption ==
  /\ MaxChanges \in Nat /\ MaxFaults \in Nat
  /\ Host # Ui
  /\ \A value \in SUBSET Changes : value # Absent

Threads == {Host, Ui}

Keys == {"name", "owner", "species", "stats", "settings"}

Stores == {"identity", "species", "stats", "settings"}

StoreOf(k) == IF k \in {"name", "owner"} THEN "identity" ELSE k

VARIABLES ram,            \* the values in RAM
          flash,          \* the keys on flash
          job,            \* what each thread is doing
          faults,
          next,           \* history: the number of the next change
          settled,        \* history: stores whose latest operation went well alone
          forgotten,      \* history: the next change when the latest reset
                          \* that was acknowledged began
          quiet           \* history: stores that no operation of the other
                          \* thread touched during that reset

prefVars == <<ram, flash, job, faults, next, settled, forgotten, quiet>>

Value == SUBSET Changes
OneChange == {{}} \cup {{n} : n \in Changes}

Defaults == [k \in Keys |-> {}]

\* at: the next step of the thread; key, copied: the key it has changed and its
\* copy of the value; mark, lone: the next change when it began, and whether
\* nothing has overlapped it yet (history).
Job == [at : {"idle", "copy", "write", "clear", "forget"}, key : Keys,
        copied : Value, mark : 1 .. MaxChanges + 1, lone : BOOLEAN]

NoJob == [at |-> "idle", key |-> "name", copied |-> {}, mark |-> 1,
          lone |-> FALSE]

Fault == faults < MaxFaults /\ faults' = faults + 1
NoFault == UNCHANGED faults

-----------------------------------------------------------------------------
(* Loading.                                                                 *)

\* load_persisted_identity takes both keys or none; the others have defaults.
Loaded(f) ==
  [k \in Keys |->
     IF f[k] = Absent \/ (StoreOf(k) = "identity"
                            /\ (f["name"] = Absent \/ f["owner"] = Absent))
     THEN {} ELSE f[k]]

PrefsInit ==
  /\ flash = [k \in Keys |-> Absent]
  /\ ram = Defaults
  /\ job = [t \in Threads |-> NoJob]
  /\ faults = 0
  /\ next = 1
  /\ settled = Stores
  /\ forgotten = 1
  /\ quiet = {}

-----------------------------------------------------------------------------
(* History: operations that overlap.                                        *)

Idle(t) == job[t].at = "idle"

Resetting(t) == job[t].at \in {"clear", "forget"}

\* The stores the operation of a thread works on.
Touches(t) ==
  IF Idle(t) THEN {}
  ELSE IF Resetting(t) THEN Stores
  ELSE {StoreOf(job[t].key)}

Apart(t, stores) == Touches(t) \cap stores = {}

\* Thread t begins a job that works on some stores.
Begins(t, stores, at, k) ==
  /\ settled' = settled \ stores
  /\ job' = [u \in Threads |->
               IF u # t THEN [job[u] EXCEPT !.lone = @ /\ Apart(u, stores)]
               ELSE IF at = "idle" THEN NoJob
               ELSE [at |-> at, key |-> k, copied |-> {}, mark |-> next,
                     lone |-> \A v \in Threads \ {t} : Apart(v, stores)]]

Goes(t, at) == job' = [job EXCEPT ![t].at = at]

Returns(t) == job' = [job EXCEPT ![t] = NoJob]

-----------------------------------------------------------------------------
(* Changing and saving.                                                     *)

\* Commands and snapshots change values on the host thread; decisions, the
\* choice of a species and the settings page on the UI thread.
MayChange(t) ==
  IF t = Host THEN {"name", "owner", "species", "stats"}
  ELSE {"species", "stats", "settings"}

Changed(k, n) == [ram EXCEPT ![k] = IF k = "stats" THEN @ \cup {n} ELSE {n}]

Change(t, k) ==
  /\ Idle(t) /\ next <= MaxChanges
  /\ ram' = Changed(k, next)
  /\ next' = next + 1
  /\ Begins(t, {StoreOf(k)}, "copy", k)
  /\ UNCHANGED <<flash, faults, forgotten, quiet>>

\* Tokens that do not reach a level are not saved.
ChangeUnsaved ==
  /\ Idle(Host) /\ next <= MaxChanges
  /\ ram' = Changed("stats", next)
  /\ next' = next + 1
  /\ Begins(Host, {"stats"}, "idle", "stats")
  /\ UNCHANGED <<flash, faults, forgotten, quiet>>

\* The argument of the save is made: a number, or a copy of the block.  The
\* identity is passed by address and read under the mutex.
Copy(t) ==
  /\ job[t].at = "copy"
  /\ job' = [job EXCEPT ![t].copied = ram[job[t].key], ![t].at = "write"]
  /\ UNCHANGED <<ram, flash, faults, next, settled, forgotten, quiet>>

\* FAULT: only the key that has changed is written.
KeysWrittenChanged(k) == {k}

\* save_identity writes both of its keys.
KeysWritten(k) == IF StoreOf(k) = "identity" THEN {"name", "owner"} ELSE {k}

\* Flash after thread t has written some of the keys.
Written(t, ks) ==
  [k \in Keys |-> IF k \notin ks THEN flash[k]
                  ELSE IF StoreOf(k) = "identity" THEN ram[k] ELSE job[t].copied]

\* What a write that fails, or is cut by a power loss, can leave: the owner is
\* written after the name.
PartlyWritten(t) ==
  {Written(t, ks) : ks \in {{}, KeysWritten(job[t].key) \cap {"name"}}}

\* The buddy_prefs_save function, under the mutex.
Write(t) ==
  /\ job[t].at = "write"
  /\ flash' = Written(t, KeysWritten(job[t].key))
  /\ settled' = IF job[t].lone THEN settled \cup {StoreOf(job[t].key)} ELSE settled
  /\ Returns(t) /\ NoFault
  /\ UNCHANGED <<ram, next, forgotten, quiet>>

\* The value in RAM stays although it was not saved.
WriteFails(t) ==
  /\ job[t].at = "write" /\ Fault
  /\ flash' \in PartlyWritten(t)
  /\ Returns(t)
  /\ UNCHANGED <<ram, next, settled, forgotten, quiet>>

-----------------------------------------------------------------------------
(* Factory reset.                                                           *)

ResetBegins(t) ==
  /\ Idle(t)
  /\ Begins(t, Stores, "clear", "name")
  /\ UNCHANGED <<ram, flash, faults, next, forgotten, quiet>>

\* FAULT: a key is left out.
KeysClearedButSpecies == Keys \ {"species"}

KeysCleared == Keys

Removed(ks) == [k \in Keys |-> IF k \in ks THEN Absent ELSE flash[k]]

\* buddy_prefs_clear_all, under the mutex.
Clear(t) ==
  /\ job[t].at = "clear"
  /\ flash' = Removed(KeysCleared)
  /\ Goes(t, "forget") /\ NoFault
  /\ UNCHANGED <<ram, next, settled, forgotten, quiet>>

\* Deleting the characters has failed, a removal fails here, or the unpairing
\* fails afterwards.  The rest is done all the same, but the RAM is left alone.
ClearFails(t) ==
  /\ job[t].at = "clear" /\ Fault
  /\ \E missed \in {{}} \cup {{k} : k \in KeysCleared} :
       flash' = Removed(KeysCleared \ missed)
  /\ Returns(t)
  /\ UNCHANGED <<ram, next, settled, forgotten, quiet>>

\* Only a reset from the settings page resets the settings in RAM.
KeysForgotten(t) == IF t = Ui THEN Keys ELSE Keys \ {"settings"}

\* The bonds are cleared, then the values of BuddyProtocol are reset.
Forget(t) ==
  LET gone == {StoreOf(k) : k \in KeysForgotten(t)}
  IN  /\ job[t].at = "forget"
      /\ ram' = [k \in Keys |-> IF k \in KeysForgotten(t) THEN {} ELSE ram[k]]
      /\ Returns(t)
      /\ forgotten' = job[t].mark
      /\ quiet' = IF job[t].lone THEN gone ELSE {}
      /\ settled' = IF job[t].lone THEN settled \cup gone ELSE settled
      /\ UNCHANGED <<flash, faults, next>>

-----------------------------------------------------------------------------
\* The order in which the keys are removed.
RemovalOrder == <<"name", "owner", "species", "stats", "settings">>

\* Power is lost, perhaps in the middle of a write or of the removals, and the
\* device starts again.
PowerLoss ==
  /\ \/ UNCHANGED flash
     \/ \E t \in Threads : job[t].at = "write" /\ flash' \in PartlyWritten(t)
     \/ \E t \in Threads, n \in 1 .. 5 :
          /\ job[t].at = "clear"
          /\ flash' = Removed(KeysCleared \cap {RemovalOrder[i] : i \in 1 .. n})
  /\ ram' = Loaded(flash')
  /\ job' = [t \in Threads |-> NoJob]
  /\ settled' = Stores
  /\ UNCHANGED <<faults, next, forgotten, quiet>>

ThreadStep(t) ==
  \/ \E k \in MayChange(t) : Change(t, k)
  \/ Copy(t) \/ Write(t) \/ WriteFails(t)
  \/ ResetBegins(t) \/ Clear(t) \/ ClearFails(t) \/ Forget(t)

PrefsNext ==
  \/ \E t \in Threads : ThreadStep(t)
  \/ ChangeUnsaved
  \/ PowerLoss

PrefsSpec == PrefsInit /\ [][PrefsNext]_prefVars

-----------------------------------------------------------------------------
(* Properties.                                                              *)

PrefsTypeOK ==
  /\ ram \in [Keys -> Value]
  /\ \A k \in Keys \ {"stats"} : ram[k] \in OneChange
  /\ flash \in [Keys -> {Absent} \cup Value]
  /\ job \in [Threads -> Job]
  /\ faults \in 0 .. MaxFaults
  /\ next \in 1 .. MaxChanges + 1
  /\ settled \in SUBSET Stores /\ quiet \in SUBSET Stores
  /\ forgotten \in 1 .. MaxChanges + 1

\* What a restart would load is what the device works with, for every store
\* whose latest operation succeeded and was not overlapped by one of the other
\* thread: an acknowledged name, species, decision, setting or reset survives
\* whatever failed or was cut short before it.
SettledSurvives ==
  \A k \in Keys : StoreOf(k) \in settled =>
    ram[k] = IF \E j \in Keys : StoreOf(j) = StoreOf(k) /\ flash[j] = Absent
               THEN {} ELSE flash[k]

\* A change of key k is still in RAM or on flash.
Remembered(k) == ram[k] \cup (IF flash[k] = Absent THEN {} ELSE flash[k])

\* After an acknowledged reset that no operation of the other thread
\* overlapped, nothing from before it is left or comes back.
QuietResetForgets ==
  \A k \in Keys : StoreOf(k) \in quiet => \A n \in Remembered(k) : n >= forgotten

\* docs/protocol.md:76: factory_reset clears "character files, preferences,
\* bonds, and runtime state".  When both threads have returned, nothing of the
\* identity, species and statistics from before an acknowledged reset is left.
\* The code does not keep this when a save of the other thread overlaps the
\* reset.
ResetForgets ==
  (\A t \in Threads : Idle(t)) =>
    \A k \in Keys \ {"settings"} : \A n \in Remembered(k) : n >= forgotten
=============================================================================
