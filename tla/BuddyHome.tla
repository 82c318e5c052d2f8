------------------------------ MODULE BuddyHome ----------------------------
(***************************************************************************)
(* What the home page shows: which pet, and in which state (the species of     *)
(* src/app/src/core/BuddyProtocol.cpp, the persona of                         *)
(* src/app/src/bridge/buddy_app_c_api.cpp, and the choice between the GIF and   *)
(* the built-in characters of src/app/src/ui/buddy_ui_390x450.c).             *)
(*                                                                            *)
(* Time is counted in units of 15 s, in a counter that wraps as the one of the   *)
(* milliseconds does.  The statistics and the prompt's own story are told in     *)
(* PetStats and PermissionFlow; here a snapshot says if it has a prompt and if    *)
(* a task is running.  What the species survives is the subject of Preferences.  *)
(***************************************************************************)
EXTENDS AsciiBuddies

CONSTANTS Word,           \* the counter of milliseconds holds 0 .. Word - 1
          StaleMs         \* 30000 ms

ASSUME HomeAssumption == Word \in Nat /\ StaleMs \in Nat /\ StaleMs < Word

VARIABLES species,        \* BuddyProtocol::species_
          gif,            \* whether a character package can be loaded
          connected,      \* g_nus.connected
          snapshot,       \* of BuddyProtocol: has_prompt, running > 0, last_snapshot_ms
          lastTick,       \* last_tick_ms_, the uptime
          heard,          \* history: a snapshot has come since boot and reset
          silence,        \* history: the time since, no further than StaleMs + 1
          wrapped         \* history: the counter has wrapped since

homeVars == <<species, gif, connected, snapshot, lastTick, heard, silence, wrapped>>

Snapshot == [hasPrompt : BOOLEAN, running : BOOLEAN, lastMs : 0 .. Word - 1]
NoSnapshot == [hasPrompt |-> FALSE, running |-> FALSE, lastMs |-> 0]
IsValidSpecies(s) == s = GifSentinel \/ s < SpeciesCount

\* At boot the species that was saved, or the GIF, and nothing heard.
HomeInit ==
  /\ species \in {s \in 0 .. GifSentinel : IsValidSpecies(s)}
  /\ gif \in BOOLEAN
  /\ connected = FALSE
  /\ snapshot = NoSnapshot
  /\ lastTick = 0
  /\ heard = FALSE /\ silence = 0 /\ wrapped = FALSE

-----------------------------------------------------------------------------
(* The pet.  A definition marked FAULT is a plausible bug of the one that     *)
(* follows it.                                                                *)

PrefersGif(s) == s = GifSentinel

\* FAULT: the GIF is not left for the first built-in character.
NextSpeciesFromEffective(s, there) ==
  IF EffectiveSpecies(s) + 1 >= SpeciesCount
  THEN (IF there THEN GifSentinel ELSE 0)
  ELSE EffectiveSpecies(s) + 1

\* buddy_ui_next_species: the built-in ones in turn, then the GIF if there is one.
NextSpecies(s, there) ==
  IF PrefersGif(s) /\ there THEN 0
  ELSE IF EffectiveSpecies(s) + 1 >= SpeciesCount
       THEN (IF there THEN GifSentinel ELSE 0)
       ELSE EffectiveSpecies(s) + 1

\* buddy_ui_update_home: the GIF, or in its absence a built-in character.
ShownPet(s, there) == IF PrefersGif(s) /\ there THEN GifSentinel ELSE EffectiveSpecies(s)

\* buddy_ui_cycle_pet, by key or by touch.  It changes the species also when it
\* cannot be saved.
CyclePet ==
  /\ species' = NextSpecies(species, gif)
  /\ UNCHANGED <<gif, connected, snapshot, lastTick, heard, silence, wrapped>>

\* The species command: any number, of which only a species is taken.
HandleSpecies(s) ==
  /\ IsValidSpecies(s)
  /\ species' = s
  /\ UNCHANGED <<gif, connected, snapshot, lastTick, heard, silence, wrapped>>

\* A package arrives, is deleted, or loses a file.
PackageChanges ==
  /\ gif' = ~gif
  /\ UNCHANGED <<species, connected, snapshot, lastTick, heard, silence, wrapped>>

\* BuddyProtocol::factory_reset, once the platform has cleared what it stores.
FactoryReset ==
  /\ species' = GifSentinel
  /\ gif' = FALSE
  /\ snapshot' = NoSnapshot
  /\ heard' = FALSE /\ silence' = 0 /\ wrapped' = FALSE
  /\ UNCHANGED <<connected, lastTick>>

-----------------------------------------------------------------------------
(* The persona.                                                             *)

\* FAULT: the age of the snapshot is not looked at while a task runs.
StaleUnlessRunning(at, now) == ~snapshot.running /\ now >= at /\ now - at > StaleMs

Stale(at, now) == now >= at /\ now - at > StaleMs

\* buddy_app_persona_from_status.  A time of 0 stands for no snapshot.
Persona ==
  CASE snapshot.hasPrompt -> "ATTENTION"
    [] OTHER ->
         IF ~connected \/ snapshot.lastMs = 0 \/ Stale(snapshot.lastMs, lastTick)
         THEN "SLEEP"
         ELSE IF snapshot.running THEN "BUSY" ELSE "IDLE"

\* handle_snapshot: every line that is neither a command nor a time.
HandleSnapshot(prompt, running) ==
  /\ connected
  /\ snapshot' = [hasPrompt |-> prompt, running |-> running, lastMs |-> lastTick]
  /\ heard' = TRUE /\ silence' = 0 /\ wrapped' = FALSE
  /\ UNCHANGED <<species, gif, connected, lastTick>>

\* The link comes and goes; the snapshot stays.
LinkChanges ==
  /\ connected' = ~connected
  /\ UNCHANGED <<species, gif, snapshot, lastTick, heard, silence, wrapped>>

Tick ==
  /\ lastTick' = (lastTick + 1) % Word
  /\ silence' = IF silence > StaleMs THEN silence ELSE silence + 1
  /\ wrapped' = (wrapped \/ lastTick' = 0)
  /\ UNCHANGED <<species, gif, connected, snapshot, heard>>

HomeNext ==
  \/ CyclePet
  \/ \E s \in Species \cup {GifSentinel} : HandleSpecies(s)
  \/ PackageChanges
  \/ FactoryReset
  \/ \E prompt, running \in BOOLEAN : HandleSnapshot(prompt, running)
  \/ LinkChanges
  \/ Tick

HomeSpec == HomeInit /\ [][HomeNext]_homeVars

-----------------------------------------------------------------------------
(* Properties                                                               *)

HomeTypeOK ==
  /\ IsValidSpecies(species) /\ species \in Nat
  /\ gif \in BOOLEAN /\ connected \in BOOLEAN
  /\ snapshot \in Snapshot
  /\ lastTick \in 0 .. Word - 1
  /\ heard \in BOOLEAN /\ silence \in 0 .. StaleMs + 1 /\ wrapped \in BOOLEAN

\* From whatever is selected, one round of presses on the pet item brings up every
\* built-in character and, if there is one, the GIF, each of them once; also when
\* the GIF was selected and its package has gone.
Presses(there) == Cardinality(Species) + (IF there THEN 1 ELSE 0)

AfterPresses(there) ==
  LET after[n \in 0 .. Presses(there)] ==
        IF n = 0 THEN species ELSE NextSpecies(after[n - 1], there)
  IN after

CycleReachesEveryPet ==
  {ShownPet(AfterPresses(gif)[n], gif) : n \in 1 .. Presses(gif)}
    = Species \cup (IF gif THEN {GifSentinel} ELSE {})

\* Without a prompt the pet is awake while a desktop is connected that has sent a
\* snapshot in the last 30 s, also while the counter wraps, and asleep otherwise.
\* Excepted are a snapshot at the time 0, which counts as none, and a pet that is
\* awake after the counter has wrapped since the last snapshot, although that one is
\* old: the comparison does not see its age.
PetIsAwakeWhenHeard ==
  ~snapshot.hasPrompt /\ (heard => snapshot.lastMs # 0)
    => /\ connected /\ heard /\ silence <= StaleMs => Persona # "SLEEP"
       /\ Persona # "SLEEP" => connected /\ heard /\ (silence <= StaleMs \/ wrapped)
=============================================================================
