------------------------------ MODULE PetStats ------------------------------
(***************************************************************************)
(* The statistics of the pet (src/app/src/core/BuddyProtocol.cpp): tokens    *)
(* and level, counts of decisions, the ring of response times and the mood   *)
(* that follows from it, the block they are kept in on flash, and restarts.  *)
(* The token count is credited with the growth of the total that one desktop *)
(* reports.                                                                  *)
(*                                                                           *)
(* A handler is one step here, its save included.  Threads that change and   *)
(* save at the same time are the subject of Preferences.  nap_seconds and    *)
(* the energy are left out: nothing in src/ calls record_nap_end.            *)
(***************************************************************************)
EXTENDS Naturals, Sequences, SequencesExt

CONSTANTS TokensPerLevel, MaxLevel,
          MaxTokens,      \* the largest uint32_t
          CountLimit,     \* the largest uint16_t, for approvals and denials
          Samples,        \* kVelocitySampleCount
          Responses,      \* response times, in seconds
          NoStats,        \* flash holds no block
          MaxSpent,       \* bound: tokens the desktop spends
          MaxFaults       \* bound: saves and resets that fail

ASSUME PetAssumption ==
  /\ TokensPerLevel \in Nat \ {0} /\ MaxLevel \in Nat /\ MaxTokens \in Nat
  /\ MaxLevel * TokensPerLevel <= MaxTokens
  /\ CountLimit \in Nat /\ Samples \in Nat \ {0}
  /\ Responses \subseteq Nat /\ 0 \in Responses
  /\ MaxSpent \in Nat /\ MaxTokens <= MaxSpent /\ MaxFaults \in Nat

VARIABLES stats,          \* pet_stats_
          lastBridge,     \* last_bridge_tokens_
          synced,         \* tokens_synced_
          saved,          \* the block on flash
          desktop,        \* the total of the desktop since it was started
          faults,
          spent,          \* history: tokens spent since the pet was reset
          recent,         \* history: the latest response times, oldest first
          savedRecent,    \* history: those of the block on flash
          durable         \* history: the latest save succeeded

petVars == <<stats, lastBridge, synced, saved, desktop, faults, spent, recent,
             savedRecent, durable>>

Slots == 0 .. Samples - 1

PetStatsType ==
  [approvals : 0 .. CountLimit, denials : 0 .. CountLimit,
   velocity : [Slots -> Responses], index : Slots, count : 0 .. Samples,
   level : 0 .. MaxLevel, tokens : 0 .. MaxTokens]

ASSUME NoStatsAssumption == NoStats \notin PetStatsType

FreshStats ==
  [approvals |-> 0, denials |-> 0, velocity |-> [i \in Slots |-> 0],
   index |-> 0, count |-> 0, level |-> 0, tokens |-> 0]

AtMost(n, limit) == IF n < limit THEN n ELSE limit

\* FAULT: the cast to uint8_t comes before the comparison.
LevelWrapping(tokens) == (tokens \div TokensPerLevel) % (MaxLevel + 1)

LevelFromTokens(tokens) == AtMost(tokens \div TokensPerLevel, MaxLevel)

-----------------------------------------------------------------------------
(* Loading and saving.                                                      *)

\* load_persisted_stats, with the defaults buddy_prefs_load_stats puts in for
\* a block that is not there.  Firmware that did not count tokens has left
\* blocks with a level only.
Loaded(block) ==
  IF block = NoStats THEN FreshStats
  ELSE LET counted == IF block.tokens = 0 /\ block.level > 0
                        THEN block.level * TokensPerLevel
                        ELSE block.tokens
       IN  [block EXCEPT !.tokens = counted, !.level = LevelFromTokens(counted)]

OldBlocks == {[FreshStats EXCEPT !.level = l] : l \in 1 .. MaxLevel}

PetInit ==
  /\ saved \in OldBlocks \cup {NoStats}
  /\ stats = Loaded(saved)
  /\ lastBridge = 0 /\ synced = FALSE
  /\ desktop = 0 /\ faults = 0
  /\ spent = stats.tokens
  /\ recent = << >> /\ savedRecent = << >>
  /\ durable = TRUE

\* save_stats, whose result every caller ignores.
SaveStats ==
  \/ /\ saved' = stats' /\ savedRecent' = recent' /\ durable' = TRUE
     /\ UNCHANGED faults
  \/ /\ faults < MaxFaults /\ faults' = faults + 1
     /\ durable' = FALSE
     /\ UNCHANGED <<saved, savedRecent>>

NoSave == UNCHANGED <<saved, savedRecent, durable, faults>>

-----------------------------------------------------------------------------
(* Tokens.                                                                  *)

\* The desktop spends tokens, and is started anew.
DesktopSpends ==
  /\ \E n \in 1 .. MaxSpent :
       /\ spent + n <= MaxSpent /\ desktop + n <= MaxSpent
       /\ desktop' = desktop + n /\ spent' = spent + n
  /\ UNCHANGED <<stats, lastBridge, synced, recent>> /\ NoSave

DesktopRestarts ==
  /\ desktop' = 0
  /\ UNCHANGED <<stats, lastBridge, synced, spent, recent>> /\ NoSave

\* The tokens update_bridge_tokens credits for a total.
Delta(total) == IF ~synced \/ total < lastBridge THEN 0 ELSE total - lastBridge

\* FAULT: the level is saved with the next decision.
SavesTokens(before, after) == FALSE

\* A level that is reached is saved; tokens between two levels are not.
SavesAfterTokens(before, after) == after > before

\* update_bridge_tokens, called by handle_snapshot.
UpdateBridgeTokens ==
  LET tokens == AtMost(stats.tokens + Delta(desktop), MaxTokens)
      before == LevelFromTokens(stats.tokens)
      after == LevelFromTokens(tokens)
  IN  /\ lastBridge' = desktop /\ synced' = TRUE
      /\ stats' = [stats EXCEPT !.tokens = tokens,
                     !.level = IF after > before THEN after ELSE @]
      /\ UNCHANGED <<desktop, spent, recent>>
      /\ IF SavesAfterTokens(before, after) THEN SaveStats ELSE NoSave

-----------------------------------------------------------------------------
(* Decisions.                                                               *)

\* The samples a ring of n slots keeps of a sequence.
Latest(samples, n) ==
  SubSeq(samples, IF Len(samples) > n THEN Len(samples) - n + 1 ELSE 1,
         Len(samples))

\* FAULT: the ring is one slot short.
NextSlotShort(i) == IF Samples > 1 THEN (i + 1) % (Samples - 1) ELSE 0

NextSlot(i) == (i + 1) % Samples

\* record_approval
RecordApproval(seconds) ==
  /\ stats' = [stats EXCEPT !.approvals = AtMost(@ + 1, CountLimit),
                 !.velocity[stats.index] = seconds,
                 !.index = NextSlot(@),
                 !.count = AtMost(@ + 1, Samples)]
  /\ recent' = Latest(Append(recent, seconds), Samples)
  /\ UNCHANGED <<lastBridge, synced, desktop, spent>>
  /\ SaveStats

\* record_denial
RecordDenial ==
  /\ stats' = [stats EXCEPT !.denials = AtMost(@ + 1, CountLimit)]
  /\ UNCHANGED <<lastBridge, synced, desktop, spent, recent>>
  /\ SaveStats

-----------------------------------------------------------------------------
(* Restarts and resets.                                                     *)

\* The device is switched off and on: set_hooks loads what flash holds.
Restart ==
  /\ stats' = Loaded(saved) /\ recent' = savedRecent
  /\ lastBridge' = 0 /\ synced' = FALSE
  /\ durable' = TRUE
  /\ UNCHANGED <<saved, savedRecent, desktop, spent, faults>>

\* FAULT: the next total is taken for the growth since zero.
ForgetTotalOnly == lastBridge' = 0 /\ UNCHANGED synced

\* The total a delta is taken from is forgotten.
ForgetTotal == lastBridge' = 0 /\ synced' = FALSE

\* factory_reset removes the block; reset_stats follows only when everything
\* else went well.
FactoryReset ==
  /\ saved' = NoStats /\ savedRecent' = << >> /\ durable' = TRUE
  /\ stats' = FreshStats /\ recent' = << >>
  /\ ForgetTotal
  /\ spent' = 0
  /\ UNCHANGED <<desktop, faults>>

FactoryResetFails ==
  /\ faults < MaxFaults /\ faults' = faults + 1
  /\ \/ saved' = NoStats /\ savedRecent' = << >> /\ durable' = FALSE
     \/ UNCHANGED <<saved, savedRecent, durable>>
  /\ UNCHANGED <<stats, lastBridge, synced, desktop, spent, recent>>

PetNext ==
  \/ DesktopSpends \/ DesktopRestarts
  \/ UpdateBridgeTokens
  \/ \E seconds \in Responses : RecordApproval(seconds)
  \/ RecordDenial
  \/ Restart
  \/ FactoryReset \/ FactoryResetFails

PetSpec == PetInit /\ [][PetNext]_petVars

-----------------------------------------------------------------------------
(* The mood.                                                                *)

\* FAULT: the insertion sort stops before the first element.
PlaceAfterFirst(sorted, value) ==
  CHOOSE k \in 0 .. Len(sorted) :
    /\ k = AtMost(1, Len(sorted)) \/ (k > 0 /\ sorted[k] <= value)
    /\ \A i \in k + 1 .. Len(sorted) : sorted[i] > value

\* After which element a value goes: the last one that is not larger.
Place(sorted, value) ==
  CHOOSE k \in 0 .. Len(sorted) :
    /\ k = 0 \/ sorted[k] <= value
    /\ \A i \in k + 1 .. Len(sorted) : sorted[i] > value

\* One round of the insertion sort of stats_median_velocity.
Insert(sorted, value) == InsertAt(sorted, Place(sorted, value) + 1, value)

SortedVelocity(s) ==
  LET sorted[n \in 0 .. s.count] ==
        IF n = 0 THEN << >> ELSE Insert(sorted[n - 1], s.velocity[n - 1])
  IN  sorted[s.count]

\* stats_median_velocity
MedianVelocity(s) ==
  IF s.count = 0 THEN 0 ELSE SortedVelocity(s)[s.count \div 2 + 1]

MoodOfVelocity(seconds) ==
  CASE seconds = 0   -> 2
    [] seconds \in 1 .. 14   -> 4
    [] seconds \in 15 .. 29  -> 3
    [] seconds \in 30 .. 59  -> 2
    [] seconds \in 60 .. 119 -> 1
    [] OTHER -> 0

\* FAULT: only the second comparison is made.
PenaltyOfSome(s) == IF s.denials * 2 > s.approvals /\ s.denials <= s.approvals
                      THEN 1 ELSE 0

\* What denials take from the mood.
Penalty(s) ==
  IF s.approvals + s.denials < 3 THEN 0
  ELSE IF s.denials > s.approvals THEN 2
  ELSE IF s.denials * 2 > s.approvals THEN 1
  ELSE 0

\* stats_mood_tier
MoodTier(s) ==
  LET tier == MoodOfVelocity(MedianVelocity(s))
  IN  IF tier < Penalty(s) THEN 0 ELSE tier - Penalty(s)

-----------------------------------------------------------------------------
(* Properties.                                                              *)

PetTypeOK ==
  /\ stats \in PetStatsType
  /\ saved \in PetStatsType \cup {NoStats}
  /\ lastBridge \in 0 .. MaxSpent /\ desktop \in 0 .. MaxSpent
  /\ spent \in 0 .. MaxSpent /\ faults \in 0 .. MaxFaults
  /\ synced \in BOOLEAN /\ durable \in BOOLEAN
  /\ recent \in Seq(Responses) /\ Len(recent) <= Samples
  /\ savedRecent \in Seq(Responses) /\ Len(savedRecent) <= Samples

\* The level shown is that of the tokens, although it is only written when it
\* rises: after saturation, old blocks, failed saves, restarts and resets too.
LevelFollowsTokens ==
  /\ stats.level <= MaxLevel
  /\ stats.level < MaxLevel =>
       stats.tokens \in stats.level * TokensPerLevel ..
                        (stats.level + 1) * TokensPerLevel - 1
  /\ stats.level = MaxLevel => stats.tokens >= MaxLevel * TokensPerLevel

\* A level that was reached is not lost by a restart: unless its save failed,
\* the block on flash leads to the level that is shown, although most token
\* updates are not saved.
LevelIsDurable == durable => Loaded(saved).level = stats.level

\* The pet is never credited with more tokens than the desktop has spent,
\* however restarts of both and resets fall between the totals: none is
\* counted twice.
NeverOvercounts == stats.tokens <= spent

\* The ring holds the latest response times in order, over wrap-around,
\* restarts and resets.
RingHoldsLatest ==
  /\ stats.count = Len(recent)
  /\ \A k \in 1 .. Len(recent) :
       stats.velocity[(stats.index + 2 * Samples - k) % Samples]
         = recent[Len(recent) + 1 - k]

\* The positions of the latest samples whose value satisfies P.
Where(P(_)) == {k \in 1 .. Len(recent) : P(recent[k])}

\* The median shown is the upper median of the latest response times: at most
\* half of them are smaller, and more than half are not larger.
MedianIsUpperMedian ==
  LET m == MedianVelocity(stats)
      half == Len(recent) \div 2
  IN  recent # << >> =>
        /\ Cardinality(Where(LAMBDA v : v < m)) <= half
        /\ half < Cardinality(Where(LAMBDA v : v <= m))

\* Denying never makes the pet happier.
DenialNeverCheers == [][stats'.denials > stats.denials /\ stats'.count >= stats.count
                          => MoodTier(stats') <= MoodTier(stats)]_petVars
=============================================================================
