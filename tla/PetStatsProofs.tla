--------------------------- MODULE PetStatsProofs ---------------------------
(* Proofs about PetStats, for any sizes of levels, counters and ring.       *)
EXTENDS PetStats, SequenceTheorems, FiniteSetTheorems, WellFoundedInduction, TLAPS

LEMMA AtMostBounds ==
  ASSUME NEW n \in Nat, NEW limit \in Nat
  PROVE  /\ AtMost(n, limit) \in 0 .. limit
         /\ AtMost(n, limit) <= n
         /\ AtMost(n, limit) = n \/ AtMost(n, limit) = limit
  BY DEF AtMost

\* Division, as the levels use it.
LEMMA DivBounds ==
  ASSUME NEW n \in Nat, NEW d \in Nat \ {0}
  PROVE  /\ n \div d \in Nat
         /\ d * (n \div d) <= n
         /\ n < d * (n \div d) + d
  BY SMT

LEMMA ProductIsMonotone ==
  ASSUME NEW a \in Nat, NEW b \in Nat, NEW d \in Nat \ {0}, a <= b
  PROVE  d * a <= d * b
  BY SMT

LEMMA DivIsMonotone ==
  ASSUME NEW m \in Nat, NEW n \in Nat, NEW d \in Nat \ {0}, m <= n
  PROVE  m \div d <= n \div d
<1>1. m \div d \in Nat /\ n \div d \in Nat
  BY DivBounds
<1>2. d * (m \div d) <= n /\ n < d * (n \div d) + d
  BY DivBounds
<1>3. CASE m \div d > n \div d
  <2>1. d * (n \div d + 1) <= d * (m \div d)
    BY <1>1, <1>3, ProductIsMonotone
  <2>2. d * (n \div d + 1) = d * (n \div d) + d
    BY <1>1
  <2> QED
    BY <1>1, <1>2, <2>1, <2>2
<1> QED
  BY <1>1, <1>3

LEMMA DivOfMultiple ==
  ASSUME NEW a \in Nat, NEW d \in Nat \ {0}
  PROVE  (a * d) \div d = a
  BY SMT

-----------------------------------------------------------------------------
(***************************************************************************)
(* The level.  LevelFollowsTokens is inductive as an equation, because tokens *)
(* only grow between loads; a block that is loaded gets the level of its      *)
(* tokens, or the tokens of its level.                                       *)
(***************************************************************************)
LevelInv == stats.level = LevelFromTokens(stats.tokens)

\* The tokens that the desktop has not reported yet are still spent, and so
\* are those of the block on flash.
SpentInv ==
  /\ NeverOvercounts
  /\ Loaded(saved).tokens <= spent
  /\ synced => stats.tokens + desktop <= spent + lastBridge

LiveOK ==
  /\ stats \in PetStatsType
  /\ lastBridge \in 0 .. MaxSpent /\ desktop \in 0 .. MaxSpent
  /\ spent \in 0 .. MaxSpent
  /\ recent \in Seq(Responses) /\ Len(recent) <= Samples

SavedOK ==
  /\ saved \in PetStatsType \cup {NoStats}
  /\ savedRecent \in Seq(Responses) /\ Len(savedRecent) <= Samples
  /\ faults \in 0 .. MaxFaults

FlagsOK == synced \in BOOLEAN /\ durable \in BOOLEAN

PetInv == LiveOK /\ SavedOK /\ FlagsOK /\ LevelInv /\ LevelIsDurable /\ SpentInv

LEMMA LevelTyped ==
  ASSUME NEW n \in Nat
  PROVE  /\ LevelFromTokens(n) \in 0 .. MaxLevel
         /\ n = 0 => LevelFromTokens(n) = 0
<1>1. n \div TokensPerLevel \in Nat
  BY DivBounds, PetAssumption
<1>2. LevelFromTokens(n) \in 0 .. MaxLevel
  BY <1>1, AtMostBounds, PetAssumption DEF LevelFromTokens
<1>3. ASSUME n = 0 PROVE n \div TokensPerLevel = 0
  BY <1>3, PetAssumption
<1>4. MaxLevel \in Nat
  BY PetAssumption
<1>5. ASSUME n = 0 PROVE LevelFromTokens(n) = 0
  BY <1>3, <1>4, <1>5 DEF LevelFromTokens, AtMost
<1> QED
  BY <1>2, <1>5

LEMMA LevelMonotone ==
  ASSUME NEW m \in Nat, NEW n \in Nat, m <= n
  PROVE  LevelFromTokens(m) <= LevelFromTokens(n)
<1>1. m \div TokensPerLevel <= n \div TokensPerLevel
  BY DivIsMonotone, PetAssumption
<1>2. m \div TokensPerLevel \in Nat /\ n \div TokensPerLevel \in Nat
  BY DivBounds, PetAssumption
<1>3. MaxLevel \in Nat
  BY PetAssumption
<1> QED
  BY <1>1, <1>2, <1>3 DEF LevelFromTokens, AtMost

LEMMA LevelProductFits ==
  ASSUME NEW l \in 0 .. MaxLevel
  PROVE  l * TokensPerLevel \in 0 .. MaxTokens
<1>1. TokensPerLevel * l <= TokensPerLevel * MaxLevel
  BY ProductIsMonotone, PetAssumption
<1>2. l * TokensPerLevel = TokensPerLevel * l /\ MaxLevel * TokensPerLevel = TokensPerLevel * MaxLevel
      /\ l * TokensPerLevel \in Nat
  BY PetAssumption
<1> QED
  BY <1>1, <1>2, PetAssumption

LEMMA FreshTyped ==
  /\ FreshStats \in PetStatsType
  /\ FreshStats.tokens = 0 /\ FreshStats.level = 0
  BY PetAssumption DEF FreshStats, PetStatsType, Slots

\* What a load returns, for any block the device may have written.
LEMMA LoadedTyped ==
  ASSUME NEW block \in PetStatsType \cup {NoStats}
  PROVE  /\ Loaded(block) \in PetStatsType
         /\ Loaded(block).level = LevelFromTokens(Loaded(block).tokens)
<1>1. CASE block = NoStats
  BY <1>1, FreshTyped, LevelTyped DEF Loaded
<1>2. CASE block # NoStats
  <2> DEFINE counted == IF block.tokens = 0 /\ block.level > 0
                          THEN block.level * TokensPerLevel ELSE block.tokens
  <2>1. block \in PetStatsType /\ block.tokens \in 0 .. MaxTokens /\ block.level \in 0 .. MaxLevel
    BY <1>2 DEF PetStatsType
  <2>2. counted \in 0 .. MaxTokens
    BY <2>1, LevelProductFits
  <2>3. LevelFromTokens(counted) \in 0 .. MaxLevel
    BY <2>2, LevelTyped, PetAssumption
  <2>4. Loaded(block) = [block EXCEPT !.tokens = counted, !.level = LevelFromTokens(counted)]
    BY <1>2 DEF Loaded
  <2> HIDE DEF counted
  <2> QED
    BY <2>1, <2>2, <2>3, <2>4 DEF PetStatsType
<1> QED
  BY <1>1, <1>2

\* A block that was saved with the level of its tokens is loaded as it is.
LEMMA SavedLoadsSame ==
  ASSUME NEW block \in PetStatsType, block.level = LevelFromTokens(block.tokens)
  PROVE  Loaded(block).tokens = block.tokens /\ Loaded(block).level = block.level
<1>1. block.tokens \in Nat /\ block # NoStats
  BY NoStatsAssumption, PetAssumption DEF PetStatsType
<1>2. ~(block.tokens = 0 /\ block.level > 0)
  BY <1>1, LevelTyped
<1> QED
  BY <1>1, <1>2 DEF Loaded, PetStatsType

-----------------------------------------------------------------------------
LEMMA OldBlocksTyped == OldBlocks \subseteq PetStatsType
  BY FreshTyped, PetAssumption DEF OldBlocks, PetStatsType

LEMMA InitPetInv == PetInit => PetInv
<1> SUFFICES ASSUME PetInit
             PROVE  PetInv
  OBVIOUS
<1>1. SavedOK
  BY OldBlocksTyped, EmptySeq, PetAssumption DEF PetInit, SavedOK
<1>2. stats = Loaded(saved) /\ stats \in PetStatsType /\ LevelInv
  BY <1>1, LoadedTyped DEF PetInit, SavedOK, LevelInv
<1>3. stats.tokens \in 0 .. MaxTokens
  BY <1>2 DEF PetStatsType
<1>4. LiveOK
  BY <1>2, <1>3, EmptySeq, PetAssumption DEF PetInit, LiveOK
<1>5. LevelIsDurable
  BY <1>2 DEF LevelIsDurable
<1>6. SpentInv
  BY <1>2, <1>3, PetAssumption DEF PetInit, SpentInv, NeverOvercounts
<1>7. FlagsOK
  BY DEF PetInit, FlagsOK
<1> QED
  BY <1>1, <1>2, <1>4, <1>5, <1>6, <1>7 DEF PetInv

\* A save, whether it succeeds or not.
LEMMA SaveKeeps ==
  ASSUME PetInv, SaveStats, LiveOK', LevelInv', spent' = spent,
         stats'.tokens <= spent'
  PROVE  SavedOK' /\ LevelIsDurable' /\ Loaded(saved').tokens <= spent'
         /\ durable' \in BOOLEAN
<1>1. CASE saved' = stats' /\ savedRecent' = recent' /\ durable' = TRUE /\ UNCHANGED faults
  <2>1. Loaded(stats').tokens = stats'.tokens /\ Loaded(stats').level = stats'.level
    BY SavedLoadsSame DEF LiveOK, LevelInv
  <2>2. SavedOK'
    BY <1>1 DEF PetInv, SavedOK, LiveOK
  <2> QED
    BY <1>1, <2>1, <2>2 DEF LevelIsDurable
<1>2. CASE /\ faults < MaxFaults /\ faults' = faults + 1 /\ durable' = FALSE
           /\ UNCHANGED <<saved, savedRecent>>
  <2>1. SavedOK'
    BY <1>2, PetAssumption DEF PetInv, SavedOK
  <2>2. Loaded(saved').tokens <= spent'
    BY <1>2 DEF PetInv, SpentInv
  <2> QED
    BY <1>2, <2>1, <2>2 DEF LevelIsDurable
<1> QED
  BY <1>1, <1>2 DEF SaveStats

LEMMA NoSaveKeeps ==
  ASSUME PetInv, NoSave, LiveOK', stats'.level = stats.level, spent <= spent'
  PROVE  SavedOK' /\ LevelIsDurable' /\ Loaded(saved').tokens <= spent'
         /\ durable' \in BOOLEAN
<1>1. SavedOK' /\ LevelIsDurable' /\ durable' \in BOOLEAN
  BY DEF PetInv, NoSave, SavedOK, LevelIsDurable, FlagsOK
<1>2. saved' = saved /\ Loaded(saved) \in PetStatsType
  BY LoadedTyped DEF NoSave, PetInv, SavedOK
<1>3. Loaded(saved).tokens \in Nat
  BY <1>2, PetAssumption DEF PetStatsType
<1> QED
  BY <1>1, <1>2, <1>3, PetAssumption DEF PetInv, SpentInv, LiveOK

LEMMA TokensAreNat ==
  ASSUME PetInv
  PROVE  /\ stats.tokens \in 0 .. MaxTokens /\ stats.level \in 0 .. MaxLevel
         /\ lastBridge \in Nat /\ desktop \in Nat /\ spent \in Nat
         /\ MaxTokens \in Nat /\ MaxLevel \in Nat
  BY PetAssumption DEF PetInv, LiveOK, PetStatsType

LEMMA TokensStep ==
  ASSUME PetInv, UpdateBridgeTokens
  PROVE  PetInv'
<1> DEFINE delta == Delta(desktop)
           tokens == AtMost(stats.tokens + delta, MaxTokens)
           before == LevelFromTokens(stats.tokens)
           after == LevelFromTokens(tokens)
           level == IF after > before THEN after ELSE stats.level
<1>1. delta \in Nat /\ stats.tokens + delta \in Nat
  BY TokensAreNat DEF Delta
<1>2. stats.tokens + delta <= spent
  <2>1. CASE ~synced \/ desktop < lastBridge
    BY <2>1, TokensAreNat DEF Delta, PetInv, SpentInv, NeverOvercounts
  <2>2. CASE synced /\ ~(desktop < lastBridge)
    <3>1. delta = desktop - lastBridge
      BY <2>2 DEF Delta
    <3>2. stats.tokens + desktop <= spent + lastBridge
      BY <2>2 DEF PetInv, SpentInv
    <3> QED
      BY <3>1, <3>2, TokensAreNat
  <2> QED
    BY <2>1, <2>2
<1> HIDE DEF delta
<1>3. /\ tokens \in 0 .. MaxTokens /\ tokens <= spent /\ stats.tokens <= tokens
  BY <1>1, <1>2, TokensAreNat DEF AtMost
<1>4. /\ lastBridge' = desktop /\ synced' = TRUE
      /\ stats' = [stats EXCEPT !.tokens = tokens, !.level = level]
      /\ UNCHANGED <<desktop, spent, recent>>
      /\ IF SavesAfterTokens(before, after) THEN SaveStats ELSE NoSave
  BY DEF UpdateBridgeTokens, delta
<1>5. before <= after /\ before \in 0 .. MaxLevel /\ after \in 0 .. MaxLevel
  BY <1>3, TokensAreNat, LevelTyped, LevelMonotone
<1>6. stats.level = before
  BY DEF PetInv, LevelInv
<1>7. level = after
  BY <1>5, <1>6, PetAssumption
<1> HIDE DEF tokens, before, after, level
<1>8. stats \in PetStatsType
  BY DEF PetInv, LiveOK
<1>9. stats' \in PetStatsType /\ stats'.tokens = tokens /\ stats'.level = after
  BY <1>3, <1>4, <1>5, <1>7, <1>8 DEF PetStatsType
<1>10. LiveOK'
  BY <1>4, <1>9 DEF PetInv, LiveOK
<1>11. LevelInv'
  BY <1>9 DEF LevelInv, after
<1>12. SavedOK' /\ LevelIsDurable' /\ Loaded(saved').tokens <= spent' /\ durable' \in BOOLEAN
  <2>1. CASE after > before
    BY <1>3, <1>4, <1>9, <1>10, <1>11, <2>1, SaveKeeps DEF SavesAfterTokens
  <2>2. CASE ~(after > before)
    <3>1. stats'.level = stats.level
      BY <1>5, <1>6, <1>9, <2>2, PetAssumption
    <3>2. NoSave
      BY <1>4, <2>2 DEF SavesAfterTokens
    <3> QED
      BY <1>4, <1>10, <3>1, <3>2, TokensAreNat, NoSaveKeeps
  <2> QED
    BY <2>1, <2>2
<1>13. SpentInv'
  BY <1>3, <1>4, <1>9, <1>12, TokensAreNat DEF SpentInv, NeverOvercounts
<1>14. FlagsOK'
  BY <1>4, <1>12 DEF FlagsOK
<1> QED
  BY <1>10, <1>11, <1>12, <1>13, <1>14 DEF PetInv

LEMMA DesktopStep ==
  ASSUME PetInv, DesktopSpends \/ DesktopRestarts
  PROVE  PetInv'
<1>1. /\ stats' = stats /\ recent' = recent /\ lastBridge' = lastBridge
      /\ synced' = synced /\ NoSave
  BY DEF DesktopSpends, DesktopRestarts
<1>2. /\ desktop' \in 0 .. MaxSpent /\ spent' \in 0 .. MaxSpent /\ spent <= spent'
      /\ desktop' <= desktop \/ desktop' - desktop = spent' - spent
  BY TokensAreNat, PetAssumption DEF DesktopSpends, DesktopRestarts, PetInv, LiveOK
<1>3. LiveOK' /\ LevelInv'
  BY <1>1, <1>2 DEF PetInv, LiveOK, LevelInv
<1>4. SavedOK' /\ LevelIsDurable' /\ Loaded(saved').tokens <= spent' /\ durable' \in BOOLEAN
  BY <1>1, <1>2, <1>3, NoSaveKeeps
<1>5. FlagsOK'
  BY <1>1, <1>4 DEF PetInv, FlagsOK
<1>6. NeverOvercounts'
  BY <1>1, <1>2, TokensAreNat, PetAssumption DEF PetInv, SpentInv, NeverOvercounts
<1>7. synced' => stats'.tokens + desktop' <= spent' + lastBridge'
  <2>1. SUFFICES ASSUME synced
                 PROVE  stats.tokens + desktop' <= spent' + lastBridge
    BY <1>1
  <2>2. stats.tokens + desktop <= spent + lastBridge
    BY <2>1 DEF PetInv, SpentInv
  <2> QED
    BY <1>2, <2>2, TokensAreNat, PetAssumption
<1> QED
  BY <1>3, <1>4, <1>5, <1>6, <1>7 DEF PetInv, SpentInv

LEMMA LatestTyped ==
  ASSUME NEW s \in Seq(Responses), NEW n \in Nat
  PROVE  Latest(s, n) \in Seq(Responses) /\ Len(Latest(s, n)) <= n
<1>1. Len(s) \in Nat /\ \A i \in 1 .. Len(s) : s[i] \in Responses
  BY ElementOfSeq
<1> DEFINE from == IF Len(s) > n THEN Len(s) - n + 1 ELSE 1
<1>2. from \in 1 .. Len(s) + 1 /\ Len(s) - from + 1 <= n
  BY <1>1
<1>3. Latest(s, n) = SubSeq(s, from, Len(s))
  BY DEF Latest
<1> HIDE DEF from
<1>4. /\ SubSeq(s, from, Len(s)) \in Seq(Responses)
      /\ Len(SubSeq(s, from, Len(s))) = IF from <= Len(s) THEN Len(s) - from + 1 ELSE 0
  BY <1>1, <1>2, SubSeqProperties
<1> QED
  BY <1>1, <1>2, <1>3, <1>4

\* A decision leaves tokens and level alone.
LEMMA DecisionStep ==
  ASSUME PetInv, stats' \in PetStatsType,
         stats'.tokens = stats.tokens, stats'.level = stats.level,
         recent' \in Seq(Responses), Len(recent') <= Samples,
         UNCHANGED <<lastBridge, synced, desktop, spent>>, SaveStats
  PROVE  PetInv'
<1>1. LiveOK' /\ LevelInv'
  BY DEF PetInv, LiveOK, LevelInv
<1>2. stats'.tokens <= spent'
  BY DEF PetInv, SpentInv, NeverOvercounts
<1>3. SavedOK' /\ LevelIsDurable' /\ Loaded(saved').tokens <= spent' /\ durable' \in BOOLEAN
  BY <1>1, <1>2, SaveKeeps
<1>4. SpentInv'
  BY <1>2, <1>3 DEF PetInv, SpentInv, NeverOvercounts
<1>5. FlagsOK'
  BY <1>3 DEF PetInv, FlagsOK
<1> QED
  BY <1>1, <1>3, <1>4, <1>5 DEF PetInv

LEMMA ApprovalTyped ==
  ASSUME PetInv, NEW seconds \in Responses, RecordApproval(seconds)
  PROVE  PetInv'
<1> DEFINE a == AtMost(stats.approvals + 1, CountLimit)
           v == [stats.velocity EXCEPT ![stats.index] = seconds]
           i == NextSlot(stats.index)
           c == AtMost(stats.count + 1, Samples)
<1>1. /\ stats \in PetStatsType
      /\ stats.approvals \in 0 .. CountLimit /\ stats.count \in 0 .. Samples
      /\ stats.velocity \in [Slots -> Responses] /\ stats.index \in Slots
  BY DEF PetInv, LiveOK, PetStatsType
<1>2. a \in 0 .. CountLimit /\ c \in 0 .. Samples
  BY <1>1, PetAssumption DEF AtMost
<1>3. v \in [Slots -> Responses] /\ i \in Slots
  BY <1>1, PetAssumption DEF Slots, NextSlot
<1>4. stats' = [stats EXCEPT !.approvals = a, !.velocity = v, !.index = i, !.count = c]
  BY <1>1 DEF RecordApproval, PetStatsType
<1> HIDE DEF a, v, i, c
<1>5. /\ stats' \in PetStatsType /\ stats'.tokens = stats.tokens
      /\ stats'.level = stats.level
  BY <1>1, <1>2, <1>3, <1>4 DEF PetStatsType
<1>6. Append(recent, seconds) \in Seq(Responses)
  BY AppendProperties DEF PetInv, LiveOK
<1>7. recent' \in Seq(Responses) /\ Len(recent') <= Samples
  BY <1>6, LatestTyped, PetAssumption DEF RecordApproval
<1> QED
  BY <1>5, <1>7, DecisionStep DEF RecordApproval

LEMMA DenialTyped ==
  ASSUME PetInv, RecordDenial
  PROVE  PetInv'
<1> DEFINE d == AtMost(stats.denials + 1, CountLimit)
<1>1. stats \in PetStatsType /\ stats.denials \in 0 .. CountLimit
  BY DEF PetInv, LiveOK, PetStatsType
<1>2. d \in 0 .. CountLimit
  BY <1>1, PetAssumption DEF AtMost
<1>3. stats' = [stats EXCEPT !.denials = d]
  BY DEF RecordDenial
<1> HIDE DEF d
<1>4. /\ stats' \in PetStatsType /\ stats'.tokens = stats.tokens
      /\ stats'.level = stats.level
  BY <1>1, <1>2, <1>3 DEF PetStatsType
<1>5. recent' \in Seq(Responses) /\ Len(recent') <= Samples
  BY DEF RecordDenial, PetInv, LiveOK
<1> QED
  BY <1>4, <1>5, DecisionStep DEF RecordDenial

LEMMA RestartStep ==
  ASSUME PetInv, Restart
  PROVE  PetInv'
<1>1. Loaded(saved) \in PetStatsType
      /\ Loaded(saved).level = LevelFromTokens(Loaded(saved).tokens)
  BY LoadedTyped DEF PetInv, SavedOK
<1>2. stats' = Loaded(saved) /\ saved' = saved /\ spent' = spent /\ synced' = FALSE
      /\ durable' = TRUE
  BY DEF Restart
<1>3. LiveOK' /\ SavedOK'
  BY <1>1, <1>2, PetAssumption DEF Restart, PetInv, LiveOK, SavedOK
<1>4. LevelInv' /\ LevelIsDurable'
  BY <1>1, <1>2 DEF LevelInv, LevelIsDurable
<1>5. SpentInv'
  BY <1>2 DEF PetInv, SpentInv, NeverOvercounts
<1>6. FlagsOK'
  BY <1>2 DEF FlagsOK
<1> QED
  BY <1>3, <1>4, <1>5, <1>6 DEF PetInv

LEMMA ResetStep ==
  ASSUME PetInv, FactoryReset
  PROVE  PetInv'
<1>1. /\ saved' = NoStats /\ stats' = FreshStats /\ synced' = FALSE /\ durable' = TRUE
      /\ spent' = 0
  BY DEF FactoryReset, ForgetTotal
<1>2. Loaded(NoStats) = FreshStats
  BY DEF Loaded
<1>3. LiveOK' /\ SavedOK'
  BY <1>1, FreshTyped, EmptySeq, PetAssumption
     DEF FactoryReset, ForgetTotal, PetInv, LiveOK, SavedOK
<1>4. LevelInv' /\ LevelIsDurable'
  BY <1>1, <1>2, FreshTyped, LevelTyped DEF LevelInv, LevelIsDurable
<1>5. SpentInv'
  BY <1>1, <1>2, FreshTyped DEF SpentInv, NeverOvercounts
<1>6. FlagsOK'
  BY <1>1 DEF FlagsOK
<1> QED
  BY <1>3, <1>4, <1>5, <1>6 DEF PetInv

LEMMA ResetFailsStep ==
  ASSUME PetInv, FactoryResetFails
  PROVE  PetInv'
<1>1. UNCHANGED <<stats, lastBridge, synced, desktop, spent, recent>>
  BY DEF FactoryResetFails
<1>2. LiveOK' /\ LevelInv'
  BY <1>1 DEF PetInv, LiveOK, LevelInv
<1>3. faults' \in 0 .. MaxFaults
  BY PetAssumption DEF FactoryResetFails, PetInv, SavedOK
<1>4. CASE saved' = NoStats /\ savedRecent' = << >> /\ durable' = FALSE
  <2>1. LevelIsDurable' /\ FlagsOK'
    BY <1>1, <1>4 DEF PetInv, LevelIsDurable, FlagsOK
  <2>4. SavedOK'
    BY <1>3, <1>4, EmptySeq, PetAssumption DEF SavedOK
  <2>2. Loaded(saved').tokens = 0
    BY <1>4, FreshTyped DEF Loaded
  <2>3. SpentInv'
    BY <1>1, <2>2, TokensAreNat DEF PetInv, SpentInv, NeverOvercounts
  <2> QED
    BY <1>2, <2>1, <2>3, <2>4 DEF PetInv
<1>5. CASE UNCHANGED <<saved, savedRecent, durable>>
  BY <1>1, <1>2, <1>3, <1>5
     DEF PetInv, SavedOK, LevelIsDurable, FlagsOK, SpentInv, NeverOvercounts
<1> QED
  BY <1>4, <1>5 DEF FactoryResetFails

LEMMA PetStep == PetInv /\ [PetNext]_petVars => PetInv'
<1> SUFFICES ASSUME PetInv, [PetNext]_petVars
             PROVE  PetInv'
  OBVIOUS
<1>1. ASSUME UNCHANGED petVars
      PROVE  PetInv'
  BY <1>1 DEF petVars, PetInv, LiveOK, SavedOK, FlagsOK, LevelInv, LevelIsDurable,
              SpentInv, NeverOvercounts
<1> QED
  BY <1>1, DesktopStep, TokensStep, ApprovalTyped, DenialTyped, RestartStep,
     ResetStep, ResetFailsStep DEF PetNext

LEMMA PetInvHolds == PetSpec => []PetInv
  BY InitPetInv, PetStep, PTL DEF PetSpec

-----------------------------------------------------------------------------
\* The variables keep their types: counters saturate at their limits, the index
\* stays in the ring.
THEOREM PetTypeCorrect == PetSpec => []PetTypeOK
<1>1. PetInv => PetTypeOK
  BY DEF PetInv, LiveOK, SavedOK, FlagsOK, PetTypeOK
<1> QED
  BY <1>1, PetInvHolds, PTL

\* The level is that of the tokens, for any size of a level and any cap.
THEOREM LevelFollowsTokensHolds == PetSpec => []LevelFollowsTokens
<1>1. PetInv => LevelFollowsTokens
  <2> SUFFICES ASSUME PetInv
               PROVE  LevelFollowsTokens
    OBVIOUS
  <2> DEFINE q == stats.tokens \div TokensPerLevel
             P == TokensPerLevel
  <2>1. stats.tokens \in Nat /\ MaxLevel \in Nat /\ P \in Nat \ {0}
    BY TokensAreNat, PetAssumption
  <2>2. q \in Nat /\ P * q <= stats.tokens /\ stats.tokens < P * q + P
    BY <2>1, DivBounds
  <2>3. stats.level = AtMost(q, MaxLevel)
    BY DEF PetInv, LevelInv, LevelFromTokens
  <2> HIDE DEF q
  <2>4. stats.level <= MaxLevel
    BY <2>1, <2>2, <2>3 DEF AtMost
  <2>5. ASSUME stats.level < MaxLevel
        PROVE  stats.tokens \in stats.level * TokensPerLevel ..
                                 (stats.level + 1) * TokensPerLevel - 1
    <3>1. stats.level = q
      BY <2>1, <2>2, <2>3, <2>5 DEF AtMost
    <3>2. q * P = P * q /\ (q + 1) * P = P * q + P /\ P * q \in Nat
      BY <2>1, <2>2
    <3> QED
      BY <2>1, <2>2, <3>1, <3>2
  <2>6. ASSUME stats.level = MaxLevel
        PROVE  stats.tokens >= MaxLevel * TokensPerLevel
    <3>1. MaxLevel <= q
      BY <2>1, <2>2, <2>3, <2>6 DEF AtMost
    <3>2. P * MaxLevel <= P * q
      BY <2>1, <2>2, <3>1, ProductIsMonotone
    <3>3. P * MaxLevel = MaxLevel * P /\ P * MaxLevel \in Nat /\ P * q \in Nat
      BY <2>1, <2>2
    <3> QED
      BY <2>1, <2>2, <3>2, <3>3
  <2> QED
    BY <2>4, <2>5, <2>6 DEF LevelFollowsTokens
<1> QED
  BY <1>1, PetInvHolds, PTL

\* A level that was reached is on flash, unless its save failed.
THEOREM LevelIsDurableHolds == PetSpec => []LevelIsDurable
<1>1. PetInv => LevelIsDurable
  BY DEF PetInv
<1> QED
  BY <1>1, PetInvHolds, PTL

\* No token is counted twice, however restarts and totals interleave.
THEOREM NeverOvercountsHolds == PetSpec => []NeverOvercounts
<1>1. PetInv => NeverOvercounts
  BY DEF PetInv, SpentInv
<1> QED
  BY <1>1, PetInvHolds, PTL

-----------------------------------------------------------------------------
(* The ring of response times.                                               *)

\* How the ring of a block holds a sequence.
HoldsLatest(block, latest) ==
  /\ block.count = Len(latest)
  /\ \A k \in 1 .. Len(latest) :
       block.velocity[(block.index + 2 * Samples - k) % Samples]
         = latest[Len(latest) + 1 - k]

\* What flash holds is a ring of its time, so that a restart finds one.
RingInv ==
  /\ HoldsLatest(stats, recent)
  /\ IF saved = NoStats THEN savedRecent = << >> ELSE HoldsLatest(saved, savedRecent)

LEMMA ModOfSum ==
  ASSUME NEW n \in Nat \ {0}, NEW r \in 0 .. n - 1, NEW q \in {0, 1, 2}
  PROVE  (q * n + r) % n = r
<1> DEFINE x == q * n + r
           d == x \div n
<1>1. x \in Nat
  BY SMT
<1>2. d \in Nat /\ n * d <= x /\ x < n * d + n
  BY <1>1, DivBounds
<1>3. x % n = x - n * d
  BY <1>1, SMT
<1>4. d = q
  <2>1. n * q = q * n /\ n * q \in Nat /\ n * d \in Nat
    BY <1>2
  <2>2. CASE d >= q + 1
    <3>1. n * (q + 1) <= n * d
      BY <1>2, <2>2, ProductIsMonotone
    <3>2. n * (q + 1) = n * q + n
      BY <1>2
    <3> QED
      BY <1>2, <2>1, <3>1, <3>2
  <2>3. CASE q >= d + 1
    <3>1. n * (d + 1) <= n * q
      BY <1>2, <2>3, ProductIsMonotone
    <3>2. n * (d + 1) = n * d + n
      BY <1>2
    <3> QED
      BY <1>2, <2>1, <3>1, <3>2
  <2> QED
    BY <1>2, <2>2, <2>3
<1>5. n * q = q * n /\ q * n \in Nat
  BY SMT
<1> QED
  BY <1>3, <1>4, <1>5

\* The slot of the sample that is k back from the next one to be written.
LEMMA SlotBack ==
  ASSUME NEW i \in Slots, NEW k \in 1 .. Samples
  PROVE  (i + 2 * Samples - k) % Samples = IF k <= i THEN i - k ELSE i + Samples - k
<1>0. Samples \in Nat \ {0} /\ i \in 0 .. Samples - 1
  BY PetAssumption DEF Slots
<1>1. CASE k <= i
  <2>1. i - k \in 0 .. Samples - 1 /\ i + 2 * Samples - k = 2 * Samples + (i - k)
    BY <1>0, <1>1
  <2> QED
    BY <1>0, <1>1, <2>1, ModOfSum
<1>2. CASE ~(k <= i)
  <2>1. /\ i + Samples - k \in 0 .. Samples - 1
        /\ i + 2 * Samples - k = 1 * Samples + (i + Samples - k)
    BY <1>0, <1>2
  <2> QED
    BY <1>0, <1>2, <2>1, ModOfSum
<1> QED
  BY <1>1, <1>2

LEMMA NextSlotIs ==
  ASSUME NEW i \in Slots
  PROVE  NextSlot(i) = IF i + 1 = Samples THEN 0 ELSE i + 1
<1>0. Samples \in Nat \ {0} /\ i \in 0 .. Samples - 1
  BY PetAssumption DEF Slots
<1>1. CASE i + 1 = Samples
  <2>1. i + 1 = 1 * Samples + 0 /\ 0 \in 0 .. Samples - 1
    BY <1>0, <1>1
  <2> QED
    BY <1>0, <1>1, <2>1, ModOfSum DEF NextSlot
<1>2. CASE i + 1 # Samples
  <2>1. i + 1 \in 0 .. Samples - 1 /\ i + 1 = 0 * Samples + (i + 1)
    BY <1>0, <1>2
  <2> QED
    BY <1>0, <1>2, <2>1, ModOfSum DEF NextSlot
<1> QED
  BY <1>1, <1>2

\* The new sample is one back from the next slot, the others are one further back.
LEMMA SlotsMoveBack ==
  ASSUME NEW i \in Slots
  PROVE  /\ (NextSlot(i) + 2 * Samples - 1) % Samples = i
         /\ \A k \in 2 .. Samples :
              /\ (NextSlot(i) + 2 * Samples - k) % Samples
                   = (i + 2 * Samples - (k - 1)) % Samples
              /\ (i + 2 * Samples - (k - 1)) % Samples # i
<1>0. Samples \in Nat \ {0} /\ i \in 0 .. Samples - 1 /\ NextSlot(i) \in Slots
  BY NextSlotIs, PetAssumption DEF Slots
<1>1. (NextSlot(i) + 2 * Samples - 1) % Samples = i
  <2>1. 1 \in 1 .. Samples
    BY <1>0
  <2>2. (NextSlot(i) + 2 * Samples - 1) % Samples
          = IF 1 <= NextSlot(i) THEN NextSlot(i) - 1 ELSE NextSlot(i) + Samples - 1
    BY <1>0, <2>1, SlotBack
  <2> QED
    BY <1>0, <2>2, NextSlotIs
<1>2. ASSUME NEW k \in 2 .. Samples
      PROVE  /\ (NextSlot(i) + 2 * Samples - k) % Samples
                  = (i + 2 * Samples - (k - 1)) % Samples
             /\ (i + 2 * Samples - (k - 1)) % Samples # i
  <2>1. k \in 1 .. Samples /\ k - 1 \in 1 .. Samples /\ k - 1 < Samples
    BY <1>0
  <2>2. (NextSlot(i) + 2 * Samples - k) % Samples
          = IF k <= NextSlot(i) THEN NextSlot(i) - k ELSE NextSlot(i) + Samples - k
    BY <1>0, <2>1, SlotBack
  <2>3. (i + 2 * Samples - (k - 1)) % Samples
          = IF k - 1 <= i THEN i - (k - 1) ELSE i + Samples - (k - 1)
    BY <1>0, <2>1, SlotBack
  <2> QED
    BY <1>0, <2>1, <2>2, <2>3, NextSlotIs
<1> QED
  BY <1>1, <1>2

\* The sequence with one more sample, of which the first may have gone.
LEMMA LatestOfAppend ==
  ASSUME NEW s \in Seq(Responses), Len(s) <= Samples, NEW v \in Responses
  PROVE  LET t == Latest(Append(s, v), Samples)
         IN  /\ t \in Seq(Responses)
             /\ Len(t) = AtMost(Len(s) + 1, Samples)
             /\ t[Len(t)] = v
             /\ \A k \in 2 .. Len(t) : t[Len(t) + 1 - k] = s[Len(s) + 1 - (k - 1)]
<1> DEFINE a == Append(s, v)
           from == IF Len(a) > Samples THEN Len(a) - Samples + 1 ELSE 1
           t == Latest(a, Samples)
<1>0. Samples \in Nat \ {0} /\ Len(s) \in Nat
  BY PetAssumption
<1>1. /\ a \in Seq(Responses) /\ Len(a) = Len(s) + 1 /\ a[Len(s) + 1] = v
      /\ \A i \in 1 .. Len(s) : a[i] = s[i]
  BY AppendProperties
<1>2. t = SubSeq(a, from, Len(a))
  BY DEF Latest
<1> HIDE DEF a
<1>3. from \in 1 .. Len(a) /\ Len(a) - from + 1 = AtMost(Len(s) + 1, Samples)
  <2>1. Len(a) = Len(s) + 1
    BY <1>1
  <2>2. CASE Len(a) > Samples
    <3>1. Len(s) = Samples /\ Len(a) = Samples + 1 /\ Samples \in Nat /\ Samples >= 1
      BY <1>0, <2>1, <2>2
    <3>2. from = 2
      BY <2>2, <3>1
    <3> HIDE DEF from
    <3>3. from \in 1 .. Len(a)
      BY <3>1, <3>2
    <3>4. Len(a) - from + 1 = Samples /\ AtMost(Len(s) + 1, Samples) = Samples
      BY <3>1, <3>2 DEF AtMost
    <3> QED
      BY <3>3, <3>4
  <2>3. CASE ~(Len(a) > Samples)
    BY <1>0, <2>1, <2>3 DEF AtMost
  <2> QED
    BY <2>2, <2>3
<1> HIDE DEF from
<1>4. /\ t \in Seq(Responses) /\ Len(t) = Len(a) - from + 1
      /\ \A i \in 1 .. Len(a) - from + 1 : t[i] = a[from + i - 1]
  BY <1>0, <1>1, <1>2, <1>3, SubSeqProperties
<1> HIDE DEF t
<1>5. t[Len(t)] = v
  BY <1>0, <1>1, <1>3, <1>4
<1>6. ASSUME NEW k \in 2 .. Len(t)
      PROVE  t[Len(t) + 1 - k] = s[Len(s) + 1 - (k - 1)]
  <2>1. Len(t) + 1 - k \in 1 .. Len(a) - from + 1
    BY <1>0, <1>1, <1>3, <1>4
  <2>2. t[Len(t) + 1 - k] = a[from + (Len(t) + 1 - k) - 1]
    BY <1>4, <2>1
  <2>3. /\ from + (Len(t) + 1 - k) - 1 = Len(s) + 1 - (k - 1)
        /\ Len(s) + 1 - (k - 1) \in 1 .. Len(s)
    BY <1>0, <1>1, <1>3, <1>4
  <2> QED
    BY <1>1, <2>2, <2>3
<1> QED
  BY <1>3, <1>4, <1>5, <1>6 DEF t, a

\* An approval writes the next slot.
LEMMA ApprovalRing ==
  ASSUME PetInv, RingInv, NEW seconds \in Responses, RecordApproval(seconds)
  PROVE  HoldsLatest(stats, recent)'
<1> DEFINE i == stats.index
           t == Latest(Append(recent, seconds), Samples)
<1>0. /\ stats \in PetStatsType /\ i \in Slots
      /\ stats.velocity \in [Slots -> Responses]
      /\ recent \in Seq(Responses) /\ Len(recent) \in Nat /\ Len(recent) <= Samples
      /\ Samples \in Nat \ {0}
  BY PetAssumption DEF PetInv, LiveOK, PetStatsType
<1>1. /\ stats'.velocity = [stats.velocity EXCEPT ![i] = seconds]
      /\ stats'.index = NextSlot(i)
      /\ stats'.count = AtMost(stats.count + 1, Samples)
      /\ recent' = t
  BY <1>0 DEF RecordApproval, PetStatsType
<1>2. /\ t \in Seq(Responses) /\ Len(t) \in Nat
      /\ Len(t) = AtMost(Len(recent) + 1, Samples)
      /\ t[Len(t)] = seconds
      /\ \A k \in 2 .. Len(t) : t[Len(t) + 1 - k] = recent[Len(recent) + 1 - (k - 1)]
  BY <1>0, LatestOfAppend
<1> HIDE DEF t
<1>3. Len(t) <= Samples /\ Len(t) <= Len(recent) + 1
  BY <1>0, <1>2 DEF AtMost
<1>4. stats'.count = Len(recent')
  BY <1>1, <1>2 DEF RingInv, HoldsLatest
<1>5. ASSUME NEW k \in 1 .. Len(t)
      PROVE  stats'.velocity[(NextSlot(i) + 2 * Samples - k) % Samples] = t[Len(t) + 1 - k]
  <2>1. CASE k = 1
    <3>1. (NextSlot(i) + 2 * Samples - k) % Samples = i
      BY <1>0, <2>1, SlotsMoveBack
    <3>2. Len(t) + 1 - k = Len(t)
      BY <1>2, <2>1
    <3> QED
      BY <1>0, <1>1, <1>2, <3>1, <3>2
  <2>2. CASE k # 1
    <3> DEFINE b == (i + 2 * Samples - (k - 1)) % Samples
    <3>1. k \in 2 .. Samples /\ k \in 2 .. Len(t) /\ k - 1 \in 1 .. Len(recent)
      BY <1>0, <1>2, <1>3, <2>2
    <3>2. (NextSlot(i) + 2 * Samples - k) % Samples = b /\ b # i
      BY <1>0, <3>1, SlotsMoveBack
    <3>3. b \in Slots
      <4>1. k - 1 \in 1 .. Samples
        BY <1>0, <3>1
      <4>2. b = IF k - 1 <= i THEN i - (k - 1) ELSE i + Samples - (k - 1)
        BY <1>0, <4>1, SlotBack
      <4> HIDE DEF b
      <4> QED
        BY <1>0, <4>1, <4>2 DEF Slots
    <3>4. stats.velocity[b] = recent[Len(recent) + 1 - (k - 1)]
      BY <3>1 DEF RingInv, HoldsLatest
    <3> HIDE DEF b
    <3> QED
      BY <1>0, <1>1, <1>2, <3>1, <3>2, <3>3, <3>4
  <2> QED
    BY <2>1, <2>2
<1> QED
  BY <1>1, <1>4, <1>5 DEF HoldsLatest

\* A save takes the ring along; without one, flash holds what it held.
LEMMA SaveRing ==
  ASSUME PetInv', RingInv, HoldsLatest(stats, recent)', SaveStats \/ NoSave
  PROVE  RingInv'
<1>1. CASE saved' = stats' /\ savedRecent' = recent'
  <2>1. saved' # NoStats
    BY <1>1, NoStatsAssumption DEF PetInv, LiveOK
  <2> QED
    BY <1>1, <2>1 DEF RingInv, HoldsLatest
<1>2. CASE UNCHANGED <<saved, savedRecent>>
  BY <1>2 DEF RingInv, HoldsLatest
<1> QED
  BY <1>1, <1>2 DEF SaveStats, NoSave

LEMMA NoSamples ==
  ASSUME NEW block, block.count = 0
  PROVE  HoldsLatest(block, << >>)
  BY DEF HoldsLatest

LEMMA LoadedRing ==
  ASSUME PetInv, RingInv
  PROVE  HoldsLatest(Loaded(saved), savedRecent)
<1>1. CASE saved = NoStats
  BY <1>1, NoSamples DEF RingInv, Loaded, FreshStats
<1>2. CASE saved # NoStats
  <2>1. saved \in PetStatsType
    BY <1>2 DEF PetInv, SavedOK
  <2>2. /\ Loaded(saved).count = saved.count /\ Loaded(saved).index = saved.index
        /\ Loaded(saved).velocity = saved.velocity
    BY <1>2, <2>1 DEF Loaded, PetStatsType
  <2> QED
    BY <1>2, <2>2 DEF RingInv, HoldsLatest
<1> QED
  BY <1>1, <1>2

LEMMA InitRing == PetInit => RingInv
<1> SUFFICES ASSUME PetInit
             PROVE  RingInv
  OBVIOUS
<1>1. saved # NoStats => saved \in PetStatsType /\ saved.count = 0
  BY OldBlocksTyped DEF PetInit, OldBlocks, FreshStats
<1>2. stats.count = 0
  BY <1>1 DEF PetInit, Loaded, FreshStats, PetStatsType
<1>3. saved # NoStats => HoldsLatest(saved, savedRecent)
  BY <1>1, NoSamples DEF PetInit
<1> QED
  BY <1>2, <1>3, NoSamples DEF PetInit, RingInv

LEMMA RingStep == PetInv /\ PetInv' /\ RingInv /\ [PetNext]_petVars => RingInv'
<1> SUFFICES ASSUME PetInv, PetInv', RingInv, [PetNext]_petVars
             PROVE  RingInv'
  OBVIOUS
<1>1. ASSUME UNCHANGED <<stats, recent>>
      PROVE  HoldsLatest(stats, recent)'
  BY <1>1 DEF RingInv, HoldsLatest
<1>2. CASE DesktopSpends \/ DesktopRestarts
  BY <1>1, <1>2, SaveRing DEF DesktopSpends, DesktopRestarts
<1>3. ASSUME /\ stats'.count = stats.count /\ stats'.index = stats.index
             /\ stats'.velocity = stats.velocity /\ recent' = recent
      PROVE  HoldsLatest(stats, recent)'
  BY <1>3 DEF RingInv, HoldsLatest
<1>4. CASE UpdateBridgeTokens
  <2>1. /\ stats'.count = stats.count /\ stats'.index = stats.index
        /\ stats'.velocity = stats.velocity /\ recent' = recent
    BY <1>4 DEF UpdateBridgeTokens, PetInv, LiveOK, PetStatsType
  <2>2. SaveStats \/ NoSave
    BY <1>4 DEF UpdateBridgeTokens
  <2> QED
    BY <1>3, <2>1, <2>2, SaveRing
<1>5. ASSUME NEW seconds \in Responses, RecordApproval(seconds)
      PROVE  RingInv'
  <2>1. HoldsLatest(stats, recent)'
    BY <1>5, ApprovalRing
  <2>2. SaveStats
    BY <1>5 DEF RecordApproval
  <2> QED
    BY <2>1, <2>2, SaveRing
<1>6. CASE RecordDenial
  <2>1. /\ stats'.count = stats.count /\ stats'.index = stats.index
        /\ stats'.velocity = stats.velocity /\ recent' = recent
    BY <1>6 DEF RecordDenial, PetInv, LiveOK, PetStatsType
  <2> QED
    BY <1>3, <1>6, <2>1, SaveRing DEF RecordDenial
<1>7. CASE Restart
  <2>1. stats' = Loaded(saved) /\ recent' = savedRecent /\ UNCHANGED <<saved, savedRecent>>
    BY <1>7 DEF Restart
  <2>2. HoldsLatest(stats', recent')
    BY <2>1, LoadedRing
  <2> QED
    BY <2>1, <2>2 DEF RingInv, HoldsLatest
<1>8. CASE FactoryReset
  <2>1. stats'.count = 0 /\ recent' = << >> /\ saved' = NoStats /\ savedRecent' = << >>
    BY <1>8 DEF FactoryReset, FreshStats
  <2> QED
    BY <2>1, NoSamples DEF RingInv, HoldsLatest
<1>9. CASE FactoryResetFails
  BY <1>1, <1>9 DEF FactoryResetFails, RingInv, HoldsLatest
<1>10. CASE UNCHANGED petVars
  BY <1>10 DEF petVars, RingInv, HoldsLatest
<1> QED
  BY <1>2, <1>4, <1>5, <1>6, <1>7, <1>8, <1>9, <1>10 DEF PetNext

\* The ring holds the latest response times in order, for a ring of any size, over
\* wrap-around, saves that fail, restarts and resets.
THEOREM RingHoldsLatestHolds == PetSpec => []RingHoldsLatest
<1>1. RingInv => RingHoldsLatest
  BY DEF RingInv, HoldsLatest, RingHoldsLatest
<1> QED
  BY <1>1, InitRing, PetStep, RingStep, PetInvHolds, PTL DEF PetSpec

-----------------------------------------------------------------------------
(* The median of the response times.                                         *)

\* Induction over sets of naturals, for what recursive functions compute.
LEMMA LeastOfSet ==
  ASSUME NEW T \in SUBSET Nat, T # {}
  PROVE  \E m \in T : \A x \in T : m <= x
<1>1. PICK m \in T : \A y \in T : ~(<<y, m>> \in OpToRel(<, Nat))
  BY NatLessThanWellFounded, WFMin
<1>2. \A y \in T : ~(y < m)
  BY <1>1 DEF OpToRel
<1> QED
  BY <1>2

LEMMA SetOfAllNat ==
  ASSUME NEW T \in SUBSET Nat, 0 \in T, \A n \in T : n + 1 \in T
  PROVE  T = Nat
<1>1. SUFFICES ASSUME Nat \ T # {}
               PROVE  FALSE
  OBVIOUS
<1>2. PICK m \in Nat \ T : \A x \in Nat \ T : m <= x
  BY <1>1, LeastOfSet
<1>3. m - 1 \in Nat /\ (m - 1) + 1 = m /\ ~(m <= m - 1)
  BY <1>2
<1> QED
  BY <1>2, <1>3

\* The function of the rounds of the sort, of which the first n are made here.
Rounds(f, s, n) ==
  f = [k \in 0 .. n |-> IF k = 0 THEN << >> ELSE Insert(f[k - 1], s.velocity[k - 1])]

\* A function with the equations of the sort exists, so CHOOSE finds one.
LEMMA RoundsExist ==
  ASSUME NEW s, NEW n \in Nat
  PROVE  \E f : Rounds(f, s, n)
<1> DEFINE T == {k \in Nat : \E f : Rounds(f, s, k)}
<1>1. 0 \in T
  <2> DEFINE f == [k \in 0 .. 0 |-> << >>]
  <2>1. \A k \in 0 .. 0 : k = 0
    OBVIOUS
  <2>2. Rounds(f, s, 0)
    BY <2>1 DEF Rounds
  <2> QED
    BY <2>2
<1>2. ASSUME NEW k \in T
      PROVE  k + 1 \in T
  <2>1. PICK f : Rounds(f, s, k)
    OBVIOUS
  <2> DEFINE next == Insert(f[k], s.velocity[k])
             g == [i \in 0 .. k + 1 |-> IF i = k + 1 THEN next ELSE f[i]]
  <2> HIDE DEF next
  <2>2. \A i \in 0 .. k : g[i] = f[i]
    OBVIOUS
  <2>3. ASSUME NEW i \in 0 .. k + 1
        PROVE  g[i] = IF i = 0 THEN << >> ELSE Insert(g[i - 1], s.velocity[i - 1])
    <3>1. CASE i = k + 1
      <4>1. g[i] = next /\ i # 0 /\ i - 1 = k /\ k \in 0 .. k
        BY <3>1
      <4>2. next = Insert(g[k], s.velocity[k])
        BY <2>2, <4>1 DEF next
      <4> QED
        BY <4>1, <4>2
    <3>2. CASE i # k + 1
      <4>1. i \in 0 .. k /\ (i # 0 => i - 1 \in 0 .. k)
        BY <3>2
      <4>2. f[i] = IF i = 0 THEN << >> ELSE Insert(f[i - 1], s.velocity[i - 1])
        BY <2>1, <4>1 DEF Rounds
      <4>3. g[i] = f[i] /\ (i # 0 => g[i - 1] = f[i - 1])
        BY <2>2, <4>1
      <4> HIDE DEF g
      <4> QED
        BY <4>2, <4>3
    <3> QED
      BY <3>1, <3>2
  <2>4. g = [i \in 0 .. k + 1 |-> g[i]]
    OBVIOUS
  <2> HIDE DEF g
  <2>5. Rounds(g, s, k + 1)
    BY <2>3, <2>4 DEF Rounds
  <2> QED
    BY <2>5
<1> HIDE DEF T
<1>3. T = Nat
  BY <1>1, <1>2, SetOfAllNat DEF T
<1> QED
  BY <1>3 DEF T

LEMMA SortedIsOfRounds ==
  ASSUME NEW s, s.count \in Nat
  PROVE  \E f : Rounds(f, s, s.count) /\ SortedVelocity(s) = f[s.count]
<1> DEFINE sorted == CHOOSE f : Rounds(f, s, s.count)
<1>1. SortedVelocity(s) = sorted[s.count]
  BY DEF SortedVelocity, Rounds
<1>2. Rounds(sorted, s, s.count)
  BY RoundsExist
<1> QED
  BY <1>1, <1>2

\* The elements of a sequence are in order.
Ascends(q) == \A i, j \in 1 .. Len(q) : i <= j => q[i] <= q[j]

\* There is a place for every value.
LEMMA PlaceIs ==
  ASSUME NEW q \in Seq(Nat), NEW value \in Nat
  PROVE  /\ Place(q, value) \in 0 .. Len(q)
         /\ Place(q, value) = 0 \/ q[Place(q, value)] <= value
         /\ \A i \in Place(q, value) + 1 .. Len(q) : q[i] > value
<1>0. Len(q) \in Nat /\ \A i \in 1 .. Len(q) : q[i] \in Nat
  BY ElementOfSeq
<1> DEFINE T == {k \in 0 .. Len(q) : \A i \in k + 1 .. Len(q) : q[i] > value}
<1>1. T \in SUBSET Nat /\ Len(q) \in T
  BY <1>0
<1>2. PICK k \in T : \A x \in T : k <= x
  BY <1>1, LeastOfSet
<1>3. k = 0 \/ q[k] <= value
  <2> SUFFICES ASSUME k # 0, ~(q[k] <= value)
               PROVE  FALSE
    OBVIOUS
  <2>1. k \in 1 .. Len(q) /\ k - 1 \in 0 .. Len(q) /\ (k - 1) + 1 = k
    BY <1>0
  <2>2. q[k] > value
    BY <1>0, <2>1
  <2>3. \A i \in k .. Len(q) : i = k \/ i \in k + 1 .. Len(q)
    BY <1>0, <2>1
  <2>4. k - 1 \in T
    BY <2>1, <2>2, <2>3
  <2> QED
    BY <1>2, <2>1, <2>4
<1>4. \E x \in 0 .. Len(q) : /\ x = 0 \/ q[x] <= value
                            /\ \A i \in x + 1 .. Len(q) : q[i] > value
  BY <1>3
<1> HIDE DEF T
<1> QED
  BY <1>4 DEF Place

\* A round puts the value behind the elements that are not larger.
LEMMA InsertIs ==
  ASSUME NEW q \in Seq(Nat), NEW value \in Nat
  PROVE  LET k == Place(q, value)
             t == Insert(q, value)
         IN  /\ k \in 0 .. Len(q)
             /\ t \in Seq(Nat) /\ Len(t) = Len(q) + 1
             /\ \A i \in 1 .. Len(q) + 1 :
                  t[i] = IF i <= k THEN q[i] ELSE IF i = k + 1 THEN value ELSE q[i - 1]
<1> DEFINE k == Place(q, value)
           n == Len(q)
           a == SubSeq(q, 1, k)
           b == SubSeq(q, k + 1, n)
           t == Insert(q, value)
<1>0. n \in Nat /\ k \in 0 .. n
  BY PlaceIs
<1> HIDE DEF k
<1>1. t = a \o <<value>> \o b
  <2>1. (k + 1) - 1 = k
    BY <1>0
  <2> QED
    BY <2>1 DEF Insert, InsertAt, k
<1> HIDE DEF t
<1>2. /\ a \in Seq(Nat) /\ Len(a) = k
      /\ \A i \in 1 .. k : a[i] = q[i]
  <2>1. \A i \in 1 .. k : q[i] \in Nat
    BY <1>0, ElementOfSeq
  <2>2. /\ SubSeq(q, 1, k) \in Seq(Nat)
        /\ Len(SubSeq(q, 1, k)) = IF 1 <= k THEN k - 1 + 1 ELSE 0
        /\ \A i \in 1 .. k - 1 + 1 : SubSeq(q, 1, k)[i] = q[1 + i - 1]
    <3>1. 1 \in Int /\ k \in Int
      BY <1>0
    <3> QED
      BY <2>1, <3>1, SubSeqProperties
  <2> HIDE DEF a, n
  <2>3. k - 1 + 1 = k /\ (~(1 <= k) => k = 0) /\ \A i \in 1 .. k : 1 + i - 1 = i
    BY <1>0
  <2> QED
    BY <2>2, <2>3 DEF a
<1>3. /\ b \in Seq(Nat) /\ Len(b) = n - k
      /\ \A i \in 1 .. n - k : b[i] = q[k + i]
  <2>1. \A i \in k + 1 .. n : q[i] \in Nat
    BY <1>0, ElementOfSeq
  <2>2. /\ SubSeq(q, k + 1, n) \in Seq(Nat)
        /\ Len(SubSeq(q, k + 1, n)) = IF k + 1 <= n THEN (n - (k + 1)) + 1 ELSE 0
        /\ \A i \in 1 .. (n - (k + 1)) + 1 : SubSeq(q, k + 1, n)[i] = q[(k + 1) + (i - 1)]
    <3>1. k + 1 \in Int /\ n \in Int
      BY <1>0
    <3> QED
      BY <2>1, <3>1, SubSeqProperties
  <2> HIDE DEF b, n
  <2>3. /\ (n - (k + 1)) + 1 = n - k /\ (~(k + 1 <= n) => n - k = 0)
        /\ \A i \in 1 .. n - k : (k + 1) + (i - 1) = k + i
    BY <1>0
  <2> QED
    BY <2>2, <2>3 DEF b
<1> HIDE DEF a, b
<1>4. /\ <<value>> \in Seq(Nat) /\ Len(<<value>>) = 1 /\ <<value>>[1] = value
  OBVIOUS
<1> DEFINE c == a \o <<value>>
<1>5. /\ c \in Seq(Nat) /\ Len(c) = k + 1
      /\ \A i \in 1 .. k + 1 : c[i] = IF i <= k THEN q[i] ELSE value
  <2>1. /\ c \in Seq(Nat) /\ Len(c) = Len(a) + Len(<<value>>)
        /\ \A i \in 1 .. Len(a) + Len(<<value>>) :
             c[i] = IF i <= Len(a) THEN a[i] ELSE <<value>>[i - Len(a)]
    BY <1>2, <1>4, ConcatProperties
  <2> HIDE DEF c
  <2>2. /\ Len(c) = k + 1
        /\ \A i \in 1 .. k + 1 : c[i] = IF i <= k THEN a[i] ELSE <<value>>[i - k]
    BY <1>2, <1>4, <2>1
  <2>3. \A i \in 1 .. k + 1 : i <= k \/ i - k = 1
    BY <1>0
  <2>4. \A i \in 1 .. k + 1 : i <= k => a[i] = q[i]
    BY <1>0, <1>2
  <2> QED
    BY <1>4, <2>1, <2>2, <2>3, <2>4
<1>6. t = c \o b
  BY <1>1
<1> HIDE DEF c
<1>7. /\ t \in Seq(Nat) /\ Len(t) = n + 1
      /\ \A i \in 1 .. n + 1 : t[i] = IF i <= k + 1 THEN c[i] ELSE b[i - (k + 1)]
  <2>1. /\ t \in Seq(Nat) /\ Len(t) = Len(c) + Len(b)
        /\ \A i \in 1 .. Len(c) + Len(b) :
             t[i] = IF i <= Len(c) THEN c[i] ELSE b[i - Len(c)]
    BY <1>3, <1>5, <1>6, ConcatProperties
  <2>2. Len(c) + Len(b) = n + 1
    BY <1>0, <1>3, <1>5
  <2> QED
    BY <1>5, <2>1, <2>2
<1> HIDE DEF n
<1>8. ASSUME NEW i \in 1 .. n + 1
      PROVE  t[i] = IF i <= k THEN q[i] ELSE IF i = k + 1 THEN value ELSE q[i - 1]
  <2>1. CASE i <= k + 1
    BY <1>0, <1>5, <1>7, <2>1
  <2>2. CASE ~(i <= k + 1)
    <3>1. /\ i - (k + 1) \in 1 .. n - k /\ k + (i - (k + 1)) = i - 1
          /\ ~(i <= k) /\ i # k + 1
      BY <1>0, <2>2
    <3>2. t[i] = b[i - (k + 1)]
      BY <1>7, <2>2
    <3> QED
      BY <1>3, <3>1, <3>2
  <2> QED
    BY <2>1, <2>2
<1> QED
  BY <1>0, <1>7, <1>8 DEF k, n, t

\* What the sort has made of the first n slots: where each of them has gone.
Sorts(q, velocity, n) ==
  /\ q \in Seq(Nat) /\ Len(q) = n
  /\ Ascends(q)
  /\ \E r \in Injection(1 .. n, 1 .. n) : \A j \in 1 .. n : velocity[j - 1] = q[r[j]]

\* A round keeps the elements in order and loses none.
LEMMA InsertAscends ==
  ASSUME NEW q \in Seq(Nat), NEW value \in Nat, Ascends(q)
  PROVE  Ascends(Insert(q, value))
<1> DEFINE k == Place(q, value)
           t == Insert(q, value)
           n == Len(q)
<1>0. n \in Nat /\ \A i \in 1 .. n : q[i] \in Nat
  BY ElementOfSeq
<1>1. /\ k \in 0 .. n
      /\ Len(t) = n + 1
      /\ \A i \in 1 .. n + 1 :
           t[i] = IF i <= k THEN q[i] ELSE IF i = k + 1 THEN value ELSE q[i - 1]
  BY InsertIs
<1>2. (k = 0 \/ q[k] <= value) /\ \A i \in k + 1 .. n : q[i] > value
  BY PlaceIs
<1>3. \A i, j \in 1 .. n : i <= j => q[i] <= q[j]
  BY DEF Ascends
<1> HIDE DEF k, t, n
<1>4. \A i \in 1 .. k : i \in 1 .. n /\ q[i] <= value
  <2>1. ASSUME NEW i \in 1 .. k
        PROVE  i \in 1 .. n /\ k \in 1 .. n /\ k # 0 /\ i <= k
    BY <1>0, <1>1
  <2>2. ASSUME NEW i \in 1 .. k
        PROVE  q[i] <= q[k] /\ q[k] <= value
    BY <1>2, <1>3, <2>1
  <2>3. ASSUME NEW i \in 1 .. k
        PROVE  q[i] <= value
    BY <1>0, <2>1, <2>2
  <2> QED
    BY <2>1, <2>3
<1>5. ASSUME NEW i \in 1 .. n + 1, NEW j \in 1 .. n + 1, i <= j
      PROVE  t[i] <= t[j]
  <2>1. CASE j <= k
    <3>1. i \in 1 .. n /\ j \in 1 .. n /\ i <= k
      BY <1>0, <1>1, <1>5, <2>1
    <3> QED
      BY <1>1, <1>3, <1>5, <2>1, <3>1
  <2>2. CASE j = k + 1
    <3>1. ~(j <= k) /\ (i <= k \/ i = k + 1)
      BY <1>0, <1>1, <1>5, <2>2
    <3>2. t[j] = value
      BY <1>1, <2>2, <3>1
    <3>3. CASE i <= k
      <4>1. t[i] = q[i] /\ i \in 1 .. k
        BY <1>0, <1>1, <3>3
      <4> QED
        BY <1>4, <3>2, <4>1
    <3>4. CASE i = k + 1
      BY <2>2, <3>2, <3>4
    <3> QED
      BY <3>1, <3>3, <3>4
  <2>3. CASE j > k + 1
    <3>1. /\ ~(j <= k) /\ j # k + 1
          /\ j - 1 \in k + 1 .. n /\ j - 1 \in 1 .. n
      BY <1>0, <1>1, <1>5, <2>3
    <3>2. t[j] = q[j - 1] /\ q[j - 1] > value /\ q[j - 1] \in Nat
      BY <1>0, <1>1, <1>2, <3>1
    <3>3. CASE i <= k
      <4>1. t[i] = q[i] /\ i \in 1 .. k /\ i \in 1 .. n
        BY <1>0, <1>1, <3>3
      <4>2. q[i] <= value /\ q[i] \in Nat
        BY <1>0, <1>4, <4>1
      <4> QED
        BY <3>2, <4>1, <4>2
    <3>4. CASE i = k + 1
      <4>1. t[i] = value
        BY <1>0, <1>1, <3>4
      <4> QED
        BY <3>2, <4>1
    <3>5. CASE i > k + 1
      <4>1. ~(i <= k) /\ i # k + 1 /\ i - 1 \in 1 .. n /\ i - 1 <= j - 1
        BY <1>0, <1>1, <1>5, <3>5
      <4>2. t[i] = q[i - 1]
        BY <1>1, <4>1
      <4> QED
        BY <1>3, <3>1, <3>2, <4>1, <4>2
    <3> QED
      BY <1>0, <1>1, <3>3, <3>4, <3>5
  <2> QED
    BY <1>0, <1>1, <2>1, <2>2, <2>3
<1> QED
  BY <1>1, <1>5 DEF Ascends, t

LEMMA InsertSorts ==
  ASSUME NEW q, NEW velocity, NEW n \in Nat, Sorts(q, velocity, n), velocity[n] \in Nat
  PROVE  Sorts(Insert(q, velocity[n]), velocity, n + 1)
<1> DEFINE value == velocity[n]
           k == Place(q, value)
           t == Insert(q, value)
<1>1. q \in Seq(Nat) /\ Len(q) = n /\ Ascends(q)
  BY DEF Sorts
<1>2. PICK r \in Injection(1 .. n, 1 .. n) : \A j \in 1 .. n : velocity[j - 1] = q[r[j]]
  BY DEF Sorts
<1>3. /\ k \in 0 .. n
      /\ t \in Seq(Nat) /\ Len(t) = n + 1
      /\ \A i \in 1 .. n + 1 :
           t[i] = IF i <= k THEN q[i] ELSE IF i = k + 1 THEN value ELSE q[i - 1]
  BY <1>1, InsertIs
<1>0. k \in 0 .. n
  BY <1>3
<1>4. Ascends(t)
  BY <1>1, InsertAscends
<1> HIDE DEF k, t
<1>5. /\ r \in [1 .. n -> 1 .. n]
      /\ \A a, b \in 1 .. n : r[a] = r[b] => a = b
  BY DEF Injection, IsInjective
<1> DEFINE p == [j \in 1 .. n + 1 |-> IF j = n + 1 THEN k + 1
                                      ELSE IF r[j] <= k THEN r[j] ELSE r[j] + 1]
<1>6. p[n + 1] = k + 1
  OBVIOUS
<1>7. \A j \in 1 .. n : /\ j # n + 1 /\ j \in 1 .. n + 1 /\ r[j] \in 1 .. n
                        /\ p[j] = IF r[j] <= k THEN r[j] ELSE r[j] + 1
  BY <1>5
<1>8. \A j \in 1 .. n + 1 : j = n + 1 \/ j \in 1 .. n
  OBVIOUS
<1>9. DOMAIN p = 1 .. n + 1 /\ p = [j \in 1 .. n + 1 |-> p[j]]
  OBVIOUS
<1> HIDE DEF p
<1>10. \A j \in 1 .. n + 1 : p[j] \in 1 .. n + 1
  <2>1. ASSUME NEW j \in 1 .. n
        PROVE  p[j] \in 1 .. n + 1
    <3>1. r[j] \in 1 .. n /\ p[j] = (IF r[j] <= k THEN r[j] ELSE r[j] + 1)
      BY <1>7
    <3> QED
      BY <1>0, <3>1
  <2>2. p[n + 1] \in 1 .. n + 1
    BY <1>0, <1>6
  <2> QED
    BY <1>8, <2>1, <2>2
<1>11. ASSUME NEW a \in 1 .. n + 1, NEW b \in 1 .. n + 1, p[a] = p[b]
       PROVE  a = b
  <2>1. CASE a \in 1 .. n /\ b \in 1 .. n
    <3>1. /\ r[a] \in 1 .. n /\ p[a] = (IF r[a] <= k THEN r[a] ELSE r[a] + 1)
          /\ r[b] \in 1 .. n /\ p[b] = (IF r[b] <= k THEN r[b] ELSE r[b] + 1)
      BY <1>7, <2>1
    <3>2. \A x, y \in 1 .. n :
            (IF x <= k THEN x ELSE x + 1) = (IF y <= k THEN y ELSE y + 1) => x = y
      BY <1>0
    <3>3. r[a] = r[b]
      BY <1>11, <3>1, <3>2
    <3> QED
      BY <1>5, <2>1, <3>3
  <2>2. ASSUME NEW j \in 1 .. n
        PROVE  p[j] # k + 1
    <3>1. r[j] \in 1 .. n /\ p[j] = (IF r[j] <= k THEN r[j] ELSE r[j] + 1)
      BY <1>7
    <3> QED
      BY <1>0, <3>1
  <2> QED
    BY <1>6, <1>8, <1>11, <2>1, <2>2
<1>12. p \in Injection(1 .. n + 1, 1 .. n + 1)
  <2>1. p \in [1 .. n + 1 -> 1 .. n + 1]
    BY <1>9, <1>10
  <2> QED
    BY <1>9, <1>11, <2>1 DEF Injection, IsInjective
<1>13. ASSUME NEW j \in 1 .. n + 1
       PROVE  velocity[j - 1] = t[p[j]]
  <2>1. CASE j = n + 1
    <3>1. j - 1 = n /\ p[j] = k + 1 /\ k + 1 \in 1 .. n + 1 /\ ~(k + 1 <= k)
      BY <1>3, <1>6, <2>1
    <3> QED
      BY <1>3, <3>1
  <2>2. CASE j \in 1 .. n
    <3>1. r[j] \in 1 .. n /\ p[j] = (IF r[j] <= k THEN r[j] ELSE r[j] + 1)
      BY <1>7, <2>2
    <3>2. velocity[j - 1] = q[r[j]]
      BY <1>2, <2>2
    <3>3. CASE r[j] <= k
      <4>1. r[j] \in 1 .. n + 1 /\ p[j] = r[j]
        BY <3>1, <3>3
      <4>2. t[r[j]] = q[r[j]]
        BY <1>3, <3>3, <4>1
      <4> QED
        BY <3>2, <4>1, <4>2
    <3>4. CASE ~(r[j] <= k)
      <4>1. /\ r[j] + 1 \in 1 .. n + 1 /\ p[j] = r[j] + 1 /\ (r[j] + 1) - 1 = r[j]
            /\ ~(r[j] + 1 <= k) /\ r[j] + 1 # k + 1
        BY <1>0, <3>1, <3>4
      <4>2. t[r[j] + 1] = q[(r[j] + 1) - 1]
        BY <1>1, <1>3, <4>1
      <4> QED
        BY <3>2, <4>1, <4>2
    <3> QED
      BY <3>3, <3>4
  <2> QED
    BY <1>8, <2>1, <2>2
<1> QED
  BY <1>3, <1>4, <1>12, <1>13 DEF Sorts, t

\* By induction on the rounds: the sort sorts all the slots that are filled.
LEMMA RoundsSort ==
  ASSUME NEW s, s.count \in Nat, \A i \in 0 .. s.count - 1 : s.velocity[i] \in Nat,
         NEW f, Rounds(f, s, s.count)
  PROVE  Sorts(f[s.count], s.velocity, s.count)
<1> DEFINE N == s.count
           T == {n \in Nat : n <= N => Sorts(f[n], s.velocity, n)}
<1>1. \A n \in 0 .. N : f[n] = IF n = 0 THEN << >> ELSE Insert(f[n - 1], s.velocity[n - 1])
  BY DEF Rounds
<1>2. 0 \in T
  <2>1. f[0] = << >>
    BY <1>1
  <2>2. << >> \in Seq(Nat) /\ Len(<< >>) = 0 /\ \A i \in 1 .. 0 : FALSE
    OBVIOUS
  <2>3. Ascends(<< >>)
    BY <2>2 DEF Ascends
  <2> DEFINE r == [i \in 1 .. 0 |-> i]
  <2>4. r \in Injection(1 .. 0, 1 .. 0)
    BY <2>2 DEF Injection, IsInjective
  <2>5. Sorts(<< >>, s.velocity, 0)
    BY <2>2, <2>3, <2>4 DEF Sorts
  <2> QED
    BY <2>1, <2>5
<1>3. ASSUME NEW n \in T
      PROVE  n + 1 \in T
  <2> SUFFICES ASSUME n + 1 <= N
               PROVE  Sorts(f[n + 1], s.velocity, n + 1)
    OBVIOUS
  <2>1. n \in Nat /\ n <= N /\ n \in 0 .. N - 1 /\ n + 1 \in 0 .. N /\ n + 1 # 0
        /\ (n + 1) - 1 = n
    OBVIOUS
  <2>2. Sorts(f[n], s.velocity, n) /\ s.velocity[n] \in Nat
    BY <2>1
  <2>3. f[n + 1] = Insert(f[n], s.velocity[n])
    BY <1>1, <2>1
  <2> QED
    BY <2>1, <2>2, <2>3, InsertSorts
<1> HIDE DEF T
<1>4. T = Nat
  BY <1>2, <1>3, SetOfAllNat DEF T
<1>5. N \in T
  BY <1>4
<1> QED
  BY <1>5 DEF T

\* The element behind half of a sorted sequence is the upper median of any
\* sequence whose elements it holds.
LEMMA Counted ==
  ASSUME NEW n \in Nat, n > 0, NEW q \in Seq(Nat), Len(q) = n, Ascends(q),
         NEW h \in Injection(1 .. n, 1 .. n), NEW w, \A j \in 1 .. n : w[j] = q[h[j]]
  PROVE  LET m == q[n \div 2 + 1]
         IN  /\ Cardinality({j \in 1 .. n : w[j] < m}) <= n \div 2
             /\ n \div 2 < Cardinality({j \in 1 .. n : w[j] <= m})
<1> DEFINE half == n \div 2
           m == q[half + 1]
           A == {j \in 1 .. n : w[j] < m}
           B == {j \in 1 .. n : w[j] <= m}
           C == {j \in 1 .. n : w[j] > m}
<1>1. half \in Nat /\ 2 * half <= n /\ n < 2 * half + 2
  BY DivBounds
<1> HIDE DEF half
<1>2. half + 1 \in 1 .. n
  BY <1>1
<1>3. \A i \in 1 .. n : q[i] \in Nat
  BY ElementOfSeq
<1>4. \A i, j \in 1 .. n : i <= j => q[i] <= q[j]
  BY DEF Ascends
<1>5. m \in Nat
  BY <1>2, <1>3
<1>6. /\ h \in [1 .. n -> 1 .. n]
      /\ \A a, b \in 1 .. n : h[a] = h[b] => a = b
  BY DEF Injection, IsInjective
<1>7. ASSUME NEW j \in A
      PROVE  h[j] \in 1 .. half
  <2>1. j \in 1 .. n /\ h[j] \in 1 .. n /\ w[j] = q[h[j]] /\ w[j] < m
    BY <1>6
  <2>2. ~(half + 1 <= h[j])
    BY <1>2, <1>3, <1>4, <2>1
  <2> QED
    BY <1>1, <2>1, <2>2
<1>8. ASSUME NEW j \in C
      PROVE  h[j] \in half + 2 .. n
  <2>1. j \in 1 .. n /\ h[j] \in 1 .. n /\ w[j] = q[h[j]] /\ w[j] > m
    BY <1>6
  <2>2. ~(h[j] <= half + 1)
    BY <1>2, <1>3, <1>4, <2>1
  <2> QED
    BY <1>1, <2>1, <2>2
<1>9. B = (1 .. n) \ C
  <2>1. \A j \in 1 .. n : w[j] \in Nat
    BY <1>3, <1>6
  <2> HIDE DEF m
  <2>2. \A j \in 1 .. n : w[j] <= m <=> ~(w[j] > m)
    BY <1>5, <2>1
  <2> QED
    BY <2>2
<1>10. A \subseteq 1 .. n /\ C \subseteq 1 .. n
  OBVIOUS
<1> HIDE DEF A, B, C, m
<1>11. Cardinality(A) <= half
  <2> DEFINE f == [j \in A |-> h[j]]
  <2>1. f \in Injection(A, 1 .. half)
    BY <1>6, <1>7, <1>10 DEF Injection, IsInjective
  <2>2. /\ IsFiniteSet(1 .. half)
        /\ Cardinality(1 .. half) = IF 1 > half THEN 0 ELSE (half - 1) + 1
    BY <1>1, 1 \in Int, half \in Int, FS_Interval
  <2>3. Cardinality(1 .. half) = half
    BY <1>1, <2>2
  <2> HIDE DEF f
  <2> QED
    BY <2>1, <2>2, <2>3, FS_Injection
<1>12. Cardinality(C) <= (n - half) - 1
  <2> DEFINE f == [j \in C |-> h[j]]
  <2>1. f \in Injection(C, half + 2 .. n)
    BY <1>6, <1>8, <1>10 DEF Injection, IsInjective
  <2>2. /\ IsFiniteSet(half + 2 .. n)
        /\ Cardinality(half + 2 .. n) = IF half + 2 > n THEN 0 ELSE (n - (half + 2)) + 1
    BY <1>1, half + 2 \in Int, n \in Int, FS_Interval
  <2>3. Cardinality(half + 2 .. n) = (n - half) - 1
    BY <1>1, <1>2, <2>2
  <2> HIDE DEF f
  <2> QED
    BY <2>1, <2>2, <2>3, FS_Injection
<1>13. half < Cardinality(B)
  <2>1. IsFiniteSet(1 .. n) /\ Cardinality(1 .. n) = n
    BY FS_Interval
  <2>2. IsFiniteSet(C) /\ Cardinality(C) \in Nat
    BY <1>10, <2>1, FS_Subset, FS_CardinalityType
  <2>3. (1 .. n) \cap C = C
    BY <1>10
  <2>4. Cardinality((1 .. n) \ C) = Cardinality(1 .. n) - Cardinality((1 .. n) \cap C)
    BY <2>1, FS_Difference
  <2>5. Cardinality(B) = n - Cardinality(C)
    BY <1>9, <2>1, <2>3, <2>4
  <2> QED
    BY <1>1, <1>12, <2>2, <2>5
<1> QED
  BY <1>11, <1>13 DEF A, B, m, half

\* A ring that is not full has been filled from its first slot.
Fills(block) == block.count < Samples => block.index = block.count

FillInv == Fills(stats) /\ (saved # NoStats => Fills(saved))

\* Every one of the latest samples is in a filled slot of its own.
LEMMA SlotsOfLatest ==
  ASSUME NEW block \in PetStatsType, NEW latest \in Seq(Responses),
         HoldsLatest(block, latest), Fills(block)
  PROVE  \E g \in Injection(1 .. Len(latest), 1 .. Len(latest)) :
           \A j \in 1 .. Len(latest) : latest[j] = block.velocity[g[j] - 1]
<1> DEFINE n == Len(latest)
           i == block.index
           g == [j \in 1 .. n |->
                   (IF (n + 1) - j <= i THEN i - ((n + 1) - j)
                                        ELSE (i + Samples) - ((n + 1) - j)) + 1]
<1>1. /\ Samples \in Nat \ {0} /\ n \in Nat /\ i \in 0 .. Samples - 1 /\ i \in Slots
      /\ n <= Samples /\ (n < Samples => i = n)
  BY PetAssumption DEF PetStatsType, Slots, HoldsLatest, Fills
<1>2. ASSUME NEW j \in 1 .. n
      PROVE  /\ (n + 1) - j \in 1 .. n /\ (n + 1) - j \in 1 .. Samples
             /\ (n + 1) - ((n + 1) - j) = j
  BY <1>1
<1>3. ASSUME NEW j \in 1 .. n
      PROVE  latest[j] = block.velocity[(i + 2 * Samples - ((n + 1) - j)) % Samples]
  <2> DEFINE k == (n + 1) - j
  <2>1. k \in 1 .. n /\ (n + 1) - k = j
    BY <1>2
  <2>2. block.velocity[(i + 2 * Samples - k) % Samples] = latest[n + 1 - k]
    BY <2>1 DEF HoldsLatest
  <2> QED
    BY <2>1, <2>2
<1>4. ASSUME NEW j \in 1 .. n
      PROVE  (i + 2 * Samples - ((n + 1) - j)) % Samples = g[j] - 1
  <2> DEFINE k == (n + 1) - j
  <2>1. k \in 1 .. Samples
    BY <1>2
  <2>2. (i + 2 * Samples - k) % Samples = IF k <= i THEN i - k ELSE i + Samples - k
    BY <1>1, <2>1, SlotBack
  <2>3. g[j] = (IF k <= i THEN i - k ELSE (i + Samples) - k) + 1
    OBVIOUS
  <2> HIDE DEF g, k
  <2>4. (i + 2 * Samples - k) % Samples = g[j] - 1
    BY <1>1, <2>1, <2>2, <2>3
  <2> QED
    BY <2>4 DEF k
<1>5. /\ DOMAIN g = 1 .. n /\ g = [j \in 1 .. n |-> g[j]]
      /\ \A j \in 1 .. n :
           g[j] = (IF (n + 1) - j <= i THEN i - ((n + 1) - j)
                                       ELSE (i + Samples) - ((n + 1) - j)) + 1
  OBVIOUS
<1> HIDE DEF g, n, i
<1>6. ASSUME NEW j \in 1 .. n
      PROVE  g[j] \in 1 .. n
  <2>1. g[j] = (IF (n + 1) - j <= i THEN i - ((n + 1) - j)
                                    ELSE (i + Samples) - ((n + 1) - j)) + 1
    BY <1>5
  <2> QED
    BY <1>1, <2>1
<1>7. \A a, b \in 1 .. n :
        (IF (n + 1) - a <= i THEN i - ((n + 1) - a) ELSE (i + Samples) - ((n + 1) - a)) + 1
          = (IF (n + 1) - b <= i THEN i - ((n + 1) - b)
                                 ELSE (i + Samples) - ((n + 1) - b)) + 1
        => a = b
  BY <1>1
<1>8. \A a, b \in 1 .. n : g[a] = g[b] => a = b
  BY <1>5, <1>7
<1>9. g \in Injection(1 .. n, 1 .. n)
  <2>1. g \in [1 .. n -> 1 .. n]
    BY <1>5, <1>6
  <2> QED
    BY <1>5, <1>8, <2>1 DEF Injection, IsInjective
<1>10. \A j \in 1 .. n : latest[j] = block.velocity[g[j] - 1]
  BY <1>3, <1>4
<1> QED
  BY <1>9, <1>10 DEF n

\* A ring is filled from its first slot on, that of a block on flash too.
LEMMA ApprovalFills ==
  ASSUME PetInv, Fills(stats), NEW seconds \in Responses, RecordApproval(seconds)
  PROVE  Fills(stats')
<1>1. /\ Samples \in Nat \ {0} /\ stats \in PetStatsType /\ stats.index \in Slots
      /\ stats.count \in 0 .. Samples
  BY PetAssumption DEF PetInv, LiveOK, PetStatsType
<1>2. /\ stats'.index = NextSlot(stats.index)
      /\ stats'.count = AtMost(stats.count + 1, Samples)
  BY <1>1 DEF RecordApproval, PetStatsType
<1>3. NextSlot(stats.index) = IF stats.index + 1 = Samples THEN 0 ELSE stats.index + 1
  BY <1>1, NextSlotIs
<1> QED
  BY <1>1, <1>2, <1>3 DEF Fills, AtMost

LEMMA LoadedFills ==
  ASSUME PetInv, FillInv
  PROVE  Fills(Loaded(saved))
<1>1. CASE saved = NoStats
  BY <1>1 DEF Loaded, FreshStats, Fills
<1>2. CASE saved # NoStats
  <2>1. saved \in PetStatsType
    BY <1>2 DEF PetInv, SavedOK
  <2>2. Loaded(saved).count = saved.count /\ Loaded(saved).index = saved.index
    BY <1>2, <2>1 DEF Loaded, PetStatsType
  <2> QED
    BY <1>2, <2>2 DEF FillInv, Fills
<1> QED
  BY <1>1, <1>2

LEMMA InitFills == PetInit => FillInv
<1> SUFFICES ASSUME PetInit
             PROVE  FillInv
  OBVIOUS
<1>1. saved # NoStats => saved \in PetStatsType /\ saved.count = 0 /\ saved.index = 0
  BY OldBlocksTyped DEF PetInit, OldBlocks, FreshStats
<1>2. stats.count = 0 /\ stats.index = 0
  BY <1>1 DEF PetInit, Loaded, FreshStats, PetStatsType
<1> QED
  BY <1>1, <1>2 DEF FillInv, Fills

LEMMA FillStep == PetInv /\ PetInv' /\ FillInv /\ [PetNext]_petVars => FillInv'
<1> SUFFICES ASSUME PetInv, PetInv', FillInv, [PetNext]_petVars
             PROVE  FillInv'
  OBVIOUS
<1>1. ASSUME Fills(stats'), SaveStats \/ NoSave
      PROVE  FillInv'
  BY <1>1 DEF FillInv, SaveStats, NoSave
<1>2. ASSUME stats'.count = stats.count, stats'.index = stats.index
      PROVE  Fills(stats')
  BY <1>2 DEF FillInv, Fills
<1>3. CASE DesktopSpends \/ DesktopRestarts
  BY <1>1, <1>2, <1>3 DEF DesktopSpends, DesktopRestarts
<1>4. CASE UpdateBridgeTokens
  <2>1. stats'.count = stats.count /\ stats'.index = stats.index
    BY <1>4 DEF UpdateBridgeTokens, PetInv, LiveOK, PetStatsType
  <2>2. SaveStats \/ NoSave
    BY <1>4 DEF UpdateBridgeTokens
  <2> QED
    BY <1>1, <1>2, <2>1, <2>2
<1>5. ASSUME NEW seconds \in Responses, RecordApproval(seconds)
      PROVE  FillInv'
  <2>1. SaveStats
    BY <1>5 DEF RecordApproval
  <2> QED
    BY <1>1, <1>5, <2>1, ApprovalFills DEF FillInv
<1>6. CASE RecordDenial
  <2>1. stats'.count = stats.count /\ stats'.index = stats.index
    BY <1>6 DEF RecordDenial, PetInv, LiveOK, PetStatsType
  <2> QED
    BY <1>1, <1>2, <1>6, <2>1 DEF RecordDenial
<1>7. CASE Restart
  BY <1>7, LoadedFills DEF Restart, FillInv
<1>8. CASE FactoryReset
  BY <1>8 DEF FactoryReset, FreshStats, FillInv, Fills
<1>9. CASE FactoryResetFails
  BY <1>9 DEF FactoryResetFails, FillInv
<1>10. CASE UNCHANGED petVars
  BY <1>10 DEF petVars, FillInv
<1> QED
  BY <1>3, <1>4, <1>5, <1>6, <1>7, <1>8, <1>9, <1>10 DEF PetNext

\* Every one of the latest samples has a place of its own in the sorted sequence.
LEMMA MedianOfRing ==
  ASSUME PetInv, RingInv, FillInv, recent # << >>
  PROVE  LET m == MedianVelocity(stats)
             half == Len(recent) \div 2
         IN  /\ Cardinality({j \in 1 .. Len(recent) : recent[j] < m}) <= half
             /\ half < Cardinality({j \in 1 .. Len(recent) : recent[j] <= m})
<1> DEFINE n == Len(recent)
<1>1. /\ stats \in PetStatsType /\ recent \in Seq(Responses)
      /\ HoldsLatest(stats, recent) /\ Fills(stats)
  BY DEF PetInv, LiveOK, RingInv, FillInv
<1>2. n \in Nat /\ n > 0 /\ stats.count = n
  BY <1>1, EmptySeq DEF HoldsLatest
<1>3. \A i \in 0 .. stats.count - 1 : stats.velocity[i] \in Nat
  <2>1. /\ stats.velocity \in [Slots -> Responses] /\ Responses \subseteq Nat
        /\ Samples \in Nat /\ stats.count \in 0 .. Samples
    BY <1>1, PetAssumption DEF PetStatsType
  <2>2. \A i \in 0 .. stats.count - 1 : i \in Slots
    BY <2>1 DEF Slots
  <2> QED
    BY <2>1, <2>2
<1>4. PICK f : Rounds(f, stats, stats.count) /\ SortedVelocity(stats) = f[stats.count]
  BY <1>2, SortedIsOfRounds
<1> DEFINE q == f[stats.count]
<1>5. Sorts(q, stats.velocity, n)
  BY <1>2, <1>3, <1>4, RoundsSort
<1> HIDE DEF q, n
<1>6. q \in Seq(Nat) /\ Len(q) = n /\ Ascends(q)
  BY <1>5 DEF Sorts
<1>7. PICK r \in Injection(1 .. n, 1 .. n) : \A j \in 1 .. n : stats.velocity[j - 1] = q[r[j]]
  BY <1>5 DEF Sorts
<1>8. PICK g \in Injection(1 .. n, 1 .. n) :
        \A j \in 1 .. n : recent[j] = stats.velocity[g[j] - 1]
  BY <1>1, SlotsOfLatest DEF n
<1> DEFINE h == [j \in 1 .. n |-> r[g[j]]]
<1>9. h \in Injection(1 .. n, 1 .. n)
  <2>1. /\ r \in [1 .. n -> 1 .. n] /\ g \in [1 .. n -> 1 .. n]
        /\ \A a, b \in 1 .. n : r[a] = r[b] => a = b
        /\ \A a, b \in 1 .. n : g[a] = g[b] => a = b
    BY <1>7, <1>8 DEF Injection, IsInjective
  <2>2. h \in [1 .. n -> 1 .. n] /\ \A a \in 1 .. n : h[a] = r[g[a]]
    BY <2>1
  <2>3. \A a, b \in 1 .. n : h[a] = h[b] => a = b
    BY <2>1, <2>2
  <2> QED
    BY <2>2, <2>3 DEF Injection, IsInjective
<1>10. \A j \in 1 .. n : recent[j] = q[h[j]]
  <2>1. \A j \in 1 .. n : g[j] \in 1 .. n
    BY <1>8 DEF Injection
  <2> QED
    BY <1>7, <1>8, <2>1
<1> HIDE DEF h
<1>11. MedianVelocity(stats) = q[n \div 2 + 1]
  BY <1>2, <1>4 DEF MedianVelocity, q
<1>12. /\ Cardinality({j \in 1 .. n : recent[j] < q[n \div 2 + 1]}) <= n \div 2
       /\ n \div 2 < Cardinality({j \in 1 .. n : recent[j] <= q[n \div 2 + 1]})
  BY <1>2, <1>6, <1>9, <1>10, Counted
<1> QED
  BY <1>11, <1>12 DEF n

\* The median shown is the upper median of the latest response times, for a ring
\* of any size and any response times.
THEOREM MedianIsUpperMedianHolds == PetSpec => []MedianIsUpperMedian
<1>1. PetInv /\ RingInv /\ FillInv => MedianIsUpperMedian
  BY MedianOfRing DEF MedianIsUpperMedian, Where
<1> QED
  BY <1>1, InitRing, InitFills, RingStep, FillStep, PetInvHolds, PTL DEF PetSpec

-----------------------------------------------------------------------------
(* The mood.                                                                 *)

\* No block on flash has more denials than the pet has now, so none that is loaded
\* brings more.
NoMoreSaved == saved # NoStats => saved.denials <= stats.denials

LEMMA MoodOfPenalty ==
  ASSUME NEW s \in PetStatsType, NEW t \in PetStatsType,
         t.count = s.count, t.velocity = s.velocity, Penalty(s) <= Penalty(t)
  PROVE  MoodTier(t) <= MoodTier(s)
<1>1. MedianVelocity(t) = MedianVelocity(s)
  BY DEF MedianVelocity, SortedVelocity
<1>2. MoodOfVelocity(MedianVelocity(s)) \in Nat
  BY DEF MoodOfVelocity
<1>3. Penalty(s) \in Nat /\ Penalty(t) \in Nat
  BY DEF Penalty
<1> QED
  BY <1>1, <1>2, <1>3 DEF MoodTier

LEMMA DenialPenalty ==
  ASSUME PetInv, RecordDenial
  PROVE  Penalty(stats) <= Penalty(stats')
<1>1. /\ stats \in PetStatsType
      /\ stats.approvals \in Nat /\ stats.denials \in Nat
  BY PetAssumption DEF PetInv, LiveOK, PetStatsType
<1>2. /\ stats'.approvals = stats.approvals
      /\ stats'.denials = AtMost(stats.denials + 1, CountLimit)
  BY <1>1 DEF RecordDenial, PetStatsType
<1>3. stats'.denials \in Nat /\ stats.denials <= stats'.denials
  <2>1. stats.denials <= CountLimit /\ CountLimit \in Nat
    BY <1>1, PetAssumption DEF PetStatsType
  <2> QED
    BY <1>1, <1>2, <2>1 DEF AtMost
<1> QED
  BY <1>1, <1>2, <1>3 DEF Penalty

LEMMA DenialsStep ==
  ASSUME PetInv, PetInv', NoMoreSaved, [PetNext]_petVars
  PROVE  /\ NoMoreSaved'
         /\ stats'.denials > stats.denials => RecordDenial
<1>0. /\ stats \in PetStatsType /\ stats.denials \in Nat
      /\ stats' \in PetStatsType /\ stats'.denials \in Nat
      /\ saved # NoStats => saved \in PetStatsType /\ saved.denials \in Nat
  <2>1. /\ stats \in PetStatsType /\ stats' \in PetStatsType
        /\ saved # NoStats => saved \in PetStatsType
    BY DEF PetInv, LiveOK, SavedOK
  <2>2. \A s \in PetStatsType : s.denials \in Nat
    BY PetAssumption DEF PetStatsType
  <2> QED
    BY <2>1, <2>2
<1>1. ASSUME stats'.denials = stats.denials, SaveStats \/ UNCHANGED saved
      PROVE  NoMoreSaved' /\ ~(stats'.denials > stats.denials)
  BY <1>0, <1>1 DEF SaveStats, NoMoreSaved
<1>2. CASE DesktopSpends \/ DesktopRestarts \/ UNCHANGED petVars
  BY <1>1, <1>2 DEF DesktopSpends, DesktopRestarts, petVars, NoSave
<1>3. CASE UpdateBridgeTokens
  <2>1. stats'.denials = stats.denials
    BY <1>0, <1>3 DEF UpdateBridgeTokens, PetStatsType
  <2> QED
    BY <1>1, <1>3, <2>1 DEF UpdateBridgeTokens, NoSave
<1>4. ASSUME NEW seconds \in Responses, RecordApproval(seconds)
      PROVE  NoMoreSaved' /\ ~(stats'.denials > stats.denials)
  <2>1. stats'.denials = stats.denials
    BY <1>0, <1>4 DEF RecordApproval, PetStatsType
  <2> QED
    BY <1>1, <1>4, <2>1 DEF RecordApproval
<1>5. CASE RecordDenial
  <2>1. stats.denials <= stats'.denials
    <3>1. stats'.denials = AtMost(stats.denials + 1, CountLimit)
      BY <1>0, <1>5 DEF RecordDenial, PetStatsType
    <3>2. stats.denials <= CountLimit /\ CountLimit \in Nat
      BY <1>0, PetAssumption DEF PetStatsType
    <3> QED
      BY <1>0, <3>1, <3>2 DEF AtMost
  <2>2. saved' = stats' \/ saved' = saved
    BY <1>5 DEF RecordDenial, SaveStats
  <2>3. NoMoreSaved'
    BY <1>0, <2>1, <2>2 DEF NoMoreSaved
  <2> QED
    BY <1>5, <2>3
<1>6. CASE Restart
  <2>1. stats' = Loaded(saved) /\ saved' = saved
    BY <1>6 DEF Restart
  <2>2. CASE saved = NoStats
    BY <1>0, <2>1, <2>2 DEF Loaded, FreshStats, NoMoreSaved
  <2>3. CASE saved # NoStats
    <3>1. stats'.denials = saved.denials
      BY <1>0, <2>1, <2>3 DEF Loaded, PetStatsType
    <3> QED
      BY <1>0, <2>1, <2>3, <3>1 DEF NoMoreSaved
  <2> QED
    BY <2>2, <2>3
<1>7. CASE FactoryReset
  BY <1>0, <1>7 DEF FactoryReset, FreshStats, NoMoreSaved
<1>8. CASE FactoryResetFails
  BY <1>0, <1>8 DEF FactoryResetFails, NoMoreSaved
<1> QED
  BY <1>2, <1>3, <1>4, <1>5, <1>6, <1>7, <1>8 DEF PetNext

\* Denying never makes the pet happier: not by what it takes from the mood, and not
\* by a block that a restart brings back.
THEOREM DenialNeverCheersHolds == PetSpec => DenialNeverCheers
<1>1. PetInit => NoMoreSaved
  <2> SUFFICES ASSUME PetInit, saved # NoStats
               PROVE  saved.denials <= stats.denials
    BY DEF NoMoreSaved
  <2>1. saved \in PetStatsType /\ saved.denials = 0
    BY OldBlocksTyped DEF PetInit, OldBlocks, FreshStats
  <2>2. stats.denials = 0
    BY <2>1 DEF PetInit, Loaded, PetStatsType
  <2> QED
    BY <2>1, <2>2
<1>2. PetInv /\ PetInv' /\ NoMoreSaved /\ [PetNext]_petVars => NoMoreSaved'
  BY DenialsStep
<1>3. PetInv /\ PetInv' /\ NoMoreSaved /\ [PetNext]_petVars
        => (stats'.denials > stats.denials /\ stats'.count >= stats.count
              => MoodTier(stats') <= MoodTier(stats))
  <2> SUFFICES ASSUME PetInv, PetInv', RecordDenial
               PROVE  MoodTier(stats') <= MoodTier(stats)
    BY DenialsStep
  <2>1. /\ stats \in PetStatsType /\ stats' \in PetStatsType
        /\ stats'.count = stats.count /\ stats'.velocity = stats.velocity
    BY DEF RecordDenial, PetInv, LiveOK, PetStatsType
  <2> QED
    BY <2>1, DenialPenalty, MoodOfPenalty
<1> QED
  BY <1>1, <1>2, <1>3, PetStep, PetInvHolds, PTL DEF PetSpec, DenialNeverCheers
=============================================================================
