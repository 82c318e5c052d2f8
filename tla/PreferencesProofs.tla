------------------------- MODULE PreferencesProofs --------------------------
(* Proofs about Preferences, for any number of changes and of failures.     *)
EXTENDS Preferences, TLAPS

(***************************************************************************)
(* Why SettledSurvives is not inductive: it says nothing of operations that  *)
(* are under way.  A store is unsettled while a thread works on it; a thread  *)
(* that is alone on its store holds the value of RAM in its copy, and a reset *)
(* that is alone finds flash as it has cleared it.                           *)
(***************************************************************************)
WorkedOnIsUnsettled == \A t \in Threads : Apart(t, settled)

LoneIsApart ==
  \A t \in Threads : \A u \in Threads \ {t} :
    ~Idle(t) /\ job[t].lone => Apart(u, Touches(t))

LoneCopyIsFresh ==
  \A t \in Threads :
    job[t].at = "write" /\ job[t].lone /\ StoreOf(job[t].key) # "identity"
      => job[t].copied = ram[job[t].key]

LoneResetHasCleared ==
  \A t \in Threads :
    job[t].at = "forget" /\ job[t].lone => \A k \in Keys : flash[k] = Absent

SettledInv == /\ WorkedOnIsUnsettled /\ LoneIsApart
              /\ LoneCopyIsFresh /\ LoneResetHasCleared

(***************************************************************************)
(* QuietResetForgets needs the copies that are under way too, and that       *)
(* changes are numbered in order.                                            *)
(***************************************************************************)
Holds(k, n) ==
  \/ n \in ram[k]
  \/ flash[k] # Absent /\ n \in flash[k]
  \/ \E t \in Threads : job[t].key = k /\ n \in job[t].copied

Numbered ==
  /\ forgotten <= next
  /\ \A t \in Threads : job[t].mark <= next

QuietHolds ==
  \A k \in Keys : StoreOf(k) \in quiet =>
    \A n \in Changes : Holds(k, n) => n >= forgotten

-----------------------------------------------------------------------------
(* Types.  A name that is copied or on flash is one change, too.            *)

ScalarsOK ==
  \A k \in Keys \ {"stats"} :
    /\ flash[k] \in {Absent} \cup OneChange
    /\ \A t \in Threads : job[t].key = k => job[t].copied \in OneChange

IdleHoldsNothing == \A t \in Threads : Idle(t) => job[t].copied = {}

TypeInv == PrefsTypeOK /\ ScalarsOK /\ IdleHoldsNothing

LEMMA Stored == \A k \in Keys : StoreOf(k) \in Stores
  BY DEF Keys, Stores, StoreOf

LEMMA NoJobTyped == NoJob \in Job /\ NoJob.at = "idle" /\ NoJob.copied = {}
                    /\ NoJob.mark = 1 /\ NoJob.key = "name"
  BY PrefsAssumption DEF NoJob, Job, Keys, Value

LEMMA OneIsValue == OneChange \subseteq Value /\ {} \in OneChange
                    /\ {} \in Value /\ \A n \in Changes : {n} \in OneChange
  BY DEF OneChange, Value

LEMMA AbsentIsNoValue == Absent \notin Value
  BY PrefsAssumption DEF Value

\* What a job is after a step.
Began(t, S, at, k) ==
  /\ job' \in [Threads -> Job]
  /\ \A u \in Threads \ {t} :
       /\ job'[u].at = job[u].at /\ job'[u].key = job[u].key
       /\ job'[u].copied = job[u].copied /\ job'[u].mark = job[u].mark
       /\ job'[u].lone => job[u].lone /\ Apart(u, S)
  /\ job'[t].at = at
  /\ job'[t].copied = {}
  /\ job'[t].mark <= next
  /\ at # "idle" => /\ job'[t].key = k
                    /\ job'[t].mark = next
                    /\ job'[t].lone => \A u \in Threads \ {t} : Apart(u, S)
  /\ settled' = settled \ S

LEMMA BeginsShape ==
  ASSUME TypeInv, NEW t \in Threads, NEW S \in SUBSET Stores,
         NEW at \in {"idle", "copy", "clear"}, NEW k \in Keys,
         Begins(t, S, at, k)
  PROVE  Began(t, S, at, k)
<1> DEFINE lone == \A v \in Threads \ {t} : Apart(v, S)
           Fresh == [at |-> at, key |-> k, copied |-> {}, mark |-> next, lone |-> lone]
           Kept(u) == [job[u] EXCEPT !.lone = @ /\ Apart(u, S)]
<1>1. lone \in BOOLEAN
  OBVIOUS
<1>2. /\ Fresh \in Job /\ Fresh.at = at /\ Fresh.key = k /\ Fresh.copied = {}
      /\ Fresh.mark = next /\ (Fresh.lone <=> lone)
  BY <1>1, OneIsValue, PrefsAssumption DEF TypeInv, PrefsTypeOK, Job
<1>3. ASSUME NEW u \in Threads
      PROVE  /\ Kept(u) \in Job
             /\ Kept(u).at = job[u].at /\ Kept(u).key = job[u].key
             /\ Kept(u).copied = job[u].copied /\ Kept(u).mark = job[u].mark
             /\ Kept(u).lone => job[u].lone /\ Apart(u, S)
  <2>1. job[u] \in Job
    BY DEF TypeInv, PrefsTypeOK
  <2>2. (job[u].lone /\ Apart(u, S)) \in BOOLEAN
    OBVIOUS
  <2> QED
    BY <2>1, <2>2 DEF Job
<1>4. job' = [u \in Threads |-> IF u # t THEN Kept(u)
                                ELSE IF at = "idle" THEN NoJob ELSE Fresh]
  BY DEF Begins
<1> HIDE DEF Fresh, Kept, lone
<1>5. \A u \in Threads \ {t} : job'[u] = Kept(u)
  BY <1>4
<1>6. job'[t] = IF at = "idle" THEN NoJob ELSE Fresh
  BY <1>4
<1>7. next \in Nat /\ 1 <= next
  BY PrefsAssumption DEF TypeInv, PrefsTypeOK
<1>8. job' \in [Threads -> Job]
  BY <1>2, <1>3, <1>4, NoJobTyped
<1>9. settled' = settled \ S
  BY DEF Begins
<1>10. CASE at = "idle"
  BY <1>3, <1>5, <1>6, <1>7, <1>8, <1>9, <1>10, NoJobTyped DEF Began
<1>11. CASE at # "idle"
  BY <1>2, <1>3, <1>5, <1>6, <1>7, <1>8, <1>9, <1>11 DEF lone, Began
<1> QED
  BY <1>10, <1>11

LEMMA ReturnsShape ==
  ASSUME TypeInv, NEW t \in Threads, Returns(t)
  PROVE  /\ job' \in [Threads -> Job]
         /\ \A u \in Threads \ {t} : job'[u] = job[u]
         /\ job'[t] = NoJob
  BY NoJobTyped DEF TypeInv, PrefsTypeOK, Returns

LEMMA GoesShape ==
  ASSUME TypeInv, NEW t \in Threads, Goes(t, "forget")
  PROVE  /\ job' \in [Threads -> Job]
         /\ \A u \in Threads \ {t} : job'[u] = job[u]
         /\ job'[t].at = "forget" /\ job'[t].key = job[t].key
         /\ job'[t].copied = job[t].copied /\ job'[t].mark = job[t].mark
         /\ (job'[t].lone <=> job[t].lone)
  BY DEF TypeInv, PrefsTypeOK, Goes, Job

LEMMA CopyShape ==
  ASSUME TypeInv, NEW t \in Threads, Copy(t)
  PROVE  /\ job' \in [Threads -> Job]
         /\ \A u \in Threads \ {t} : job'[u] = job[u]
         /\ job'[t].at = "write" /\ job'[t].key = job[t].key
         /\ job'[t].copied = ram[job[t].key] /\ job'[t].mark = job[t].mark
         /\ (job'[t].lone <=> job[t].lone)
  BY DEF TypeInv, PrefsTypeOK, Copy, Job

\* What flash can be after a step.
LEMMA WrittenTyped ==
  ASSUME TypeInv, NEW t \in Threads, NEW ks \in SUBSET KeysWritten(job[t].key)
  PROVE  /\ Written(t, ks) \in [Keys -> {Absent} \cup Value]
         /\ \A k \in Keys \ {"stats"} : Written(t, ks)[k] \in {Absent} \cup OneChange
<1>1. job[t] \in Job /\ ram \in [Keys -> Value] /\ flash \in [Keys -> {Absent} \cup Value]
  BY DEF TypeInv, PrefsTypeOK
<1>2. job[t].copied \in Value /\ job[t].key \in Keys
  BY <1>1 DEF Job
<1>3. ASSUME NEW k \in Keys, k \in ks, StoreOf(k) # "identity"
      PROVE  k = job[t].key
  BY <1>2, <1>3 DEF KeysWritten, StoreOf, Keys
<1>4. \A k \in Keys \ {"stats"} : ram[k] \in OneChange
  BY DEF TypeInv, PrefsTypeOK
<1> QED
  BY <1>1, <1>2, <1>3, <1>4 DEF Written, TypeInv, ScalarsOK

LEMMA RemovedTyped ==
  ASSUME TypeInv, NEW ks
  PROVE  /\ Removed(ks) \in [Keys -> {Absent} \cup Value]
         /\ \A k \in Keys \ {"stats"} : Removed(ks)[k] \in {Absent} \cup OneChange
  BY DEF Removed, TypeInv, PrefsTypeOK, ScalarsOK

LEMMA PartlyWrittenIsWritten ==
  ASSUME NEW t \in Threads, NEW f \in PartlyWritten(t)
  PROVE  \E ks \in SUBSET KeysWritten(job[t].key) : f = Written(t, ks)
  BY DEF PartlyWritten

LEMMA LoadedTyped ==
  ASSUME NEW f \in [Keys -> {Absent} \cup Value],
         \A k \in Keys \ {"stats"} : f[k] \in {Absent} \cup OneChange
  PROVE  /\ Loaded(f) \in [Keys -> Value]
         /\ \A k \in Keys \ {"stats"} : Loaded(f)[k] \in OneChange
  BY OneIsValue DEF Loaded

LEMMA ChangedTyped ==
  ASSUME TypeInv, NEW k \in Keys, NEW n \in Changes
  PROVE  /\ Changed(k, n) \in [Keys -> Value]
         /\ \A j \in Keys \ {"stats"} : Changed(k, n)[j] \in OneChange
         /\ \A j \in Keys \ {k} : Changed(k, n)[j] = ram[j]
         /\ Changed(k, n)[k] \subseteq ram[k] \cup {n}
<1>1. ram \in [Keys -> Value] /\ \A j \in Keys \ {"stats"} : ram[j] \in OneChange
  BY DEF TypeInv, PrefsTypeOK
<1>2. CASE k = "stats"
  <2>1. ram["stats"] \cup {n} \in Value
    BY <1>1, <1>2 DEF Value
  <2> QED
    BY <1>1, <1>2, <2>1 DEF Changed
<1>3. CASE k # "stats"
  BY <1>1, <1>3, OneIsValue DEF Changed
<1> QED
  BY <1>2, <1>3

-----------------------------------------------------------------------------
LEMMA InitTypeInv == PrefsInit => TypeInv
<1> SUFFICES ASSUME PrefsInit
             PROVE  TypeInv
  OBVIOUS
<1>1. PrefsTypeOK
  BY NoJobTyped, OneIsValue, PrefsAssumption DEF PrefsInit, PrefsTypeOK, Defaults
<1>2. ScalarsOK /\ IdleHoldsNothing
  BY NoJobTyped, OneIsValue DEF PrefsInit, ScalarsOK, IdleHoldsNothing
<1> QED
  BY <1>1, <1>2 DEF TypeInv

\* The parts that do not concern the jobs and the contents.
CountersOK ==
  /\ faults \in 0 .. MaxFaults
  /\ next \in 1 .. MaxChanges + 1
  /\ settled \in SUBSET Stores /\ quiet \in SUBSET Stores
  /\ forgotten \in 1 .. MaxChanges + 1

LEMMA CountersStep == TypeInv /\ [PrefsNext]_prefVars => CountersOK'
<1> SUFFICES ASSUME TypeInv, [PrefsNext]_prefVars
             PROVE  CountersOK'
  OBVIOUS
<1>1. CountersOK
  BY DEF TypeInv, PrefsTypeOK, CountersOK
<1>2. ASSUME NEW t \in Threads PROVE job[t].mark \in 1 .. MaxChanges + 1 /\ job[t].key \in Keys
  BY DEF TypeInv, PrefsTypeOK, Job
<1>3. ASSUME NEW t \in Threads, NEW k \in Keys, Change(t, k) PROVE CountersOK'
  BY <1>1, <1>3, PrefsAssumption DEF CountersOK, Change, Begins
<1>4. CASE ChangeUnsaved
  BY <1>1, <1>4, PrefsAssumption DEF CountersOK, ChangeUnsaved, Begins
<1>5. ASSUME NEW t \in Threads, Copy(t) \/ ResetBegins(t) PROVE CountersOK'
  BY <1>1, <1>5 DEF CountersOK, Copy, ResetBegins, Begins
<1>6. ASSUME NEW t \in Threads, Write(t) PROVE CountersOK'
  BY <1>1, <1>2, <1>6, Stored DEF CountersOK, Write, NoFault
<1>7. ASSUME NEW t \in Threads, WriteFails(t) \/ ClearFails(t) PROVE CountersOK'
  BY <1>1, <1>7, PrefsAssumption DEF CountersOK, WriteFails, ClearFails, Fault
<1>8. ASSUME NEW t \in Threads, Clear(t) PROVE CountersOK'
  BY <1>1, <1>8 DEF CountersOK, Clear, NoFault
<1>9. ASSUME NEW t \in Threads, Forget(t) PROVE CountersOK'
  <2>1. \A k \in KeysForgotten(t) : StoreOf(k) \in Stores
    BY Stored DEF KeysForgotten
  <2> QED
    BY <1>1, <1>2, <1>9, <2>1 DEF CountersOK, Forget
<1>10. CASE PowerLoss
  BY <1>1, <1>10 DEF CountersOK, PowerLoss
<1>11. CASE UNCHANGED prefVars
  BY <1>1, <1>11 DEF CountersOK, prefVars
<1>12. \A t \in Threads : MayChange(t) \subseteq Keys
  BY DEF MayChange, Keys
<1> QED
  BY <1>3, <1>4, <1>5, <1>6, <1>7, <1>8, <1>9, <1>10, <1>11, <1>12
     DEF PrefsNext, ThreadStep

\* The other parts of TypeInv.
ContentsOK ==
  /\ ram \in [Keys -> Value]
  /\ \A k \in Keys \ {"stats"} : ram[k] \in OneChange
  /\ flash \in [Keys -> {Absent} \cup Value]
  /\ \A k \in Keys \ {"stats"} : flash[k] \in {Absent} \cup OneChange
JobsOK ==
  /\ job \in [Threads -> Job]
  /\ \A t \in Threads, k \in Keys \ {"stats"} :
       job[t].key = k => job[t].copied \in OneChange
  /\ IdleHoldsNothing

LEMMA TypeParts == TypeInv <=> CountersOK /\ ContentsOK /\ JobsOK
  BY DEF TypeInv, PrefsTypeOK, ScalarsOK, CountersOK, ContentsOK, JobsOK

LEMMA TypePartsPrimed == CountersOK' /\ ContentsOK' /\ JobsOK' => TypeInv'
  BY DEF TypeInv, PrefsTypeOK, ScalarsOK, CountersOK, ContentsOK, JobsOK

LEMMA ReturnsJobsOK ==
  ASSUME TypeInv, NEW t \in Threads, Returns(t)
  PROVE  JobsOK'
<1>1. JobsOK
  BY TypeParts
<1>2. /\ job' \in [Threads -> Job]
      /\ \A u \in Threads \ {t} : job'[u] = job[u]
      /\ job'[t] = NoJob
  BY ReturnsShape
<1> QED
  BY <1>1, <1>2, NoJobTyped, OneIsValue DEF JobsOK, IdleHoldsNothing, Idle

LEMMA BeginsJobsOK ==
  ASSUME TypeInv, NEW t \in Threads, NEW S \in SUBSET Stores,
         NEW at \in {"idle", "copy", "clear"}, NEW k \in Keys,
         Begins(t, S, at, k)
  PROVE  JobsOK'
<1>1. JobsOK
  BY TypeParts
<1>2. Began(t, S, at, k)
  BY BeginsShape
<1>3. /\ job' \in [Threads -> Job]
      /\ job'[t].copied = {}
      /\ \A u \in Threads \ {t} :
           /\ job'[u].at = job[u].at /\ job'[u].key = job[u].key
           /\ job'[u].copied = job[u].copied
  BY <1>2 DEF Began
<1> QED
  BY <1>1, <1>3, OneIsValue DEF JobsOK, IdleHoldsNothing, Idle

LEMMA TypeStep == TypeInv /\ [PrefsNext]_prefVars => TypeInv'
<1> SUFFICES ASSUME TypeInv, [PrefsNext]_prefVars
             PROVE  TypeInv'
  OBVIOUS
<1>1. CountersOK'
  BY CountersStep
<1>2. ContentsOK /\ JobsOK /\ CountersOK
  BY TypeParts
<1>3. ASSUME NEW t \in Threads, NEW k \in Keys, Change(t, k)
      PROVE  ContentsOK' /\ JobsOK'
  <2>1. next \in Changes
    BY <1>2, <1>3, PrefsAssumption DEF Change, Changes, CountersOK
  <2>2. ContentsOK'
    BY <1>2, <1>3, <2>1, ChangedTyped DEF Change, ContentsOK
  <2>3. {StoreOf(k)} \in SUBSET Stores
    BY Stored
  <2>4. Begins(t, {StoreOf(k)}, "copy", k)
    BY <1>3 DEF Change
  <2>5. JobsOK'
    BY <2>3, <2>4, BeginsJobsOK
  <2> QED
    BY <2>2, <2>5
<1>4. ASSUME ChangeUnsaved
      PROVE  ContentsOK' /\ JobsOK'
  <2>1. next \in Changes
    BY <1>2, <1>4, PrefsAssumption DEF ChangeUnsaved, Changes, CountersOK
  <2>2. "stats" \in Keys /\ {"stats"} \in SUBSET Stores /\ Host \in Threads
    BY DEF Keys, Stores, Threads
  <2>3. ContentsOK'
    BY <1>2, <1>4, <2>1, <2>2, ChangedTyped DEF ChangeUnsaved, ContentsOK
  <2>4. JobsOK'
    BY <1>4, <2>2, BeginsJobsOK DEF ChangeUnsaved
  <2> QED
    BY <2>3, <2>4
<1>5. ASSUME NEW t \in Threads, Copy(t)
      PROVE  ContentsOK' /\ JobsOK'
  <2>1. ContentsOK'
    BY <1>2, <1>5 DEF ContentsOK, Copy
  <2>2. /\ job' \in [Threads -> Job]
        /\ \A u \in Threads \ {t} : job'[u] = job[u]
        /\ job'[t].at = "write" /\ job'[t].key = job[t].key
        /\ job'[t].copied = ram[job[t].key]
    BY <1>5, CopyShape
  <2>3. JobsOK'
    BY <1>2, <2>2 DEF JobsOK, ContentsOK, IdleHoldsNothing, Idle
  <2> QED
    BY <2>1, <2>3
<1>6. ASSUME NEW t \in Threads, Write(t) \/ WriteFails(t)
      PROVE  ContentsOK' /\ JobsOK'
  <2>1. Returns(t) /\ ram' = ram
    BY <1>6 DEF Write, WriteFails
  <2>2. PICK ks \in SUBSET KeysWritten(job[t].key) : flash' = Written(t, ks)
    BY <1>6, PartlyWrittenIsWritten DEF Write, WriteFails
  <2>3. ContentsOK'
    BY <1>2, <2>1, <2>2, WrittenTyped DEF ContentsOK
  <2> QED
    BY <2>1, <2>3, ReturnsJobsOK
<1>7. ASSUME NEW t \in Threads, ResetBegins(t)
      PROVE  ContentsOK' /\ JobsOK'
  <2>1. "name" \in Keys /\ Stores \in SUBSET Stores
    BY DEF Keys
  <2>2. JobsOK'
    BY <1>7, <2>1, BeginsJobsOK DEF ResetBegins
  <2>3. ContentsOK'
    BY <1>2, <1>7 DEF ContentsOK, ResetBegins
  <2> QED
    BY <2>2, <2>3
<1>8. ASSUME NEW t \in Threads, Clear(t)
      PROVE  ContentsOK' /\ JobsOK'
  <2>1. ContentsOK'
    BY <1>2, <1>8, RemovedTyped DEF ContentsOK, Clear
  <2>2. /\ job' \in [Threads -> Job]
        /\ \A u \in Threads \ {t} : job'[u] = job[u]
        /\ job'[t].at = "forget" /\ job'[t].key = job[t].key
        /\ job'[t].copied = job[t].copied
    BY <1>8, GoesShape DEF Clear
  <2>3. JobsOK'
    BY <1>2, <2>2 DEF JobsOK, IdleHoldsNothing, Idle
  <2> QED
    BY <2>1, <2>3
<1>9. ASSUME NEW t \in Threads, ClearFails(t)
      PROVE  ContentsOK' /\ JobsOK'
  <2>1. ContentsOK'
    BY <1>2, <1>9, RemovedTyped DEF ContentsOK, ClearFails
  <2> QED
    BY <1>9, <2>1, ReturnsJobsOK DEF ClearFails
<1>10. ASSUME NEW t \in Threads, Forget(t)
       PROVE  ContentsOK' /\ JobsOK'
  <2>1. ContentsOK'
    BY <1>2, <1>10, OneIsValue DEF ContentsOK, Forget
  <2> QED
    BY <1>10, <2>1, ReturnsJobsOK DEF Forget
<1>11. ASSUME PowerLoss
       PROVE  ContentsOK' /\ JobsOK'
  <2> DEFINE FlashOK == /\ flash' \in [Keys -> {Absent} \cup Value]
                        /\ \A k \in Keys \ {"stats"} :
                             flash'[k] \in {Absent} \cup OneChange
  <2>1. FlashOK
    <3>1. CASE UNCHANGED flash
      BY <1>2, <3>1 DEF ContentsOK
    <3>2. ASSUME NEW t \in Threads, flash' \in PartlyWritten(t)
          PROVE  FlashOK
      BY <3>2, PartlyWrittenIsWritten, WrittenTyped
    <3>3. ASSUME NEW ks, flash' = Removed(ks)
          PROVE  FlashOK
      BY <3>3, RemovedTyped
    <3> QED
      BY <1>11, <3>1, <3>2, <3>3 DEF PowerLoss
  <2>2. ContentsOK'
    BY <1>11, <2>1, LoadedTyped DEF PowerLoss, ContentsOK
  <2>3. JobsOK'
    BY <1>11, NoJobTyped, OneIsValue DEF PowerLoss, JobsOK, IdleHoldsNothing, Idle
  <2> QED
    BY <2>2, <2>3
<1>12. ASSUME UNCHANGED prefVars
       PROVE  ContentsOK' /\ JobsOK'
  BY <1>2, <1>12 DEF ContentsOK, JobsOK, IdleHoldsNothing, Idle, prefVars
<1>13. \A t \in Threads : MayChange(t) \subseteq Keys
  BY DEF MayChange, Keys
<1>14. ContentsOK' /\ JobsOK'
  BY <1>3, <1>4, <1>5, <1>6, <1>7, <1>8, <1>9, <1>10, <1>11, <1>12, <1>13
     DEF PrefsNext, ThreadStep
<1> QED
  BY <1>1, <1>14, TypePartsPrimed

\* Every value, copy and key on flash keeps its type, and only the statistics
\* ever contain more than one change.
THEOREM PrefsTypeCorrect == PrefsSpec => []PrefsTypeOK
<1>1. TypeInv => PrefsTypeOK
  BY DEF TypeInv
<1> QED
  BY <1>1, InitTypeInv, TypeStep, PTL DEF PrefsSpec

-----------------------------------------------------------------------------
(* What survives.                                                           *)

SurviveInv == TypeInv /\ SettledInv /\ SettledSurvives

LEMMA TouchesSomething ==
  ASSUME TypeInv, NEW t \in Threads
  PROVE  /\ Touches(t) \subseteq Stores
         /\ ~Idle(t) => Touches(t) # {}
<1>1. job[t].key \in Keys
  BY DEF TypeInv, PrefsTypeOK, Job
<1> QED
  BY <1>1, Stored DEF Touches, Stores

\* Nobody is alone beside a thread that resets.
LEMMA ResetIsNotBesideLone ==
  ASSUME TypeInv, LoneIsApart, NEW t \in Threads, Resetting(t),
         NEW u \in Threads \ {t}
  PROVE  /\ job[t].lone => Idle(u)
         /\ job[u].lone => Idle(u)
<1>1. ~Idle(t) /\ Touches(t) = Stores
  BY DEF Resetting, Idle, Touches
<1>2. Touches(u) \subseteq Stores /\ (~Idle(u) => Touches(u) # {})
  BY TouchesSomething
<1> QED
  BY <1>1, <1>2 DEF LoneIsApart, Apart

LEMMA BeginsKeepsSettled ==
  ASSUME SurviveInv, NEW t \in Threads, Idle(t), NEW S \in SUBSET Stores,
         NEW at \in {"idle", "copy", "clear"}, NEW k \in Keys,
         Began(t, S, at, k),
         at = "copy" => S = {StoreOf(k)},
         at = "clear" => S = Stores,
         flash' = flash,
         \A j \in Keys : StoreOf(j) \notin S => ram'[j] = ram[j]
  PROVE  SettledInv' /\ SettledSurvives'
<1>1. ASSUME NEW u \in Threads \ {t}
      PROVE  /\ job'[u].at = job[u].at /\ job'[u].key = job[u].key
             /\ job'[u].copied = job[u].copied
             /\ job'[u].lone => job[u].lone /\ Apart(u, S)
             /\ Touches(u)' = Touches(u) /\ Idle(u)' = Idle(u)
  BY DEF Began, Touches, Idle, Resetting
<1>2. Touches(t)' \subseteq S
  BY DEF Began, Touches, Idle, Resetting
<1>3. settled' = settled \ S
  BY DEF Began
<1>4. WorkedOnIsUnsettled'
  <2>1. ASSUME NEW u \in Threads PROVE Apart(u, settled)'
    BY <1>1, <1>2, <1>3, <2>1 DEF SurviveInv, SettledInv, WorkedOnIsUnsettled, Apart
  <2> QED
    BY <2>1 DEF WorkedOnIsUnsettled
<1>5. LoneIsApart'
  <2>1. ASSUME NEW u \in Threads, NEW v \in Threads \ {u},
               ~Idle(u)', job'[u].lone
        PROVE  Touches(v)' \cap Touches(u)' = {}
    <3>1. CASE u = t
      <4>1. at # "idle"
        BY <2>1, <3>1 DEF Began, Idle
      <4>2. Apart(v, S)
        BY <2>1, <3>1, <4>1 DEF Began
      <4> QED
        BY <1>1, <1>2, <3>1, <4>2 DEF Apart
    <3>2. CASE v = t
      BY <1>1, <1>2, <2>1, <3>2 DEF Apart
    <3>3. CASE u # t /\ v # t
      BY <1>1, <2>1, <3>3 DEF SurviveInv, SettledInv, LoneIsApart, Apart
    <3> QED
      BY <3>1, <3>2, <3>3
  <2> QED
    BY <2>1 DEF LoneIsApart, Apart
<1>6. LoneCopyIsFresh'
  <2>1. ASSUME NEW u \in Threads, job'[u].at = "write", job'[u].lone,
               StoreOf(job'[u].key) # "identity"
        PROVE  job'[u].copied = ram'[job'[u].key]
    <3>1. u # t
      BY <2>1 DEF Began
    <3>2. Touches(u) = {StoreOf(job[u].key)} /\ job[u].key \in Keys
      BY <1>1, <2>1, <3>1 DEF Touches, Idle, Resetting, SurviveInv, TypeInv, PrefsTypeOK, Job
    <3> QED
      BY <1>1, <2>1, <3>1, <3>2 DEF SurviveInv, SettledInv, LoneCopyIsFresh, Apart
  <2> QED
    BY <2>1 DEF LoneCopyIsFresh
<1>7. LoneResetHasCleared'
  <2>1. job'[t].at # "forget"
    BY DEF Began
  <2> QED
    BY <1>1, <2>1 DEF SurviveInv, SettledInv, LoneResetHasCleared
<1>8. SettledSurvives'
  BY <1>3 DEF SurviveInv, SettledSurvives
<1> QED
  BY <1>4, <1>5, <1>6, <1>7, <1>8 DEF SettledInv

\* A step leaves alone what the job of thread u relies on.
Spared(u) ==
  \A k \in Keys :
    /\ StoreOf(k) \in Touches(u) => ram'[k] = ram[k]
    /\ job[u].at = "forget" => flash'[k] = flash[k]

\* A step that ends the job of a thread and spares the others.
LEMMA ReturnsKeepsSettled ==
  ASSUME SurviveInv, NEW t \in Threads, ~Idle(t), Returns(t),
         settled' \subseteq settled \cup (IF job[t].lone THEN Touches(t) ELSE {}),
         \A u \in Threads \ {t} : job[u].lone /\ ~Idle(u) => Spared(u)
  PROVE  SettledInv'
<1>1. /\ job' \in [Threads -> Job]
      /\ \A u \in Threads \ {t} : job'[u] = job[u]
      /\ job'[t] = NoJob
  BY ReturnsShape DEF SurviveInv
<1>2. ASSUME NEW u \in Threads \ {t}
      PROVE  Touches(u)' = Touches(u) /\ Idle(u)' = Idle(u)
  BY <1>1 DEF Touches, Idle, Resetting
<1>3. Touches(t)' = {} /\ Idle(t)'
  BY <1>1, NoJobTyped DEF Touches, Idle
<1>4. WorkedOnIsUnsettled'
  <2>1. ASSUME NEW u \in Threads \ {t} PROVE Touches(u) \cap settled' = {}
    BY DEF SurviveInv, SettledInv, WorkedOnIsUnsettled, LoneIsApart, Apart
  <2> QED
    BY <1>2, <1>3, <2>1 DEF WorkedOnIsUnsettled, Apart
<1>5. LoneIsApart'
  BY <1>1, <1>2, <1>3 DEF SurviveInv, SettledInv, LoneIsApart, Apart
<1>6. LoneCopyIsFresh'
  <2>1. ASSUME NEW u \in Threads, job'[u].at = "write", job'[u].lone,
               StoreOf(job'[u].key) # "identity"
        PROVE  job'[u].copied = ram'[job'[u].key]
    <3>1. u # t
      BY <1>1, <2>1, NoJobTyped
    <3>2. Touches(u) = {StoreOf(job[u].key)} /\ job[u].key \in Keys /\ ~Idle(u)
      BY <1>1, <2>1, <3>1 DEF Touches, Idle, Resetting, SurviveInv, TypeInv, PrefsTypeOK, Job
    <3>3. job[u].lone /\ job'[u] = job[u]
      BY <1>1, <2>1, <3>1
    <3>4. ram'[job[u].key] = ram[job[u].key]
      BY <2>1, <3>1, <3>2, <3>3 DEF Spared
    <3> QED
      BY <2>1, <3>3, <3>4 DEF SurviveInv, SettledInv, LoneCopyIsFresh
  <2> QED
    BY <2>1 DEF LoneCopyIsFresh
<1>7. LoneResetHasCleared'
  <2>1. ASSUME NEW u \in Threads, job'[u].at = "forget", job'[u].lone, NEW k \in Keys
        PROVE  flash'[k] = Absent
    <3>1. u # t
      BY <1>1, <2>1, NoJobTyped
    <3>2. job[u].lone /\ job[u].at = "forget"
      BY <1>1, <2>1, <3>1
    <3>3. flash'[k] = flash[k]
      <4>1. Spared(u)
        BY <2>1, <3>1, <3>2 DEF Idle
      <4> QED
        BY <2>1, <3>2, <4>1 DEF Spared
    <3> QED
      BY <3>2, <3>3 DEF SurviveInv, SettledInv, LoneResetHasCleared
  <2> QED
    BY <2>1 DEF LoneResetHasCleared
<1> QED
  BY <1>4, <1>5, <1>6, <1>7 DEF SettledInv

LEMMA InitSurvive == PrefsInit => SettledInv /\ SettledSurvives
<1> SUFFICES ASSUME PrefsInit
             PROVE  SettledInv /\ SettledSurvives
  OBVIOUS
<1>1. \A t \in Threads : Idle(t) /\ Touches(t) = {} /\ job[t].at = "idle"
  BY NoJobTyped DEF PrefsInit, Idle, Touches
<1>2. SettledInv
  BY <1>1 DEF SettledInv, WorkedOnIsUnsettled, LoneIsApart, LoneCopyIsFresh,
              LoneResetHasCleared, Apart
<1>3. SettledSurvives
  BY DEF PrefsInit, SettledSurvives, Defaults
<1> QED
  BY <1>2, <1>3

LEMMA WriteKeepsSettled ==
  ASSUME SurviveInv, NEW t \in Threads, Write(t) \/ WriteFails(t)
  PROVE  SettledInv' /\ SettledSurvives'
<1>1. /\ ~Idle(t) /\ ~Resetting(t) /\ Returns(t) /\ ram' = ram
      /\ settled' \subseteq settled \cup (IF job[t].lone THEN {StoreOf(job[t].key)} ELSE {})
  BY DEF Write, WriteFails, Idle, Resetting
<1>2. Touches(t) = {StoreOf(job[t].key)}
  BY <1>1 DEF Touches
<1>3. job[t].key \in Keys /\ ram \in [Keys -> Value]
  BY DEF SurviveInv, TypeInv, PrefsTypeOK, Job
<1>4. \A k \in Keys : StoreOf(k) # StoreOf(job[t].key) => flash'[k] = flash[k]
  <2>1. PICK ks \in SUBSET KeysWritten(job[t].key) : flash' = Written(t, ks)
    BY PartlyWrittenIsWritten DEF Write, WriteFails
  <2> QED
    BY <1>3, <2>1 DEF Written, KeysWritten, StoreOf
<1>5. ASSUME NEW u \in Threads \ {t}, job[u].lone, ~Idle(u)
      PROVE  Spared(u)
  <2>1. job[u].at # "forget"
    BY <1>1, <1>5, ResetIsNotBesideLone DEF SurviveInv, SettledInv, Resetting
  <2> QED
    BY <1>1, <2>1 DEF Spared
<1>6. SettledInv'
  BY <1>1, <1>2, <1>5, ReturnsKeepsSettled
<1>7. StoreOf(job[t].key) \notin settled
  BY <1>2 DEF SurviveInv, SettledInv, WorkedOnIsUnsettled, Apart
<1>8. CASE Write(t) /\ job[t].lone
  <2>1. \A k \in Keys : StoreOf(k) = StoreOf(job[t].key) => flash'[k] = ram[k]
    <3>1. flash' = Written(t, KeysWritten(job[t].key)) /\ job[t].at = "write"
      BY <1>8 DEF Write
    <3>2. CASE StoreOf(job[t].key) = "identity"
      BY <1>3, <3>1, <3>2 DEF Written, KeysWritten, StoreOf, Keys
    <3>3. CASE StoreOf(job[t].key) # "identity"
      <4>1. job[t].copied = ram[job[t].key]
        BY <1>8, <3>1, <3>3 DEF SurviveInv, SettledInv, LoneCopyIsFresh
      <4> QED
        BY <1>3, <3>1, <3>3, <4>1 DEF Written, KeysWritten, StoreOf
    <3> QED
      BY <3>2, <3>3
  <2>2. \A k \in Keys : ram[k] # Absent
    BY <1>3, AbsentIsNoValue
  <2>3. ASSUME NEW k \in Keys, StoreOf(k) \in settled'
        PROVE  ram'[k] = IF \E j \in Keys : StoreOf(j) = StoreOf(k) /\ flash'[j] = Absent
                           THEN {} ELSE flash'[k]
    <3>1. CASE StoreOf(k) = StoreOf(job[t].key)
      BY <1>1, <2>1, <2>2, <3>1
    <3>2. CASE StoreOf(k) # StoreOf(job[t].key)
      BY <1>1, <1>4, <2>3, <3>2 DEF SurviveInv, SettledSurvives
    <3> QED
      BY <3>1, <3>2
  <2> QED
    BY <1>6, <2>3 DEF SettledSurvives
<1>9. CASE WriteFails(t) \/ ~job[t].lone
  <2>1. settled' \subseteq settled
    BY <1>9 DEF Write, WriteFails
  <2> QED
    BY <1>1, <1>4, <1>6, <1>7, <2>1 DEF SurviveInv, SettledSurvives
<1> QED
  BY <1>8, <1>9

\* While a thread resets, nothing is settled.
LEMMA ResetUnsettles ==
  ASSUME SurviveInv, NEW t \in Threads, Resetting(t)
  PROVE  settled = {} /\ ~Idle(t) /\ Touches(t) = Stores
<1>1. ~Idle(t) /\ Touches(t) = Stores
  BY DEF Resetting, Idle, Touches
<1> QED
  BY <1>1 DEF SurviveInv, TypeInv, PrefsTypeOK, SettledInv, WorkedOnIsUnsettled, Apart

LEMMA ClearKeepsSettled ==
  ASSUME SurviveInv, NEW t \in Threads, Clear(t)
  PROVE  SettledInv' /\ SettledSurvives'
<1>1. Resetting(t) /\ settled' = settled /\ ram' = ram /\ Goes(t, "forget")
  BY DEF Clear, Resetting
<1>2. settled = {} /\ ~Idle(t) /\ Touches(t) = Stores
  BY <1>1, ResetUnsettles
<1>3. /\ \A u \in Threads \ {t} : job'[u] = job[u]
      /\ job'[t].at = "forget"
      /\ (job'[t].lone <=> job[t].lone)
  BY <1>1, GoesShape DEF SurviveInv
<1>4. \A u \in Threads : Touches(u)' = Touches(u) /\ Idle(u)' = Idle(u)
                          /\ (job'[u].lone <=> job[u].lone)
  BY <1>1, <1>2, <1>3 DEF Touches, Idle, Resetting
<1>5. WorkedOnIsUnsettled'
  BY <1>1, <1>2 DEF WorkedOnIsUnsettled, Apart
<1>6. LoneIsApart'
  BY <1>4 DEF SurviveInv, SettledInv, LoneIsApart, Apart
<1>7. \A u \in Threads \ {t} : job[u].lone => Idle(u)
  BY <1>1, ResetIsNotBesideLone DEF SurviveInv, SettledInv
<1>8. LoneCopyIsFresh'
  BY <1>3, <1>7 DEF LoneCopyIsFresh, Idle
<1>9. LoneResetHasCleared'
  <2>1. \A k \in Keys : flash'[k] = Absent
    BY DEF Clear, Removed, KeysCleared
  <2> QED
    BY <2>1 DEF LoneResetHasCleared
<1>10. SettledSurvives'
  BY <1>1, <1>2 DEF SettledSurvives
<1> QED
  BY <1>5, <1>6, <1>8, <1>9, <1>10 DEF SettledInv

LEMMA ClearFailsKeepsSettled ==
  ASSUME SurviveInv, NEW t \in Threads, ClearFails(t)
  PROVE  SettledInv' /\ SettledSurvives'
<1>1. Resetting(t) /\ settled' = settled /\ Returns(t)
  BY DEF ClearFails, Resetting
<1>2. settled = {} /\ ~Idle(t)
  BY <1>1, ResetUnsettles
<1>3. \A u \in Threads \ {t} : job[u].lone => Idle(u)
  BY <1>1, ResetIsNotBesideLone DEF SurviveInv, SettledInv
<1>4. SettledInv'
  BY <1>1, <1>2, <1>3, ReturnsKeepsSettled
<1> QED
  BY <1>1, <1>2, <1>4 DEF SettledSurvives

LEMMA ForgottenStores ==
  ASSUME NEW t \in Threads, NEW k \in Keys
  PROVE  StoreOf(k) \in {StoreOf(j) : j \in KeysForgotten(t)} => k \in KeysForgotten(t)
  BY DEF KeysForgotten, StoreOf, Keys

LEMMA ForgetKeepsSettled ==
  ASSUME SurviveInv, NEW t \in Threads, Forget(t)
  PROVE  SettledInv' /\ SettledSurvives'
<1> DEFINE gone == {StoreOf(k) : k \in KeysForgotten(t)}
<1>1. /\ Resetting(t) /\ Returns(t) /\ flash' = flash
      /\ ram' = [k \in Keys |-> IF k \in KeysForgotten(t) THEN {} ELSE ram[k]]
      /\ settled' = IF job[t].lone THEN settled \cup gone ELSE settled
  BY DEF Forget, Resetting
<1>2. settled = {} /\ ~Idle(t) /\ Touches(t) = Stores
  BY <1>1, ResetUnsettles
<1>3. \A u \in Threads \ {t} : job[u].lone => Idle(u)
  BY <1>1, ResetIsNotBesideLone DEF SurviveInv, SettledInv
<1>4. gone \subseteq Stores
  BY Stored DEF KeysForgotten
<1>5. \A k \in Keys : StoreOf(k) \in gone => k \in KeysForgotten(t)
  BY ForgottenStores
<1> HIDE DEF gone
<1>6. SettledInv'
  BY <1>1, <1>2, <1>3, <1>4, ReturnsKeepsSettled
<1>7. CASE job[t].lone
  <2>1. \A k \in Keys : flash[k] = Absent
    BY <1>7 DEF Forget, SurviveInv, SettledInv, LoneResetHasCleared
  <2> QED
    BY <1>1, <1>2, <1>5, <1>6, <1>7, <2>1 DEF SettledSurvives
<1>8. CASE ~job[t].lone
  BY <1>1, <1>2, <1>6, <1>8 DEF SettledSurvives
<1> QED
  BY <1>7, <1>8

LEMMA SurviveStep == SurviveInv /\ [PrefsNext]_prefVars => SettledInv' /\ SettledSurvives'
<1> SUFFICES ASSUME SurviveInv, [PrefsNext]_prefVars
             PROVE  SettledInv' /\ SettledSurvives'
  OBVIOUS
<1>1. ASSUME NEW t \in Threads, NEW k \in Keys, Change(t, k)
      PROVE  SettledInv' /\ SettledSurvives'
  <2>1. Idle(t) /\ Begins(t, {StoreOf(k)}, "copy", k) /\ flash' = flash
    BY <1>1 DEF Change
  <2>2. {StoreOf(k)} \in SUBSET Stores
    BY Stored
  <2>3. Began(t, {StoreOf(k)}, "copy", k)
    BY <2>1, <2>2, BeginsShape DEF SurviveInv
  <2>4. ASSUME NEW j \in Keys, StoreOf(j) \notin {StoreOf(k)}
        PROVE  ram'[j] = ram[j]
    BY <1>1, <2>4 DEF Change, Changed, SurviveInv, TypeInv, PrefsTypeOK
  <2> QED
    BY <2>1, <2>2, <2>3, <2>4, BeginsKeepsSettled
<1>2. ASSUME ChangeUnsaved
      PROVE  SettledInv' /\ SettledSurvives'
  <2>1. Idle(Host) /\ Begins(Host, {"stats"}, "idle", "stats") /\ flash' = flash
    BY <1>2 DEF ChangeUnsaved
  <2>2. {"stats"} \in SUBSET Stores /\ "stats" \in Keys /\ Host \in Threads
    BY DEF Stores, Keys, Threads
  <2>3. Began(Host, {"stats"}, "idle", "stats")
    BY <2>1, <2>2, BeginsShape DEF SurviveInv
  <2>4. ASSUME NEW j \in Keys, StoreOf(j) \notin {"stats"}
        PROVE  ram'[j] = ram[j]
    BY <1>2, <2>4 DEF ChangeUnsaved, Changed, StoreOf, SurviveInv, TypeInv, PrefsTypeOK
  <2> QED
    BY <2>1, <2>2, <2>3, <2>4, BeginsKeepsSettled
<1>3. ASSUME NEW t \in Threads, Copy(t)
      PROVE  SettledInv' /\ SettledSurvives'
  <2>1. /\ \A u \in Threads \ {t} : job'[u] = job[u]
        /\ job'[t].at = "write" /\ job'[t].key = job[t].key
        /\ job'[t].copied = ram[job[t].key]
        /\ (job'[t].lone <=> job[t].lone)
    BY <1>3, CopyShape DEF SurviveInv
  <2>2. job[t].at = "copy" /\ UNCHANGED <<ram, flash, settled>>
    BY <1>3 DEF Copy
  <2>3. \A u \in Threads : Touches(u)' = Touches(u) /\ Idle(u)' = Idle(u)
                            /\ (job'[u].lone <=> job[u].lone)
    BY <2>1, <2>2 DEF Touches, Idle, Resetting
  <2>4. WorkedOnIsUnsettled' /\ LoneIsApart'
    BY <2>2, <2>3 DEF SurviveInv, SettledInv, WorkedOnIsUnsettled, LoneIsApart, Apart
  <2>5. LoneCopyIsFresh' /\ LoneResetHasCleared'
    BY <2>1, <2>2 DEF SurviveInv, SettledInv, LoneCopyIsFresh, LoneResetHasCleared
  <2>6. SettledSurvives'
    BY <2>2 DEF SurviveInv, SettledSurvives
  <2> QED
    BY <2>4, <2>5, <2>6 DEF SettledInv
<1>4. ASSUME NEW t \in Threads, ResetBegins(t)
      PROVE  SettledInv' /\ SettledSurvives'
  <2>1. Idle(t) /\ Begins(t, Stores, "clear", "name") /\ UNCHANGED <<ram, flash>>
    BY <1>4 DEF ResetBegins
  <2>2. Stores \in SUBSET Stores /\ "name" \in Keys
    BY DEF Keys
  <2>3. Began(t, Stores, "clear", "name")
    BY <2>1, <2>2, BeginsShape DEF SurviveInv
  <2> QED
    BY <2>1, <2>2, <2>3, BeginsKeepsSettled
<1>5. ASSUME PowerLoss
      PROVE  SettledInv' /\ SettledSurvives'
  <2>1. \A t \in Threads : Touches(t)' = {} /\ Idle(t)' /\ job'[t].at = "idle"
    BY <1>5, NoJobTyped DEF PowerLoss, Touches, Idle
  <2>2. SettledInv'
    BY <2>1 DEF SettledInv, WorkedOnIsUnsettled, LoneIsApart, LoneCopyIsFresh,
                LoneResetHasCleared, Apart
  <2>3. ram' = Loaded(flash')
    BY <1>5 DEF PowerLoss
  <2>4. SettledSurvives'
    BY <2>3 DEF SettledSurvives, Loaded, StoreOf, Keys
  <2> QED
    BY <2>2, <2>4
<1>6. ASSUME UNCHANGED prefVars
      PROVE  SettledInv' /\ SettledSurvives'
  BY <1>6 DEF prefVars, SurviveInv, SettledInv, SettledSurvives, WorkedOnIsUnsettled,
              LoneIsApart, LoneCopyIsFresh, LoneResetHasCleared, Apart, Touches,
              Idle, Resetting
<1>7. \A t \in Threads : MayChange(t) \subseteq Keys
  BY DEF MayChange, Keys
<1> QED
  BY <1>1, <1>2, <1>3, <1>4, <1>5, <1>6, <1>7, WriteKeepsSettled, ClearKeepsSettled,
     ClearFailsKeepsSettled, ForgetKeepsSettled DEF PrefsNext, ThreadStep

\* A restart loads what the device works with, for every store whose latest
\* operation went well and was not overlapped, after any failures, power losses
\* and resets before it.
THEOREM SettledSurvivesHolds == PrefsSpec => []SettledSurvives
<1>1. PrefsInit => SurviveInv
  BY InitTypeInv, InitSurvive DEF SurviveInv
<1>2. SurviveInv /\ [PrefsNext]_prefVars => SurviveInv'
  BY TypeStep, SurviveStep DEF SurviveInv
<1>3. SurviveInv => SettledSurvives
  BY DEF SurviveInv
<1> QED
  BY <1>1, <1>2, <1>3, PTL DEF PrefsSpec

-----------------------------------------------------------------------------
(* What a reset forgets.                                                    *)

ForgetInv == SurviveInv /\ Numbered /\ QuietHolds

LEMMA NumbersAreNat ==
  ASSUME TypeInv
  PROVE  next \in Nat /\ forgotten \in Nat /\ \A t \in Threads : job[t].mark \in Nat
  BY PrefsAssumption DEF TypeInv, PrefsTypeOK, Job

\* A step that brings no change to a key but the next one.
LEMMA NothingComesBack ==
  ASSUME ForgetInv, quiet' = quiet, forgotten' = forgotten,
         \A k \in Keys : \A n \in Changes : Holds(k, n)' => Holds(k, n) \/ n = next
  PROVE  QuietHolds'
  BY NumbersAreNat DEF ForgetInv, SurviveInv, Numbered, QuietHolds

LEMMA NumberedStep == TypeInv /\ Numbered /\ [PrefsNext]_prefVars => Numbered'
<1> SUFFICES ASSUME TypeInv, Numbered, [PrefsNext]_prefVars
             PROVE  Numbered'
  OBVIOUS
<1>1. next \in Nat /\ forgotten \in Nat /\ \A t \in Threads : job[t].mark \in Nat
  BY NumbersAreNat
<1>2. ASSUME NEW t \in Threads, Returns(t), next' = next,
             forgotten' \in {forgotten, job[t].mark}
      PROVE  Numbered'
  <2>1. job'[t] = NoJob /\ \A u \in Threads \ {t} : job'[u] = job[u]
    BY <1>2, ReturnsShape
  <2>2. 1 <= next
    BY PrefsAssumption DEF TypeInv, PrefsTypeOK
  <2> QED
    BY <1>1, <1>2, <2>1, <2>2, NoJobTyped DEF Numbered
<1>3. ASSUME NEW t \in Threads, NEW S, NEW at, NEW k, Began(t, S, at, k),
             next' \in {next, next + 1}, forgotten' = forgotten
      PROVE  Numbered'
  <2>1. job'[t].mark <= next /\ \A u \in Threads \ {t} : job'[u].mark = job[u].mark
    BY <1>3 DEF Began
  <2>2. \A u \in Threads : job'[u].mark <= next /\ (u # t => job'[u].mark \in Nat)
    BY <1>1, <2>1 DEF Numbered
  <2>3. job'[t].mark \in Nat
    BY <1>3, PrefsAssumption DEF Began, Job
  <2> QED
    BY <1>1, <1>3, <2>2, <2>3 DEF Numbered
<1>4. ASSUME NEW t \in Threads, NEW k \in Keys, Change(t, k)
      PROVE  Numbered'
  <2>1. {StoreOf(k)} \in SUBSET Stores
    BY Stored
  <2>2. Begins(t, {StoreOf(k)}, "copy", k) /\ next' = next + 1 /\ forgotten' = forgotten
    BY <1>4 DEF Change
  <2> QED
    BY <1>3, <2>1, <2>2, BeginsShape
<1>5. ASSUME ChangeUnsaved
      PROVE  Numbered'
  <2>1. {"stats"} \in SUBSET Stores /\ "stats" \in Keys /\ Host \in Threads
    BY DEF Stores, Keys, Threads
  <2>2. Begins(Host, {"stats"}, "idle", "stats") /\ next' = next + 1
        /\ forgotten' = forgotten
    BY <1>5 DEF ChangeUnsaved
  <2> QED
    BY <1>3, <2>1, <2>2, BeginsShape
<1>6. ASSUME NEW t \in Threads, ResetBegins(t)
      PROVE  Numbered'
  <2>1. Stores \in SUBSET Stores /\ "name" \in Keys
    BY DEF Keys
  <2>2. Begins(t, Stores, "clear", "name") /\ next' = next /\ forgotten' = forgotten
    BY <1>6 DEF ResetBegins
  <2> QED
    BY <1>3, <2>1, <2>2, BeginsShape
<1>7. ASSUME NEW t \in Threads, Copy(t)
      PROVE  Numbered'
  <2>1. job'[t].mark = job[t].mark /\ \A u \in Threads \ {t} : job'[u] = job[u]
    BY <1>7, CopyShape
  <2> QED
    BY <1>7, <2>1 DEF Numbered, Copy
<1>8. ASSUME NEW t \in Threads, Clear(t)
      PROVE  Numbered'
  <2>1. job'[t].mark = job[t].mark /\ \A u \in Threads \ {t} : job'[u] = job[u]
    BY <1>8, GoesShape DEF Clear
  <2> QED
    BY <1>8, <2>1 DEF Numbered, Clear
<1>9. ASSUME NEW t \in Threads, Write(t) \/ WriteFails(t) \/ ClearFails(t) \/ Forget(t)
      PROVE  Numbered'
  BY <1>2, <1>9 DEF Write, WriteFails, ClearFails, Forget
<1>10. ASSUME PowerLoss
       PROVE  Numbered'
  BY <1>1, <1>10, NoJobTyped, PrefsAssumption
     DEF PowerLoss, Numbered, TypeInv, PrefsTypeOK
<1>11. ASSUME UNCHANGED prefVars
       PROVE  Numbered'
  BY <1>11 DEF prefVars, Numbered
<1>12. \A t \in Threads : MayChange(t) \subseteq Keys
  BY DEF MayChange, Keys
<1> QED
  BY <1>4, <1>5, <1>6, <1>7, <1>8, <1>9, <1>10, <1>11, <1>12 DEF PrefsNext, ThreadStep

\* Beginning and copying bring nothing back, nor does a write.
LEMMA BeginsHoldsNothing ==
  ASSUME NEW t \in Threads, NEW S, NEW at, NEW j, Began(t, S, at, j), flash' = flash,
         \A k \in Keys : ram'[k] \subseteq ram[k] \cup {next}
  PROVE  \A k \in Keys : \A n \in Changes : Holds(k, n)' => Holds(k, n) \/ n = next
  BY DEF Began, Holds

LEMMA ReturnsHoldsNothing ==
  ASSUME TypeInv, NEW t \in Threads, Returns(t),
         \A k \in Keys : \A n \in Changes :
            \/ n \in ram'[k]
            \/ flash'[k] # Absent /\ n \in flash'[k]
            => Holds(k, n)
  PROVE  \A k \in Keys : \A n \in Changes : Holds(k, n)' => Holds(k, n)
<1>1. job'[t] = NoJob /\ \A u \in Threads \ {t} : job'[u] = job[u]
  BY ReturnsShape
<1> QED
  BY <1>1, NoJobTyped DEF Holds

LEMMA WrittenHeld ==
  ASSUME TypeInv, NEW t \in Threads, NEW ks \in SUBSET KeysWritten(job[t].key),
         NEW k \in Keys, NEW n \in Changes,
         Written(t, ks)[k] # Absent, n \in Written(t, ks)[k]
  PROVE  Holds(k, n)
<1>1. job[t].key \in Keys
  BY DEF TypeInv, PrefsTypeOK, Job
<1>2. CASE k \notin ks
  BY <1>2 DEF Written, Holds
<1>3. CASE k \in ks /\ StoreOf(k) = "identity"
  BY <1>3 DEF Written, Holds
<1>4. CASE k \in ks /\ StoreOf(k) # "identity"
  <2>1. k = job[t].key
    BY <1>1, <1>4 DEF KeysWritten, StoreOf, Keys
  <2> QED
    BY <1>4, <2>1 DEF Written, Holds
<1> QED
  BY <1>2, <1>3, <1>4

LEMMA ForgetKeepsQuiet ==
  ASSUME ForgetInv, NEW t \in Threads, Forget(t)
  PROVE  QuietHolds'
<1> DEFINE gone == {StoreOf(k) : k \in KeysForgotten(t)}
<1>1. /\ Resetting(t) /\ Returns(t) /\ flash' = flash
      /\ ram' = [k \in Keys |-> IF k \in KeysForgotten(t) THEN {} ELSE ram[k]]
      /\ quiet' = IF job[t].lone THEN gone ELSE {}
  BY DEF Forget, Resetting
<1>2. \A k \in Keys : StoreOf(k) \in gone => k \in KeysForgotten(t)
  BY ForgottenStores
<1> HIDE DEF gone
<1>3. CASE ~job[t].lone
  BY <1>1, <1>3 DEF QuietHolds
<1>4. CASE job[t].lone
  <2>1. \A k \in Keys : flash'[k] = Absent
    BY <1>1, <1>4 DEF Forget, ForgetInv, SurviveInv, SettledInv, LoneResetHasCleared
  <2>2. \A u \in Threads : job'[u].copied = {}
    <3>1. job'[t] = NoJob /\ \A u \in Threads \ {t} : job'[u] = job[u]
      BY <1>1, ReturnsShape DEF ForgetInv, SurviveInv
    <3>2. \A u \in Threads \ {t} : Idle(u)
      BY <1>1, <1>4, ResetIsNotBesideLone DEF ForgetInv, SurviveInv, SettledInv
    <3>3. \A u \in Threads \ {t} : job[u].copied = {}
      BY <3>2 DEF ForgetInv, SurviveInv, TypeInv, IdleHoldsNothing
    <3> QED
      BY <3>1, <3>3, NoJobTyped
  <2>3. \A k \in Keys, n \in Changes : StoreOf(k) \in quiet' => ~Holds(k, n)'
    BY <1>1, <1>2, <1>4, <2>1, <2>2 DEF Holds
  <2> QED
    BY <2>3 DEF QuietHolds
<1> QED
  BY <1>3, <1>4

LEMMA QuietStep == ForgetInv /\ [PrefsNext]_prefVars => QuietHolds'
<1> SUFFICES ASSUME ForgetInv, [PrefsNext]_prefVars
             PROVE  QuietHolds'
  OBVIOUS
<1>1. TypeInv
  BY DEF ForgetInv, SurviveInv
<1>2. ASSUME NEW t \in Threads, NEW k \in Keys, Change(t, k)
      PROVE  QuietHolds'
  <2>1. {StoreOf(k)} \in SUBSET Stores /\ Begins(t, {StoreOf(k)}, "copy", k)
        /\ flash' = flash
    BY <1>2, Stored DEF Change
  <2>2. next \in Changes
    BY <1>1, <1>2, PrefsAssumption DEF Change, Changes, TypeInv, PrefsTypeOK
  <2>3. \A j \in Keys : ram'[j] \subseteq ram[j] \cup {next}
    BY <1>1, <1>2, <2>2, ChangedTyped DEF Change
  <2>4. Began(t, {StoreOf(k)}, "copy", k)
    BY <1>1, <2>1, BeginsShape
  <2>5. \A j \in Keys : \A n \in Changes : Holds(j, n)' => Holds(j, n) \/ n = next
    BY <2>1, <2>3, <2>4, BeginsHoldsNothing
  <2> QED
    BY <1>2, <2>5, NothingComesBack DEF Change
<1>3. ASSUME ChangeUnsaved
      PROVE  QuietHolds'
  <2>1. /\ {"stats"} \in SUBSET Stores /\ "stats" \in Keys /\ Host \in Threads
        /\ Begins(Host, {"stats"}, "idle", "stats") /\ flash' = flash
    BY <1>3 DEF Stores, Keys, Threads, ChangeUnsaved
  <2>2. next \in Changes
    BY <1>1, <1>3, PrefsAssumption DEF ChangeUnsaved, Changes, TypeInv, PrefsTypeOK
  <2>3. \A j \in Keys : ram'[j] \subseteq ram[j] \cup {next}
    BY <1>1, <1>3, <2>1, <2>2, ChangedTyped DEF ChangeUnsaved
  <2>4. Began(Host, {"stats"}, "idle", "stats")
    BY <1>1, <2>1, BeginsShape
  <2>5. \A j \in Keys : \A n \in Changes : Holds(j, n)' => Holds(j, n) \/ n = next
    BY <2>1, <2>3, <2>4, BeginsHoldsNothing
  <2> QED
    BY <1>3, <2>5, NothingComesBack DEF ChangeUnsaved
<1>4. ASSUME NEW t \in Threads, ResetBegins(t)
      PROVE  QuietHolds'
  <2>1. /\ Stores \in SUBSET Stores /\ "name" \in Keys
        /\ Begins(t, Stores, "clear", "name") /\ flash' = flash /\ ram' = ram
    BY <1>4 DEF Keys, ResetBegins
  <2>2. Began(t, Stores, "clear", "name")
    BY <1>1, <2>1, BeginsShape
  <2>3. \A j \in Keys : \A n \in Changes : Holds(j, n)' => Holds(j, n) \/ n = next
    BY <2>1, <2>2, BeginsHoldsNothing
  <2> QED
    BY <1>4, <2>3, NothingComesBack DEF ResetBegins
<1>5. ASSUME NEW t \in Threads, Copy(t)
      PROVE  QuietHolds'
  <2>1. /\ \A u \in Threads \ {t} : job'[u] = job[u]
        /\ job'[t].key = job[t].key /\ job'[t].copied = ram[job[t].key]
    BY <1>1, <1>5, CopyShape
  <2>2. \A k \in Keys : \A n \in Changes : Holds(k, n)' => Holds(k, n)
    <3> SUFFICES ASSUME NEW k \in Keys, NEW n \in Changes, Holds(k, n)'
                 PROVE  Holds(k, n)
      OBVIOUS
    <3>1. ram' = ram /\ flash' = flash
      BY <1>5 DEF Copy
    <3>2. \A u \in Threads : job'[u].key = k /\ n \in job'[u].copied => Holds(k, n)
      BY <2>1 DEF Holds
    <3> QED
      BY <3>1, <3>2 DEF Holds
  <2>3. \A k \in Keys : \A n \in Changes : Holds(k, n)' => Holds(k, n) \/ n = next
    BY <2>2
  <2> QED
    BY <1>5, <2>3, NothingComesBack DEF Copy
<1>6. ASSUME NEW t \in Threads, Write(t) \/ WriteFails(t)
      PROVE  QuietHolds'
  <2>1. Returns(t) /\ ram' = ram /\ quiet' = quiet /\ forgotten' = forgotten
    BY <1>6 DEF Write, WriteFails
  <2>2. PICK ks \in SUBSET KeysWritten(job[t].key) : flash' = Written(t, ks)
    BY <1>6, PartlyWrittenIsWritten DEF Write, WriteFails
  <2>3. ASSUME NEW k \in Keys, NEW n \in Changes,
               n \in ram'[k] \/ (flash'[k] # Absent /\ n \in flash'[k])
        PROVE  Holds(k, n)
    <3>1. CASE n \in ram'[k]
      BY <2>1, <3>1 DEF Holds
    <3>2. CASE flash'[k] # Absent /\ n \in flash'[k]
      BY <1>1, <2>2, <3>2, WrittenHeld
    <3> QED
      BY <2>3, <3>1, <3>2
  <2>4. \A k \in Keys : \A n \in Changes : Holds(k, n)' => Holds(k, n)
    BY <1>1, <2>1, <2>3, ReturnsHoldsNothing
  <2> QED
    BY <2>1, <2>4, NothingComesBack
<1>7. ASSUME NEW t \in Threads, Clear(t)
      PROVE  QuietHolds'
  <2>1. /\ \A u \in Threads \ {t} : job'[u] = job[u]
        /\ job'[t].key = job[t].key /\ job'[t].copied = job[t].copied
    BY <1>1, <1>7, GoesShape DEF Clear
  <2>2. ram' = ram /\ quiet' = quiet /\ forgotten' = forgotten
        /\ flash' = Removed(KeysCleared)
    BY <1>7 DEF Clear
  <2>3. \A k \in Keys : \A n \in Changes : Holds(k, n)' => Holds(k, n)
    BY <2>1, <2>2 DEF Removed, Holds
  <2> QED
    BY <2>2, <2>3, NothingComesBack
<1>8. ASSUME NEW t \in Threads, ClearFails(t)
      PROVE  QuietHolds'
  <2>1. /\ Returns(t) /\ ram' = ram /\ quiet' = quiet /\ forgotten' = forgotten
        /\ \E ks : flash' = Removed(ks)
    BY <1>8 DEF ClearFails
  <2>2. \A k \in Keys : \A n \in Changes :
           n \in ram'[k] \/ (flash'[k] # Absent /\ n \in flash'[k]) => Holds(k, n)
    BY <2>1 DEF Removed, Holds
  <2>3. \A k \in Keys : \A n \in Changes : Holds(k, n)' => Holds(k, n)
    BY <1>1, <2>1, <2>2, ReturnsHoldsNothing
  <2> QED
    BY <2>1, <2>3, NothingComesBack
<1>9. ASSUME PowerLoss
      PROVE  QuietHolds'
  <2>1. \A k \in Keys : \A n \in Changes :
           flash'[k] # Absent /\ n \in flash'[k] => Holds(k, n)
    <3>1. CASE UNCHANGED flash
      BY <3>1 DEF Holds
    <3>2. ASSUME NEW t \in Threads, flash' \in PartlyWritten(t)
          PROVE  <2>1
      BY <1>1, <3>2, PartlyWrittenIsWritten, WrittenHeld
    <3>3. ASSUME NEW ks, flash' = Removed(ks)
          PROVE  <2>1
      BY <3>3 DEF Removed, Holds
    <3> QED
      BY <1>9, <3>1, <3>2, <3>3 DEF PowerLoss
  <2>2. /\ ram' = Loaded(flash') /\ job' = [t \in Threads |-> NoJob]
        /\ quiet' = quiet /\ forgotten' = forgotten
    BY <1>9 DEF PowerLoss
  <2>3. \A k \in Keys : \A n \in Changes : Holds(k, n)' => Holds(k, n)
    BY <2>1, <2>2, NoJobTyped DEF Loaded, Holds
  <2> QED
    BY <2>2, <2>3, NothingComesBack
<1>10. ASSUME UNCHANGED prefVars
       PROVE  QuietHolds'
  BY <1>10 DEF prefVars, ForgetInv, QuietHolds, Holds
<1>11. \A t \in Threads : MayChange(t) \subseteq Keys
  BY DEF MayChange, Keys
<1> QED
  BY <1>2, <1>3, <1>4, <1>5, <1>6, <1>7, <1>8, <1>9, <1>10, <1>11, ForgetKeepsQuiet
     DEF PrefsNext, ThreadStep

\* After an acknowledged reset that nothing overlapped, nothing from before it
\* is in RAM or on flash again.
THEOREM QuietResetForgetsHolds == PrefsSpec => []QuietResetForgets
<1>1. PrefsInit => ForgetInv
  <2> SUFFICES ASSUME PrefsInit
               PROVE  ForgetInv
    OBVIOUS
  <2>1. SurviveInv
    BY InitTypeInv, InitSurvive DEF SurviveInv
  <2>2. Numbered /\ QuietHolds
    BY NoJobTyped DEF PrefsInit, Numbered, QuietHolds
  <2> QED
    BY <2>1, <2>2 DEF ForgetInv
<1>2. ForgetInv /\ [PrefsNext]_prefVars => ForgetInv'
  BY TypeStep, SurviveStep, NumberedStep, QuietStep DEF ForgetInv, SurviveInv
<1>3. ForgetInv => QuietResetForgets
  <2> SUFFICES ASSUME ForgetInv, NEW k \in Keys, StoreOf(k) \in quiet,
                      NEW n \in Remembered(k)
               PROVE  n >= forgotten
    BY DEF QuietResetForgets
  <2>1. n \in Changes
    BY DEF Remembered, ForgetInv, SurviveInv, TypeInv, PrefsTypeOK, Value
  <2>2. Holds(k, n)
    BY DEF Remembered, Holds
  <2> QED
    BY <2>1, <2>2 DEF ForgetInv, QuietHolds
<1> QED
  BY <1>1, <1>2, <1>3, PTL DEF PrefsSpec
=============================================================================
