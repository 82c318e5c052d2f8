------------------------ MODULE PairingPasskeyProofs -----------------------
(***************************************************************************)
(* Theorems of PairingPasskey, for any passkeys, any width of the counter of  *)
(* milliseconds and any display time below it.                                *)
(*                                                                           *)
(* The code compares two times it has stored; what the properties speak of is *)
(* the moment a passkey was asked for and its age, which are history.  The     *)
(* invariant says how they go together.  With an older passkey up, or a reset  *)
(* under way, the stored time may be the reset's 0; then the passkey is taken   *)
(* for older than it is, never for younger.                                   *)
(***************************************************************************)
EXTENDS PairingPasskey, TLAPS

\* The main loop has seen the flag and is about to judge the passkey.
Judging == {"status", "time", "take down"}

\* The last tick was as long after the request as the age says, across one turn
\* of the counter.
ClockOK == age <= DisplayMs => lastTick = askedMs + age \/ lastTick + Word = askedMs + age

\* What remains of the stores.
LastTwo == <<"time", "flag">>
LastOne == <<"flag">>

\* What the stored time says, once it is stored.
TimeOK ==
  /\ stores \in {<< >>, LastOne} => passkeyMs \in {askedMs, 0}
  /\ ~crossed /\ (hasPasskey \/ stores = LastOne) => passkeyMs = askedMs

\* A passkey that has had its time is being judged, or was given too late before
\* the turn of the counter for the comparison to see its end.
OverdueOK ==
  age = DisplayMs + 1 /\ hasPasskey
    => \/ AskedBeforeTheWrap
       \/ main \in Judging /\ lastTick = askedMs + DisplayMs + 1

\* What the stores are and what each thread knows of the flag.
ThreadsOK ==
  /\ stores \in {<< >>, LastOne, LastTwo, PasskeyStores}
  /\ stores # << >> => age = 0
  /\ link = "encrypted" => secured
  /\ main \in Judging => hasPasskey
  /\ stores # << >> /\ (hasPasskey \/ main \in Resetting) => crossed
  /\ main \in {"reset passkey", "reset time"} /\ hasPasskey => crossed

\* The inductive invariant.
PasskeyInv ==
  /\ PasskeyTypeOK
  /\ ThreadsOK
  /\ ClockOK
  /\ TimeOK
  /\ OverdueOK
  /\ main = "take down" => age > DisplayMs \/ secured \/ crossed

\* The three stores, one at a time.
LEMMA StoreSequence ==
  /\ Head(PasskeyStores) = "passkey" /\ Tail(PasskeyStores) = LastTwo
  /\ Head(LastTwo) = "time" /\ Tail(LastTwo) = LastOne
  /\ Head(LastOne) = "flag" /\ Tail(LastOne) = << >>
  BY DEF PasskeyStores, LastTwo, LastOne

LEMMA StoresDiffer ==
  /\ PasskeyStores # << >> /\ LastTwo # << >> /\ LastOne # << >>
  /\ PasskeyStores # LastTwo /\ PasskeyStores # LastOne /\ LastTwo # LastOne
  BY DEF PasskeyStores, LastTwo, LastOne

LEMMA StoresTyped ==
  /\ PasskeyStores \in Seq(Stores) /\ LastTwo \in Seq(Stores)
  /\ LastOne \in Seq(Stores) /\ << >> \in Seq(Stores)
  BY DEF PasskeyStores, LastTwo, LastOne, Stores

LEMMA Constants ==
  /\ Word \in Nat /\ DisplayMs \in Nat /\ DisplayMs + 1 < Word
  /\ PasskeyRange \in Nat /\ PasskeyRange > 0
  BY PasskeyAssumption

\* What last_pairing_passkey_ holds has six digits.
LEMMA SixDigitsShown ==
  ASSUME NEW k \in Passkeys \cup {0}
  PROVE  SixDigits(k) \in Shown
<1>1. k \in Nat
  BY PasskeyAssumption
<1>2. k % PasskeyRange \in 0 .. PasskeyRange - 1
  BY <1>1, Constants
<1> QED
  BY <1>2 DEF SixDigits, Shown

LEMMA InitPasskey == Init => PasskeyInv
<1> SUFFICES ASSUME Init PROVE PasskeyInv
  OBVIOUS
<1>1. PasskeyTypeOK
  <2>1. 0 \in Times /\ 0 \in 0 .. DisplayMs + 1
    BY PasskeyAssumption DEF Times
  <2>2. << >> \in Seq(Stores)
    OBVIOUS
  <2>3. 0 \in Shown /\ [has |-> FALSE, passkey |-> 0] \in Model
    BY Constants DEF Model, Shown
  <2> QED
    BY <2>1, <2>2, <2>3 DEF Init, PasskeyTypeOK
<1>2. ClockOK
  BY Constants DEF Init, ClockOK
<1>3. TimeOK /\ OverdueOK
  BY Constants DEF Init, TimeOK, OverdueOK
<1> QED
  BY <1>1, <1>2, <1>3, StoresDiffer DEF Init, PasskeyInv, ThreadsOK, Judging, Resetting

LEMMA Resets ==
  /\ AfterReset["reset flag"] = "reset passkey"
  /\ AfterReset["reset passkey"] = "reset time"
  /\ AfterReset["reset time"] = "tick"
  BY DEF AfterReset, Resetting

LEMMA Numbers ==
  ASSUME PasskeyTypeOK
  PROVE  /\ lastTick \in Nat /\ lastTick < Word
         /\ passkeyMs \in Nat /\ passkeyMs < Word
         /\ askedMs \in Nat /\ askedMs < Word
         /\ age \in Nat /\ age <= DisplayMs + 1
<1>1. /\ lastTick \in Times /\ passkeyMs \in Times /\ askedMs \in Times
      /\ age \in 0 .. DisplayMs + 1
  BY DEF PasskeyTypeOK
<1> QED
  BY <1>1, Constants DEF Times

\* Whatever leaves the times, the flag and the stores alone keeps what is said of
\* them, unless the loop comes to the end of its judging.
LEMMA TimesStay ==
  ASSUME PasskeyInv,
         UNCHANGED <<passkeyMs, hasPasskey, lastTick, stores, askedMs, age>>,
         crossed => crossed',
         main \in Judging => main' \in Judging
  PROVE  ClockOK' /\ TimeOK' /\ OverdueOK'
<1>1. ClockOK'
  BY DEF PasskeyInv, ClockOK
<1>2. TimeOK'
  BY DEF PasskeyInv, TimeOK
<1>3. AskedBeforeTheWrap' <=> AskedBeforeTheWrap
  BY DEF AskedBeforeTheWrap
<1>4. OverdueOK'
  BY <1>3 DEF PasskeyInv, OverdueOK
<1> QED
  BY <1>1, <1>2, <1>4

LEMMA HostPasskey ==
  ASSUME PasskeyInv, HostStep
  PROVE  PasskeyInv'
<1>0. /\ PasskeyTypeOK /\ ThreadsOK /\ ClockOK /\ TimeOK /\ OverdueOK
      /\ main = "take down" => age > DisplayMs \/ secured \/ crossed
  BY DEF PasskeyInv
\* What the arithmetic needs.
<1>9. /\ lastTick \in Nat /\ lastTick < Word /\ passkeyMs \in Nat /\ passkeyMs < Word
      /\ askedMs \in Nat /\ askedMs < Word
      /\ age \in Nat /\ age <= DisplayMs + 1
      /\ Word \in Nat /\ DisplayMs \in Nat /\ DisplayMs + 1 < Word
  BY <1>0, Constants, Numbers
<1>1. CASE Connected \/ Disconnected \/ \E on \in BOOLEAN : EncryptInd(on)
  <2>1. /\ UNCHANGED <<passkey, passkeyMs, hasPasskey, lastTick, giving, stores, main,
                      model, asked, askedMs, age, crossed>>
        /\ link' \in {"down", "up", "encrypted"} /\ secured' \in BOOLEAN
        /\ link' = "encrypted" => secured'
        /\ secured => secured'
    BY <1>0, <1>1 DEF Connected, Disconnected, EncryptInd, appVars, history, PasskeyTypeOK,
                ThreadsOK
  <2>2. PasskeyTypeOK'
    BY <1>0, <2>1 DEF PasskeyTypeOK
  <2>3. ThreadsOK'
    BY <1>0, <2>1 DEF ThreadsOK, Judging, Resetting
  <2>4. ClockOK' /\ TimeOK' /\ OverdueOK'
    BY <2>1, TimesStay
  <2> QED
    BY <1>0, <2>1, <2>2, <2>3, <2>4 DEF PasskeyInv
<1>2. ASSUME NEW k \in Passkeys, HandleBondInfo(k)
      PROVE  PasskeyInv'
  <2>1. /\ UNCHANGED <<link, passkey, passkeyMs, hasPasskey, lastTick, main, model>>
        /\ giving' = k /\ asked' = k /\ askedMs' = lastTick /\ age' = 0
        /\ stores' = PasskeyStores
        /\ secured' = (link = "encrypted")
        /\ crossed' = (hasPasskey \/ main \in Resetting)
    BY <1>2 DEF HandleBondInfo, appVars
  <2>2. PasskeyTypeOK'
    <3>1. stores' \in Seq(Stores)
      BY <2>1, StoresTyped
    <3>2. age' \in 0 .. DisplayMs + 1
      BY <2>1, Constants
    <3> QED
      BY <1>0, <2>1, <3>1, <3>2 DEF PasskeyTypeOK
  <2>3. ThreadsOK'
    BY <1>0, <2>1, StoreSequence, StoresDiffer DEF ThreadsOK, Judging, Resetting
  <2>4. stores' # LastOne /\ stores' # << >>
    BY <2>1, StoreSequence, StoresDiffer
  <2>5. ClockOK'
    BY <1>9, <2>1 DEF ClockOK
  <2>6. TimeOK'
    BY <2>1, <2>4 DEF TimeOK
  <2>7. OverdueOK'
    BY <1>9, <2>1 DEF OverdueOK
  <2> QED
    BY <1>0, <2>1, <2>2, <2>3, <2>5, <2>6, <2>7 DEF PasskeyInv, ThreadsOK, Judging
<1>3. CASE OnBlePasskey
  <2>1. /\ UNCHANGED <<link, lastTick, main, model, asked, askedMs, age, secured, crossed>>
        /\ stores # << >> /\ stores' = Tail(stores)
        /\ passkey' = IF Head(stores) = "passkey" THEN SixDigits(giving) ELSE passkey
        /\ passkeyMs' = IF Head(stores) = "time" THEN lastTick ELSE passkeyMs
        /\ hasPasskey' = (hasPasskey \/ Head(stores) = "flag")
        /\ giving' = IF Len(stores) = 1 THEN 0 ELSE giving
        /\ age = 0
    BY <1>0, <1>3 DEF OnBlePasskey, history, ThreadsOK
  <2>2. PasskeyTypeOK'
    <3>1. stores' \in Seq(Stores)
      BY <1>0, <2>1, StoreSequence, StoresDiffer, StoresTyped DEF ThreadsOK
    <3>2. SixDigits(giving) \in Shown
      BY <1>0, SixDigitsShown DEF PasskeyTypeOK
    <3> QED
      BY <1>0, <2>1, <3>1, <3>2 DEF PasskeyTypeOK
  <2>7. /\ UNCHANGED <<link, lastTick, main, askedMs, age, secured, crossed>>
        /\ stores # << >> /\ age = 0
    BY <2>1
  <2>8. ClockOK' /\ OverdueOK'
    <3>1. ClockOK'
      BY <1>0, <2>7 DEF ClockOK
    <3>2. OverdueOK'
      BY <1>9, <2>7 DEF OverdueOK
    <3> QED
      BY <3>1, <3>2
  <2>9. (main = "take down" => age > DisplayMs \/ secured \/ crossed)'
    BY <1>0, <2>7
  <2>3. CASE stores = PasskeyStores
    <3>1. stores' = LastTwo /\ passkeyMs' = passkeyMs /\ (hasPasskey' <=> hasPasskey)
      BY <2>1, <2>3, StoreSequence
    <3>2. stores' # LastOne /\ stores' # << >>
      BY <3>1, StoreSequence, StoresDiffer
    <3>3. ThreadsOK'
      BY <1>0, <2>7, <3>1, <3>2 DEF ThreadsOK, Judging, Resetting
    <3>4. ~crossed' => ~hasPasskey'
      BY <1>0, <2>7, <3>1 DEF ThreadsOK
    <3>5. TimeOK'
      BY <3>2, <3>4 DEF TimeOK
    <3> QED
      BY <2>2, <2>8, <2>9, <3>3, <3>5 DEF PasskeyInv
  <2>4. CASE stores = LastTwo
    <3>1. stores' = LastOne /\ passkeyMs' = lastTick /\ (hasPasskey' <=> hasPasskey)
      BY <2>1, <2>4, StoreSequence
    <3>2. stores' # << >>
      BY <3>1, StoreSequence, StoresDiffer
    <3>3. ThreadsOK'
      BY <1>0, <2>7, <3>1, <3>2 DEF ThreadsOK, Judging, Resetting
    <3>4. lastTick = askedMs
      <4>1. lastTick = askedMs + age \/ lastTick + Word = askedMs + age
        <5>1. age <= DisplayMs
          BY <1>9, <2>7
        <5> QED
          BY <1>0, <5>1 DEF ClockOK
      <4> QED
        BY <1>9, <2>7, <4>1
    <3>5. TimeOK'
      BY <2>7, <3>1, <3>4 DEF TimeOK
    <3> QED
      BY <2>2, <2>8, <2>9, <3>3, <3>5 DEF PasskeyInv
  <2>5. CASE stores = LastOne
    <3>1. stores' = << >> /\ UNCHANGED passkeyMs /\ hasPasskey'
      BY <1>0, <2>1, <2>5, StoreSequence, StoresDiffer DEF PasskeyTypeOK
    <3>2. main \in Resetting => crossed
      BY <1>0, <2>1 DEF ThreadsOK
    <3>3. ThreadsOK'
      BY <1>0, <2>7, <3>1, <3>2 DEF ThreadsOK, Judging, Resetting
    <3>4. TimeOK'
      BY <1>0, <2>5, <2>7, <3>1 DEF TimeOK
    <3> QED
      BY <2>2, <2>8, <2>9, <3>3, <3>4 DEF PasskeyInv
  <2> QED
    BY <1>0, <2>1, <2>3, <2>4, <2>5 DEF ThreadsOK
<1> QED
  BY <1>1, <1>2, <1>3 DEF HostStep

LEMMA MainPasskey ==
  ASSUME PasskeyInv, MainStep
  PROVE  PasskeyInv'
<1>0. /\ PasskeyTypeOK /\ ThreadsOK /\ ClockOK /\ TimeOK /\ OverdueOK
      /\ main = "take down" => age > DisplayMs \/ secured \/ crossed
  BY DEF PasskeyInv
\* What the arithmetic needs.
<1>9. /\ lastTick \in Nat /\ lastTick < Word /\ passkeyMs \in Nat /\ passkeyMs < Word
      /\ askedMs \in Nat /\ askedMs < Word
      /\ age \in Nat /\ age <= DisplayMs + 1
      /\ Word \in Nat /\ DisplayMs \in Nat /\ DisplayMs + 1 < Word
  BY <1>0, Constants, Numbers
<1>1. ASSUME NEW passed \in {0, 1}, TickBegins(passed)
      PROVE  PasskeyInv'
  <2>1. /\ UNCHANGED <<link, passkey, passkeyMs, hasPasskey, giving, stores, model, asked,
                      askedMs, secured, crossed>>
        /\ main = "tick" /\ main' = IF hasPasskey THEN "status" ELSE "copy flag"
        /\ lastTick' = (lastTick + passed) % Word
        /\ age' = IF age + passed > DisplayMs THEN DisplayMs + 1 ELSE age + passed
        /\ passed = 0 \/ stores = << >>
    BY <1>1 DEF TickBegins, HostIsFree, appVars
  <2>2. lastTick' = IF lastTick + passed = Word THEN 0 ELSE lastTick + passed
    <3>1. lastTick + passed < Word => (lastTick + passed) % Word = lastTick + passed
      BY <1>9
    <3>2. Word % Word = 0
      BY <1>9
    <3>3. lastTick' = (lastTick + passed) % Word /\ passed \in {0, 1}
      BY <2>1
    <3>4. lastTick + passed < Word \/ lastTick + passed = Word
      BY <1>9, <3>3
    <3> QED
      BY <1>9, <3>1, <3>2, <3>3, <3>4
  <2>3. age' = IF age + passed > DisplayMs THEN DisplayMs + 1 ELSE age + passed
    BY <2>1
  <2>4. PasskeyTypeOK'
    <3>1. lastTick' \in Times
      BY <1>9, <2>2 DEF Times
    <3>2. age' \in 0 .. DisplayMs + 1
      BY <1>9, <2>3
    <3>3. main' \in {"status", "copy flag"}
      BY <2>1
    <3> QED
      BY <1>0, <2>1, <3>1, <3>2, <3>3 DEF PasskeyTypeOK
  <2>5. stores # << >> => age' = 0
    <3>1. stores # << >> => age = 0 /\ passed = 0
      BY <1>0, <2>1 DEF ThreadsOK
    <3> QED
      BY <1>9, <2>3, <3>1
  <2>6. ThreadsOK'
    BY <1>0, <2>1, <2>5 DEF ThreadsOK, Judging, Resetting
  <2>7. ClockOK'
    <3>1. age' <= DisplayMs => age <= DisplayMs /\ age' = age + passed
      BY <1>9, <2>3
    <3>2. UNCHANGED askedMs /\ passed \in {0, 1}
      BY <2>1
    <3>3. SUFFICES ASSUME age' <= DisplayMs
                   PROVE  lastTick' = askedMs + age' \/ lastTick' + Word = askedMs + age'
      BY <3>2 DEF ClockOK
    <3>4. lastTick = askedMs + age \/ lastTick + Word = askedMs + age
      BY <1>0, <3>1, <3>3 DEF ClockOK
    <3> QED
      BY <1>9, <2>2, <3>1, <3>2, <3>3, <3>4
  <2>8. TimeOK'
    BY <1>0, <2>1 DEF TimeOK
  <2>9. OverdueOK'
    <3> SUFFICES ASSUME age' = DisplayMs + 1, hasPasskey, ~AskedBeforeTheWrap
                 PROVE  lastTick' = askedMs + DisplayMs + 1 /\ main' = "status"
      BY <2>1 DEF OverdueOK, AskedBeforeTheWrap, Judging
    <3>1. age <= DisplayMs
      BY <1>0, <1>9, <2>1 DEF OverdueOK, Judging
    <3>2. age = DisplayMs /\ passed = 1
      BY <1>9, <2>3, <3>1
    <3> QED
      BY <1>0, <1>9, <2>1, <2>2, <3>2 DEF ClockOK, AskedBeforeTheWrap
  <2> QED
    BY <2>1, <2>4, <2>6, <2>7, <2>8, <2>9 DEF PasskeyInv
<1>2. CASE TickReadsStatus
  <2>1. /\ UNCHANGED <<link, passkey, passkeyMs, hasPasskey, lastTick, giving, stores,
                      model, asked, askedMs, age, secured, crossed>>
        /\ main = "status" /\ main' = IF link = "encrypted" THEN "take down" ELSE "time"
    BY <1>2 DEF TickReadsStatus, appVars, history
  <2>2. PasskeyTypeOK'
    BY <1>0, <2>1 DEF PasskeyTypeOK
  <2>3. ThreadsOK'
    BY <1>0, <2>1 DEF ThreadsOK, Judging, Resetting
  <2>4. ClockOK' /\ TimeOK' /\ OverdueOK'
    BY <2>1, TimesStay DEF Judging
  <2>5. main' = "take down" => secured'
    BY <1>0, <2>1 DEF ThreadsOK
  <2> QED
    BY <2>2, <2>3, <2>4, <2>5 DEF PasskeyInv
<1>3. CASE TickReadsTime
  <2>1. /\ UNCHANGED <<link, passkey, passkeyMs, hasPasskey, lastTick, giving, stores,
                      model, asked, askedMs, age, secured, crossed>>
        /\ main = "time"
        /\ main' = IF Expired(lastTick, passkeyMs) THEN "take down" ELSE "copy flag"
    BY <1>3 DEF TickReadsTime, appVars, history
  <2>2. PasskeyTypeOK'
    BY <1>0, <2>1 DEF PasskeyTypeOK
  <2>3. ThreadsOK'
    BY <1>0, <2>1 DEF ThreadsOK, Judging, Resetting
  <2>4. hasPasskey
    BY <1>0, <2>1 DEF ThreadsOK, Judging
  \* A passkey that met nothing is judged by the time it was asked for.
  <2>5. Expired(lastTick, passkeyMs) /\ ~crossed => age > DisplayMs
    <3>1. ~crossed => passkeyMs = askedMs
      BY <1>0, <2>4 DEF TimeOK
    <3>2. lastTick >= askedMs /\ lastTick - askedMs > DisplayMs => age > DisplayMs
      <4>1. age <= DisplayMs => lastTick = askedMs + age \/ lastTick + Word = askedMs + age
        BY <1>0 DEF ClockOK
      <4> QED
        BY <1>9, <4>1
    <3> QED
      BY <3>1, <3>2 DEF Expired
  \* Any other is judged by that time or by an earlier one.
  <2>6. age = DisplayMs + 1 /\ ~AskedBeforeTheWrap => Expired(lastTick, passkeyMs)
    <3> SUFFICES ASSUME age = DisplayMs + 1, ~AskedBeforeTheWrap
                 PROVE  Expired(lastTick, passkeyMs)
      OBVIOUS
    <3>1. lastTick = askedMs + DisplayMs + 1
      BY <1>0, <2>4 DEF OverdueOK
    <3>2. stores = << >>
      <4>1. age # 0
        BY <1>9
      <4> QED
        BY <1>0, <4>1 DEF ThreadsOK
    <3>3. passkeyMs = askedMs \/ passkeyMs = 0
      BY <1>0, <3>2 DEF TimeOK
    <3> QED
      BY <1>9, <3>1, <3>3 DEF Expired
  <2>7. ClockOK' /\ TimeOK'
    BY <1>0, <2>1 DEF ClockOK, TimeOK
  <2>8. OverdueOK'
    <3>1. CASE Expired(lastTick, passkeyMs)
      BY <2>1, <2>7, <3>1, <1>0 DEF OverdueOK, Judging, AskedBeforeTheWrap
    <3>2. CASE ~Expired(lastTick, passkeyMs)
      BY <2>1, <2>6, <3>2 DEF OverdueOK, AskedBeforeTheWrap
    <3> QED
      BY <3>1, <3>2
  <2>9. main' = "take down" => age' > DisplayMs \/ crossed'
    BY <2>1, <2>5
  <2> QED
    BY <2>2, <2>3, <2>7, <2>8, <2>9 DEF PasskeyInv
<1>4. CASE TickTakesDown
  <2>1. /\ UNCHANGED <<link, passkey, passkeyMs, lastTick, giving, stores,
                      model, asked, askedMs, age, secured, crossed>>
        /\ main = "take down" /\ main' = "copy flag" /\ ~hasPasskey' /\ hasPasskey' = FALSE
    BY <1>4 DEF TickTakesDown, history
  <2>2. PasskeyTypeOK'
    BY <1>0, <2>1 DEF PasskeyTypeOK
  <2>3. ThreadsOK'
    BY <1>0, <2>1 DEF ThreadsOK, Judging, Resetting
  <2>4. stores = LastOne => crossed
    BY <1>0, <2>1, StoresDiffer DEF ThreadsOK, Judging
  <2>5. ClockOK' /\ TimeOK' /\ OverdueOK'
    BY <1>0, <2>1, <2>4 DEF ClockOK, TimeOK, OverdueOK
  <2> QED
    BY <2>1, <2>2, <2>3, <2>5 DEF PasskeyInv
<1>5. CASE CopiesFlag \/ CopiesPasskey \/ NoReset
  <2>1. /\ UNCHANGED <<link, passkey, passkeyMs, hasPasskey, lastTick, giving, stores,
                      asked, askedMs, age, secured, crossed>>
        /\ main \in {"copy flag", "copy passkey", "touches"}
        /\ main' \in {"copy passkey", "touches", "tick"}
    BY <1>5 DEF CopiesFlag, CopiesPasskey, NoReset, appVars, history
  <2>2. model' \in Model
    BY <1>0, <1>5 DEF CopiesFlag, CopiesPasskey, NoReset, PasskeyTypeOK, Model
  <2>3. PasskeyTypeOK'
    BY <1>0, <2>1, <2>2 DEF PasskeyTypeOK
  <2>4. ThreadsOK'
    BY <1>0, <2>1 DEF ThreadsOK, Judging, Resetting
  <2>5. ClockOK' /\ TimeOK' /\ OverdueOK'
    BY <2>1, TimesStay DEF Judging
  <2> QED
    BY <2>1, <2>3, <2>4, <2>5 DEF PasskeyInv
<1>6. CASE ResetBegins
  <2>1. /\ UNCHANGED <<link, passkey, passkeyMs, hasPasskey, lastTick, giving, stores,
                      model, asked, askedMs, age, secured>>
        /\ main = "touches" /\ main' = "reset flag"
        /\ crossed' = (crossed \/ stores # << >>)
    BY <1>6 DEF ResetBegins, HostIsFree, appVars
  <2>2. PasskeyTypeOK'
    BY <1>0, <2>1 DEF PasskeyTypeOK, Resetting
  <2>3. ThreadsOK'
    BY <1>0, <2>1 DEF ThreadsOK, Judging, Resetting
  <2>4. crossed => crossed'
    BY <1>0, <2>1 DEF PasskeyTypeOK
  <2>5. ClockOK' /\ TimeOK' /\ OverdueOK'
    BY <2>1, <2>4, TimesStay DEF Judging
  <2> QED
    BY <2>1, <2>2, <2>3, <2>5 DEF PasskeyInv
<1>7. CASE ResetStores
  <2>1. /\ UNCHANGED <<link, lastTick, giving, stores, model, asked, askedMs, age, secured,
                      crossed>>
        /\ main \in Resetting /\ main' = AfterReset[main]
        /\ hasPasskey' = (hasPasskey /\ main # "reset flag")
        /\ passkey' = IF main = "reset passkey" THEN 0 ELSE passkey
        /\ passkeyMs' = IF main = "reset time" THEN 0 ELSE passkeyMs
    BY <1>7 DEF ResetStores, history
  <2>2. /\ main = "reset flag" => main' = "reset passkey"
        /\ main = "reset passkey" => main' = "reset time"
        /\ main = "reset time" => main' = "tick"
    BY <2>1, Resets
  <2>3. PasskeyTypeOK'
    <3>1. 0 \in Times /\ 0 \in Shown
      BY Constants DEF Times, Shown
    <3> QED
      BY <1>0, <2>1, <2>2, <3>1 DEF PasskeyTypeOK, Resetting
  <2>4. ThreadsOK'
    BY <1>0, <2>1, <2>2 DEF ThreadsOK, Judging, Resetting
  \* A passkey that is up after a store of the reset met it.
  <2>5. ~crossed' => ~hasPasskey' /\ stores' # LastOne
    BY <1>0, <2>1, StoresDiffer DEF ThreadsOK, Resetting
  <2>6. main' # "take down"
    BY <2>1, <2>2 DEF Resetting
  <2>7. ClockOK'
    BY <1>0, <2>1 DEF ClockOK
  <2>8. TimeOK'
    <3>1. passkeyMs' = passkeyMs \/ passkeyMs' = 0
      BY <2>1
    <3>2. UNCHANGED <<stores, askedMs>>
      BY <2>1
    <3> QED
      BY <1>0, <2>5, <3>1, <3>2 DEF TimeOK
  <2>9. OverdueOK'
    <3>1. hasPasskey' => hasPasskey
      BY <2>1
    <3>2. main \notin Judging
      BY <2>1 DEF Judging, Resetting
    <3> QED
      BY <1>0, <2>1, <3>1, <3>2 DEF OverdueOK, AskedBeforeTheWrap
  <2> QED
    BY <2>3, <2>4, <2>6, <2>7, <2>8, <2>9 DEF PasskeyInv
<1> QED
  BY <1>1, <1>2, <1>3, <1>4, <1>5, <1>6, <1>7 DEF MainStep

LEMMA NextPasskey == PasskeyInv /\ [Next]_vars => PasskeyInv'
<1> SUFFICES ASSUME PasskeyInv, [Next]_vars
             PROVE  PasskeyInv'
  OBVIOUS
<1>1. CASE UNCHANGED vars
  <2>1. UNCHANGED <<link, passkey, passkeyMs, hasPasskey, lastTick, giving, stores, main,
                    model, asked, askedMs, age, secured, crossed>>
    BY <1>1 DEF vars, appVars, history
  <2>2. PasskeyTypeOK'
    BY <2>1, ZenonT(60) DEF PasskeyInv, PasskeyTypeOK
  <2>3. ThreadsOK'
    BY <2>1 DEF PasskeyInv, ThreadsOK, Judging, Resetting
  <2>4. ClockOK' /\ TimeOK' /\ OverdueOK'
    BY <2>1, TimesStay
  <2> QED
    BY <2>1, <2>2, <2>3, <2>4 DEF PasskeyInv
<1> QED
  BY <1>1, HostPasskey, MainPasskey DEF Next

\* Where a thread is in on_ble_passkey or in tick, and what the clock says, bounds
\* the age of the passkey in every behaviour.
THEOREM PasskeyInvariant == Spec => []PasskeyInv
  BY InitPasskey, NextPasskey, PTL DEF Spec

\* The three variables that two threads of BuddyApp write without a lock, and all
\* the others, keep their types: the sequence of the stores is one of four.
THEOREM PasskeyTypeCorrect == Spec => []PasskeyTypeOK
<1>1. PasskeyInv => PasskeyTypeOK
  BY DEF PasskeyInv
<1> QED
  BY <1>1, PasskeyInvariant, PTL

\* The comparison of unsigned times in BuddyApp::tick takes every passkey down in
\* time, also one that follows another or meets a reset, but for those asked for in
\* the last DisplayMs before the counter wraps.
THEOREM PasskeyGoesAwayHolds == Spec => []PasskeyGoesAway
<1>1. PasskeyInv => age \in Nat /\ age <= DisplayMs + 1 /\ DisplayMs \in Nat
  BY Numbers, Constants DEF PasskeyInv
<1>2. PasskeyInv => (age <= DisplayMs \/ age = DisplayMs + 1)
  BY <1>1
<1>3. PasskeyInv => PasskeyGoesAway
  BY <1>2 DEF PasskeyInv, OverdueOK, Judging, PasskeyGoesAway
<1> QED
  BY <1>3, PasskeyInvariant, PTL

\* No interleaving of the stores with tick takes a passkey down before its time, if
\* it was asked for while none was up and met no reset.  A passkey that follows
\* another is not covered: tick may have found the older one expired, and then takes
\* the new one down.
THEOREM PasskeyStaysUpHolds == Spec => PasskeyStaysUp
<1>1. PasskeyInv /\ [Next]_vars =>
        [hasPasskey /\ ~hasPasskey' =>
           age > DisplayMs \/ secured \/ crossed \/ main \in Resetting]_vars
  <2> SUFFICES ASSUME PasskeyInv, Next, hasPasskey, ~hasPasskey'
               PROVE  age > DisplayMs \/ secured \/ crossed \/ main \in Resetting
    OBVIOUS
  <2>1. CASE HostStep
    BY <2>1 DEF HostStep, Connected, Disconnected, EncryptInd, HandleBondInfo, OnBlePasskey,
                appVars
  <2>2. CASE TickTakesDown
    BY <2>2 DEF TickTakesDown, PasskeyInv
  <2>3. CASE ResetStores
    BY <2>3 DEF ResetStores
  <2>4. CASE MainStep /\ ~TickTakesDown /\ ~ResetStores
    BY <2>4 DEF MainStep, TickBegins, TickReadsStatus, TickReadsTime, CopiesFlag,
                CopiesPasskey, NoReset, ResetBegins, appVars
  <2> QED
    BY <2>1, <2>2, <2>3, <2>4 DEF Next
<1> QED
  BY <1>1, PasskeyInvariant, PTL DEF Spec, PasskeyStaysUp

-----------------------------------------------------------------------------
(* A passkey comes up.                                                       *)

\* The stack has one passkey at a time given, and that is the one asked for last;
\* it stays stored unless a reset comes.
GaveInv ==
  /\ stores # << >> => giving = asked
  /\ stores \in {LastTwo, LastOne} /\ ~crossed => passkey = SixDigits(asked)

LEMMA NextGave == PasskeyInv /\ GaveInv /\ [Next]_vars => GaveInv'
<1> SUFFICES ASSUME PasskeyInv, GaveInv, [Next]_vars
             PROVE  GaveInv'
  OBVIOUS
<1>1. ThreadsOK
  BY DEF PasskeyInv
<1>2. CASE \E k \in Passkeys : HandleBondInfo(k)
  <2>1. stores' = PasskeyStores /\ giving' = asked'
    BY <1>2 DEF HandleBondInfo
  <2>2. PasskeyStores \notin {LastTwo, LastOne}
    BY DEF PasskeyStores, LastTwo, LastOne
  <2> QED
    BY <2>1, <2>2 DEF GaveInv
<1>3. CASE OnBlePasskey
  <2>1. /\ stores # << >> /\ stores' = Tail(stores) /\ UNCHANGED <<asked, crossed>>
        /\ passkey' = IF Head(stores) = "passkey" THEN SixDigits(giving) ELSE passkey
        /\ giving' = IF Len(stores) = 1 THEN 0 ELSE giving
        /\ giving = asked
    BY <1>3 DEF OnBlePasskey, history, GaveInv
  <2>2. CASE stores = PasskeyStores
    <3>1. stores' = LastTwo /\ passkey' = SixDigits(asked') /\ giving' = asked'
      BY <2>1, <2>2, StoreSequence DEF PasskeyStores
    <3> QED
      BY <3>1 DEF GaveInv
  <2>3. CASE stores = LastTwo
    <3>1. stores' = LastOne /\ passkey' = passkey /\ giving' = asked'
      BY <2>1, <2>3, StoreSequence DEF LastTwo
    <3> QED
      BY <2>1, <2>3, <3>1 DEF GaveInv
  <2>4. CASE stores = LastOne
    BY <2>1, <2>4, StoreSequence, StoresDiffer DEF GaveInv
  <2> QED
    BY <1>1, <2>1, <2>2, <2>3, <2>4 DEF ThreadsOK
<1>4. CASE ResetStores
  <2>1. UNCHANGED <<stores, giving, asked, crossed>> /\ (stores # << >> => crossed)
    BY <1>1, <1>4 DEF ResetStores, history, ThreadsOK
  <2> QED
    BY <2>1, StoresDiffer DEF GaveInv
<1>5. CASE UNCHANGED <<stores, giving, asked, passkey>> /\ (crossed => crossed')
  BY <1>5 DEF GaveInv
<1>6. CASE Connected \/ Disconnected \/ \E on \in BOOLEAN : EncryptInd(on)
  BY <1>5, <1>6 DEF Connected, Disconnected, EncryptInd, appVars, history
<1>7. CASE \E passed \in {0, 1} : TickBegins(passed)
  <2>1. UNCHANGED <<stores, giving, asked, passkey, crossed>>
    BY <1>7 DEF TickBegins, appVars
  <2> QED
    BY <1>5, <2>1
<1>8. CASE TickReadsStatus \/ TickReadsTime \/ TickTakesDown \/ CopiesFlag \/ CopiesPasskey
  BY <1>5, <1>8
  DEF TickReadsStatus, TickReadsTime, TickTakesDown, CopiesFlag, CopiesPasskey, appVars,
      history
<1>9. CASE NoReset \/ ResetBegins
  BY <1>5, <1>9 DEF NoReset, ResetBegins, appVars, history
<1>10. CASE UNCHANGED vars
  BY <1>5, <1>10 DEF vars, appVars, history
<1> QED
  BY <1>2, <1>3, <1>4, <1>6, <1>7, <1>8, <1>9, <1>10 DEF Next, HostStep, MainStep

ComesUpInv == PasskeyInv /\ GaveInv

LEMMA ComesUpInvariant == Spec => []ComesUpInv
<1>1. Init => ComesUpInv
  BY InitPasskey, StoresDiffer DEF Init, GaveInv, ComesUpInv
<1>2. ComesUpInv /\ [Next]_vars => ComesUpInv'
  BY NextPasskey, NextGave DEF ComesUpInv
<1> QED
  BY <1>1, <1>2, PTL DEF Spec

\* What ends the wait for a passkey.
Settled(k) ==
  \/ model = [has |-> TRUE, passkey |-> SixDigits(k)]
  \/ secured \/ asked # k \/ main \in Resetting

\* It is being given, or it is up.  While it is up and the screen has not copied
\* it, at most one tick has passed since its time was noted: the loop looks at it
\* before it can be too old.
BeingGiven(k) == asked = k /\ ~crossed /\ stores # << >>

Young ==
  /\ main \in {"touches", "tick"} \/ (main = "copy passkey" /\ ~model.has)
       => passkeyMs = lastTick
  /\ main \in {"status", "time"}
       => passkeyMs = lastTick \/ lastTick = (passkeyMs + 1) % Word

IsUp(k) ==
  /\ asked = k /\ ~secured /\ main \notin Resetting \cup {"take down"}
  /\ hasPasskey /\ passkey = SixDigits(k)
  /\ Young

\* How many steps of the loop are left until the copy has the passkey.
StepsLeft ==
  IF main = "copy passkey" THEN (IF model.has THEN 1 ELSE 7)
  ELSE IF main = "copy flag" THEN 2
  ELSE IF main = "time" THEN 3
  ELSE IF main = "status" THEN 4
  ELSE IF main = "tick" THEN 5
  ELSE 6

UpWithin(k, n) == IsUp(k) /\ StepsLeft <= n

\* The stores follow each other, and the last one puts the passkey up.
LEMMA GivingGoesOn ==
  ASSUME NEW k \in Passkeys, ComesUpInv, BeingGiven(k), [Next]_vars
  PROVE  \/ Settled(k)'
         \/ BeingGiven(k)' /\ stores' = stores /\ ~OnBlePasskey
         \/ OnBlePasskey /\ stores = PasskeyStores /\ BeingGiven(k)' /\ stores' = LastTwo
         \/ OnBlePasskey /\ stores = LastTwo /\ BeingGiven(k)' /\ stores' = LastOne
         \/ OnBlePasskey /\ stores = LastOne /\ UpWithin(k, 7)'
<1>1. /\ ThreadsOK /\ ~hasPasskey /\ main \notin Resetting /\ main \notin Judging
      /\ age = 0 /\ giving = k /\ PasskeyTypeOK
      /\ stores = LastOne => passkeyMs = askedMs /\ passkey = SixDigits(k)
      /\ ClockOK
  BY DEF TimeOK,  ComesUpInv, PasskeyInv, ThreadsOK, BeingGiven, GaveInv
<1>2. CASE OnBlePasskey
  <2>1. /\ stores' = Tail(stores) /\ UNCHANGED <<asked, crossed, main, secured, lastTick, model>>
        /\ passkey' = IF Head(stores) = "passkey" THEN SixDigits(giving) ELSE passkey
        /\ passkeyMs' = IF Head(stores) = "time" THEN lastTick ELSE passkeyMs
        /\ hasPasskey' = (hasPasskey \/ Head(stores) = "flag")
    BY <1>2 DEF OnBlePasskey, history
  <2>2. CASE stores = PasskeyStores \/ stores = LastTwo
    BY <1>2, <2>1, <2>2, StoreSequence, StoresDiffer DEF BeingGiven
  <2>3. CASE stores = LastOne
    <3>1. hasPasskey' /\ passkey' = SixDigits(k) /\ passkeyMs' = passkeyMs
      BY <1>1, <2>1, <2>3, StoreSequence
    <3>2. passkeyMs = lastTick
      BY <1>1, <2>3, Numbers, Constants DEF ClockOK
    <3>3. main \in {"tick", "copy flag", "copy passkey", "touches"}
      BY <1>1 DEF PasskeyTypeOK, Judging
    <3>4. Young'
      BY <2>1, <3>1, <3>2, <3>3 DEF Young
    <3>5. StepsLeft' <= 7
      BY DEF StepsLeft
    <3>6. CASE secured
      BY <2>1, <3>6 DEF Settled
    <3>7. CASE ~secured
      BY <1>2, <2>1, <2>3, <3>1, <3>3, <3>4, <3>5, <3>7
      DEF UpWithin, IsUp, Resetting, BeingGiven
    <3> QED
      BY <3>6, <3>7
  <2> QED
    BY <1>1, <2>2, <2>3 DEF ThreadsOK, BeingGiven
<1>3. CASE MainStep
  <2>1. /\ UNCHANGED <<asked, stores>> /\ ~OnBlePasskey
        /\ crossed' = crossed \/ main' \in Resetting
    BY <1>3, <1>1
    DEF MainStep, TickBegins, TickReadsStatus, TickReadsTime, TickTakesDown, CopiesFlag,
        CopiesPasskey, NoReset, ResetBegins, ResetStores, history, OnBlePasskey, BeingGiven,
        Resetting
  <2> QED
    BY <2>1 DEF BeingGiven, Settled
<1>4. CASE UNCHANGED vars /\ ~OnBlePasskey
  BY <1>4 DEF vars, history, BeingGiven
<1>5. CASE HostStep /\ ~OnBlePasskey
  BY <1>5 DEF HostStep, Connected, Disconnected, EncryptInd, HandleBondInfo, HostIsFree,
              BeingGiven
<1> QED
  BY <1>2, <1>3, <1>4, <1>5 DEF Next

\* One tick later a passkey is not too old, also when the counter wraps between.
LEMMA YoungIsNotExpired ==
  ASSUME 0 < DisplayMs, PasskeyTypeOK,
         passkeyMs = lastTick \/ lastTick = (passkeyMs + 1) % Word
  PROVE  ~Expired(lastTick, passkeyMs)
<1>1. /\ lastTick \in Nat /\ lastTick < Word /\ passkeyMs \in Nat /\ passkeyMs < Word
      /\ Word \in Nat /\ DisplayMs \in Nat /\ DisplayMs + 1 < Word
  BY Constants, Numbers
<1>2. (passkeyMs + 1) % Word = IF passkeyMs + 1 = Word THEN 0 ELSE passkeyMs + 1
  <2>1. passkeyMs + 1 < Word => (passkeyMs + 1) % Word = passkeyMs + 1
    BY <1>1
  <2>2. Word % Word = 0
    BY <1>1
  <2> QED
    BY <1>1, <2>1, <2>2
<1> QED
  BY <1>1, <1>2 DEF Expired

\* What the host does leaves the loop where it is.
LEMMA HostKeepsUp ==
  ASSUME NEW k \in Passkeys, ComesUpInv, IsUp(k), HostStep
  PROVE  Settled(k)' \/ (IsUp(k)' /\ StepsLeft' = StepsLeft)
<1>1. UNCHANGED <<main, model, lastTick>> /\ StepsLeft' = StepsLeft
  BY DEF HostStep, Connected, Disconnected, EncryptInd, HandleBondInfo, OnBlePasskey, StepsLeft
<1>2. CASE Connected \/ Disconnected \/ \E on \in BOOLEAN : EncryptInd(on)
  <2>1. UNCHANGED <<appVars, asked>>
    BY <1>2 DEF Connected, Disconnected, EncryptInd, history
  <2> QED
    BY <1>1, <2>1 DEF appVars, Settled, IsUp, Young
<1>3. CASE \E p \in Passkeys : HandleBondInfo(p)
  <2>1. UNCHANGED appVars
    BY <1>3 DEF HandleBondInfo
  <2> QED
    BY <1>1, <2>1 DEF appVars, Settled, IsUp, Young
<1>4. CASE OnBlePasskey
  <2>1. /\ giving = k
        /\ passkey' = SixDigits(k) /\ hasPasskey' /\ passkeyMs' \in {passkeyMs, lastTick}
        /\ UNCHANGED <<asked, secured>>
    BY <1>4 DEF OnBlePasskey, history, ComesUpInv, GaveInv, IsUp
  <2>2. Young'
    BY <1>1, <2>1 DEF IsUp, Young
  <2> QED
    BY <1>1, <2>1, <2>2 DEF IsUp
<1> QED
  BY <1>2, <1>3, <1>4 DEF HostStep

\* The loop comes to its copy, and finds the passkey up.
LEMMA LoopComesToCopy ==
  ASSUME 0 < DisplayMs, NEW k \in Passkeys, ComesUpInv, IsUp(k), MainStep
  PROVE  Settled(k)' \/ (IsUp(k)' /\ StepsLeft' < StepsLeft)
<1>0. /\ PasskeyTypeOK /\ link # "encrypted" /\ main \notin Resetting
      /\ asked = k /\ ~secured /\ hasPasskey /\ passkey = SixDigits(k) /\ Young
      /\ main # "take down"
  BY DEF ComesUpInv, PasskeyInv, ThreadsOK, IsUp
<1>1. CASE \E passed \in {0, 1} : TickBegins(passed)
  <2>1. PICK passed \in {0, 1} : TickBegins(passed)
    BY <1>1
  <2>2. /\ main = "tick" /\ main' = "status" /\ UNCHANGED <<asked, secured, appVars>>
        /\ lastTick' = (lastTick + passed) % Word
    BY <1>0, <2>1 DEF TickBegins
  <2>3. lastTick \in Nat /\ lastTick < Word /\ Word \in Nat /\ passkeyMs = lastTick
    BY <1>0, <2>2, Numbers, Constants DEF Young
  <2>4. lastTick % Word = lastTick
    BY <2>3
  <2>5. lastTick' = passkeyMs \/ lastTick' = (passkeyMs + 1) % Word
    BY <2>2, <2>3, <2>4
  <2> QED
    BY <1>0, <2>2, <2>5 DEF appVars, IsUp, Young, StepsLeft, Resetting
<1>2. CASE TickReadsStatus
  <2>1. /\ main = "status" /\ main' = "time" /\ UNCHANGED <<asked, secured, appVars, lastTick>>
    BY <1>0, <1>2 DEF TickReadsStatus, history
  <2> QED
    BY <1>0, <2>1 DEF appVars, IsUp, Young, StepsLeft, Resetting
<1>3. CASE TickReadsTime
  <2>1. main = "time" /\ UNCHANGED <<asked, secured, appVars, lastTick>>
    BY <1>3 DEF TickReadsTime, history
  <2>2. ~Expired(lastTick, passkeyMs)
    BY <1>0, <2>1, YoungIsNotExpired DEF Young
  <2>3. main' = "copy flag"
    BY <1>3, <2>2 DEF TickReadsTime
  <2>4. StepsLeft = 3 /\ StepsLeft' = 2 /\ Young'
    BY <2>1, <2>3 DEF StepsLeft, Young
  <2>5. IsUp(k)'
    BY <1>0, <2>1, <2>3, <2>4 DEF appVars, IsUp, Resetting
  <2> QED
    BY <2>4, <2>5
<1>4. CASE CopiesFlag
  <2>1. /\ main = "copy flag" /\ main' = "copy passkey" /\ model'.has
        /\ UNCHANGED <<asked, secured, appVars, lastTick>>
    BY <1>0, <1>4 DEF CopiesFlag, history, PasskeyTypeOK, Model
  <2>2. StepsLeft = 2 /\ StepsLeft' = 1 /\ Young'
    BY <2>1 DEF StepsLeft, Young
  <2>3. IsUp(k)'
    BY <1>0, <2>1, <2>2 DEF appVars, IsUp, Resetting
  <2> QED
    BY <2>2, <2>3
<1>5. CASE CopiesPasskey
  <2>1. /\ main = "copy passkey" /\ main' = "touches"
        /\ model' = [model EXCEPT !.passkey = passkey]
        /\ UNCHANGED <<asked, secured, appVars, lastTick>>
    BY <1>5 DEF CopiesPasskey, history
  <2>2. CASE model.has
    <3>1. model.has = TRUE
      BY <1>0, <2>2 DEF PasskeyTypeOK, Model
    <3>2. model' = [has |-> model.has, passkey |-> SixDigits(k)]
      BY <1>0, <2>1 DEF PasskeyTypeOK, Model
    <3>3. model' = [has |-> TRUE, passkey |-> SixDigits(k)]
      BY <3>1, <3>2, Zenon
    <3> QED
      BY <3>3 DEF Settled
  <2>3. CASE ~model.has
    <3>1. passkeyMs = lastTick
      BY <1>0, <2>1, <2>3 DEF Young
    <3>2. StepsLeft = 7 /\ StepsLeft' = 6 /\ Young'
      BY <2>1, <2>3, <3>1 DEF StepsLeft, Young, appVars
    <3>3. IsUp(k)'
      BY <1>0, <2>1, <3>2 DEF appVars, IsUp, Resetting
    <3> QED
      BY <3>2, <3>3
  <2> QED
    BY <2>2, <2>3
<1>6. CASE NoReset
  <2>1. /\ main = "touches" /\ main' = "tick" /\ UNCHANGED <<asked, secured, appVars, lastTick>>
    BY <1>6 DEF NoReset, history
  <2> QED
    BY <1>0, <2>1 DEF appVars, IsUp, Young, StepsLeft, Resetting
<1>7. CASE ResetBegins
  BY <1>7 DEF ResetBegins, Settled, Resetting
<1> QED
  BY <1>0, <1>1, <1>2, <1>3, <1>4, <1>5, <1>6, <1>7 DEF MainStep, TickTakesDown, ResetStores

LEMMA UpComesCloser ==
  ASSUME 0 < DisplayMs, NEW k \in Passkeys, NEW n \in 0 .. 6
  PROVE  /\ ComesUpInv /\ UpWithin(k, n + 1) /\ [Next]_vars
              => UpWithin(k, n + 1)' \/ Settled(k)'
         /\ ComesUpInv /\ UpWithin(k, n + 1) /\ <<MainStep>>_vars
              => UpWithin(k, n)' \/ Settled(k)'
<1>1. StepsLeft \in 1 .. 7 /\ StepsLeft' \in 1 .. 7
  BY DEF StepsLeft
<1>2. \A a, b \in 1 .. 7 : a <= n + 1 =>
        /\ b = a => b <= n + 1
        /\ b < a => b <= n + 1 /\ b <= n
  OBVIOUS
<1>3. ASSUME ComesUpInv, UpWithin(k, n + 1), MainStep
      PROVE  (UpWithin(k, n)' /\ UpWithin(k, n + 1)') \/ Settled(k)'
  BY <1>1, <1>2, <1>3, LoopComesToCopy DEF UpWithin
<1>4. ASSUME ComesUpInv, UpWithin(k, n + 1), HostStep
      PROVE  UpWithin(k, n + 1)' \/ Settled(k)'
  BY <1>1, <1>2, <1>4, HostKeepsUp DEF UpWithin
<1>5. ASSUME UpWithin(k, n + 1), UNCHANGED vars
      PROVE  UpWithin(k, n + 1)'
  BY <1>5 DEF UpWithin, IsUp, Young, StepsLeft, vars, appVars, history
<1> QED
  BY <1>3, <1>4, <1>5 DEF Next

\* A passkey that is up comes to be in the screen's copy.
LEMMA UpIsCopied ==
  ASSUME 0 < DisplayMs, NEW k \in Passkeys
  PROVE  Spec /\ []<><<MainStep>>_vars => [](UpWithin(k, 7) => <>Settled(k))
<1>1. Spec /\ []<><<MainStep>>_vars
       => [](UpWithin(k, 7) => <>(UpWithin(k, 4) \/ Settled(k)))
  <2>1. /\ ComesUpInv /\ UpWithin(k, 7) /\ [Next]_vars
             => UpWithin(k, 7)' \/ Settled(k)'
        /\ ComesUpInv /\ UpWithin(k, 7) /\ <<MainStep>>_vars
             => UpWithin(k, 6)' \/ Settled(k)'
    BY UpComesCloser
  <2>2. /\ ComesUpInv /\ UpWithin(k, 6) /\ [Next]_vars
             => UpWithin(k, 6)' \/ Settled(k)'
        /\ ComesUpInv /\ UpWithin(k, 6) /\ <<MainStep>>_vars
             => UpWithin(k, 5)' \/ Settled(k)'
    BY UpComesCloser
  <2>3. /\ ComesUpInv /\ UpWithin(k, 5) /\ [Next]_vars
             => UpWithin(k, 5)' \/ Settled(k)'
        /\ ComesUpInv /\ UpWithin(k, 5) /\ <<MainStep>>_vars
             => UpWithin(k, 4)' \/ Settled(k)'
    BY UpComesCloser
  <2> QED
    BY <2>1, <2>2, <2>3, ComesUpInvariant, PTL DEF Spec
<1>2. Spec /\ []<><<MainStep>>_vars
       => [](UpWithin(k, 4) => <>(UpWithin(k, 2) \/ Settled(k)))
  <2>1. /\ ComesUpInv /\ UpWithin(k, 4) /\ [Next]_vars
             => UpWithin(k, 4)' \/ Settled(k)'
        /\ ComesUpInv /\ UpWithin(k, 4) /\ <<MainStep>>_vars
             => UpWithin(k, 3)' \/ Settled(k)'
    BY UpComesCloser
  <2>2. /\ ComesUpInv /\ UpWithin(k, 3) /\ [Next]_vars
             => UpWithin(k, 3)' \/ Settled(k)'
        /\ ComesUpInv /\ UpWithin(k, 3) /\ <<MainStep>>_vars
             => UpWithin(k, 2)' \/ Settled(k)'
    BY UpComesCloser
  <2> QED
    BY <2>1, <2>2, ComesUpInvariant, PTL DEF Spec
<1>3. Spec /\ []<><<MainStep>>_vars
       => [](UpWithin(k, 2) => <>(UpWithin(k, 0) \/ Settled(k)))
  <2>1. /\ ComesUpInv /\ UpWithin(k, 2) /\ [Next]_vars
             => UpWithin(k, 2)' \/ Settled(k)'
        /\ ComesUpInv /\ UpWithin(k, 2) /\ <<MainStep>>_vars
             => UpWithin(k, 1)' \/ Settled(k)'
    BY UpComesCloser
  <2>2. /\ ComesUpInv /\ UpWithin(k, 1) /\ [Next]_vars
             => UpWithin(k, 1)' \/ Settled(k)'
        /\ ComesUpInv /\ UpWithin(k, 1) /\ <<MainStep>>_vars
             => UpWithin(k, 0)' \/ Settled(k)'
    BY UpComesCloser
  <2> QED
    BY <2>1, <2>2, ComesUpInvariant, PTL DEF Spec
<1>4. ~UpWithin(k, 0)
  BY DEF UpWithin, StepsLeft
<1> QED
  BY <1>1, <1>2, <1>3, <1>4, PTL

\* The callback comes to its end, and the passkey is up.
LEMMA GivenComesUp ==
  ASSUME NEW k \in Passkeys
  PROVE  Spec /\ [](~HostIsFree => <><<OnBlePasskey>>_vars)
           => [](BeingGiven(k) => <>(UpWithin(k, 7) \/ Settled(k)))
<1>1. ComesUpInv /\ BeingGiven(k) /\ stores = PasskeyStores /\ [Next]_vars
        => \/ Settled(k)'
           \/ (BeingGiven(k) /\ stores = PasskeyStores)' /\ ~OnBlePasskey
           \/ (BeingGiven(k) /\ stores = LastTwo)'
  BY GivingGoesOn, StoresDiffer
<1>2. ComesUpInv /\ BeingGiven(k) /\ stores = LastTwo /\ [Next]_vars
        => \/ Settled(k)'
           \/ (BeingGiven(k) /\ stores = LastTwo)' /\ ~OnBlePasskey
           \/ (BeingGiven(k) /\ stores = LastOne)'
  BY GivingGoesOn, StoresDiffer
<1>3. ComesUpInv /\ BeingGiven(k) /\ stores = LastOne /\ [Next]_vars
        => \/ Settled(k)'
           \/ (BeingGiven(k) /\ stores = LastOne)' /\ ~OnBlePasskey
           \/ UpWithin(k, 7)'
  BY GivingGoesOn, StoresDiffer
<1>4. <<OnBlePasskey>>_vars => OnBlePasskey
  OBVIOUS
<1>5. ComesUpInv /\ BeingGiven(k)
        => ~HostIsFree /\ (stores = PasskeyStores \/ stores = LastTwo \/ stores = LastOne)
  BY DEF ComesUpInv, PasskeyInv, ThreadsOK, BeingGiven, HostIsFree
<1> QED
  BY <1>1, <1>2, <1>3, <1>4, <1>5, ComesUpInvariant, PTL DEF Spec

\* A passkey that the stack asks for comes up on the screen (on_ble_passkey, tick and
\* buddy_app_get_ui_model), under the fairness of the two threads.  ENABLED is beyond
\* the provers, so two facts that the guards of the steps show are hypotheses: the
\* loop always has a step to take, and a callback that was called can go on.  A
\* display time of nothing would take a passkey down before it is copied.
THEOREM PasskeyComesUpHolds ==
  ASSUME 0 < DisplayMs
  PROVE     /\ FairSpec
            /\ [](ENABLED <<MainStep>>_vars)
            /\ [](~HostIsFree => ENABLED <<OnBlePasskey>>_vars)
         => PasskeyComesUp
<1>1. ASSUME NEW k \in Passkeys
      PROVE     /\ FairSpec
                /\ [](ENABLED <<MainStep>>_vars)
                /\ [](~HostIsFree => ENABLED <<OnBlePasskey>>_vars)
             => ComesUp(k)
  <2>1. asked = k /\ ~crossed /\ ~HostIsFree => BeingGiven(k)
    BY DEF BeingGiven, HostIsFree
  <2>2. Spec /\ []<><<MainStep>>_vars => [](UpWithin(k, 7) => <>Settled(k))
    BY UpIsCopied
  <2>3. Spec /\ [](~HostIsFree => <><<OnBlePasskey>>_vars)
          => [](BeingGiven(k) => <>(UpWithin(k, 7) \/ Settled(k)))
    BY GivenComesUp
  <2>4. Settled(k) => \/ model = [has |-> TRUE, passkey |-> SixDigits(k)]
                      \/ secured \/ asked # k \/ main \in Resetting
    BY DEF Settled
  <2>5. ~HostIsFree /\ [Next]_vars => <<OnBlePasskey>>_vars \/ ~HostIsFree'
    BY DEF HostIsFree, Next, HostStep, Connected, Disconnected, EncryptInd, HandleBondInfo,
           MainStep, TickBegins, TickReadsStatus, TickReadsTime, TickTakesDown, CopiesFlag,
           CopiesPasskey, NoReset, ResetBegins, ResetStores, vars
  <2>6. /\ FairSpec
        /\ [](ENABLED <<MainStep>>_vars)
        /\ [](~HostIsFree => ENABLED <<OnBlePasskey>>_vars)
     => /\ Spec /\ []<><<MainStep>>_vars
        /\ [](~HostIsFree => <><<OnBlePasskey>>_vars)
    BY <2>5, PTL DEF FairSpec, Spec
  <2> QED
    BY <2>1, <2>2, <2>3, <2>4, <2>6, PTL DEF ComesUp
<1> QED
  BY <1>1 DEF PasskeyComesUp
=============================================================================
