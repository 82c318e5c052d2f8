--------------------------- MODULE PairingPasskey --------------------------
(***************************************************************************)
(* The pairing passkey on its way from the Bluetooth stack to the screen      *)
(* (src/app/src/core/BuddyApp.cpp, the link's events and the bond requests of  *)
(* src/app/src/transport/ble_nus_sifli.c, src/app/src/main.c).  The BLE host    *)
(* thread stores the passkey, its time and a flag, in three stores.  The main   *)
(* loop looks at them in tick, which takes the passkey down, and in the copy     *)
(* that the screen is drawn from; a touch on the settings page resets them.      *)
(* Nothing locks them, so what each thread does is cut at every shared access.  *)
(*                                                                            *)
(* Time is counted in units of 60 s, in a counter that wraps as the one of the   *)
(* milliseconds does.  The three stores take less than a unit.  The shell        *)
(* command buddy_pair reads the flag and the passkey in the order the screen     *)
(* does, and is left out.                                                      *)
(***************************************************************************)
EXTENDS Naturals, Sequences

CONSTANTS Passkeys,       \* what the stack may ask to be shown (confirm_data)
          PasskeyRange,   \* a passkey has six digits: 1000000
          Word,           \* the counter of milliseconds holds 0 .. Word - 1
          DisplayMs       \* kPairingPasskeyDisplayMs

ASSUME PasskeyAssumption ==
  /\ Passkeys \subseteq Nat
  /\ PasskeyRange \in Nat \ {0}
  /\ Word \in Nat /\ DisplayMs \in Nat
  /\ DisplayMs + 1 < Word

VARIABLES link,           \* g_nus.connected and .encrypted: "down", "up", "encrypted"
          passkey, passkeyMs, hasPasskey,   \* of BuddyApp
          lastTick,       \* BuddyApp::last_tick_ms_
          giving,         \* the passkey on_ble_passkey was called with
          stores,         \* the stores it has still to do
          main,           \* where the main loop is
          model,          \* has_pairing_passkey and pairing_passkey of the screen's copy
          asked,          \* history: the passkey asked for last, 0 at first
          askedMs,        \* history: the time of the last tick at that moment
          age,            \* history: the time since, no further than DisplayMs + 1
          secured,        \* history: the link has been encrypted since
          crossed         \* history: it met an older passkey, or a reset

appVars == <<passkey, passkeyMs, hasPasskey>>
history == <<asked, askedMs, age, secured, crossed>>
vars == <<link, appVars, lastTick, giving, stores, main, model, history>>

Times == 0 .. Word - 1
SixDigits(k) == k % PasskeyRange
Shown == 0 .. PasskeyRange - 1
Model == [has : BOOLEAN, passkey : Shown]
Resetting == {"reset flag", "reset passkey", "reset time"}
Stores == {"passkey", "time", "flag"}

Init ==
  /\ link = "down"
  /\ passkey = 0 /\ passkeyMs = 0 /\ hasPasskey = FALSE
  /\ lastTick = 0
  /\ giving = 0 /\ stores = << >>
  /\ main = "tick"
  /\ model = [has |-> FALSE, passkey |-> 0]
  /\ asked = 0 /\ askedMs = 0 /\ age = 0 /\ secured = FALSE /\ crossed = FALSE

-----------------------------------------------------------------------------
(* The BLE host thread.  A definition marked FAULT is a plausible bug of the  *)
(* one that follows it.                                                       *)

HostIsFree == stores = << >>

Connected ==
  /\ HostIsFree /\ link = "down"
  /\ link' = "up"
  /\ UNCHANGED <<appVars, lastTick, giving, stores, main, model, history>>

Disconnected ==
  /\ HostIsFree /\ link # "down"
  /\ link' = "down"
  /\ UNCHANGED <<appVars, lastTick, giving, stores, main, model, history>>

\* The event that the encryption changed: it takes what the manager says.
EncryptInd(on) ==
  /\ HostIsFree /\ link # "down"
  /\ link' = IF on THEN "encrypted" ELSE "up"
  /\ secured' = (secured \/ on)
  /\ UNCHANGED <<appVars, lastTick, giving, stores, main, model, asked, askedMs, age,
                 crossed>>

\* FAULT: the passkey is announced before its time is known.
PasskeyStoresFlagFirst == <<"passkey", "flag", "time">>

PasskeyStores == <<"passkey", "time", "flag">>

\* on_ble_passkey is called: a request for a passkey to display, or for two
\* numbers to compare.  The other bond requests are answered and change nothing.
HandleBondInfo(k) ==
  /\ HostIsFree /\ link # "down"
  /\ giving' = k
  /\ stores' = PasskeyStores
  /\ asked' = k /\ askedMs' = lastTick /\ age' = 0 /\ secured' = (link = "encrypted")
  /\ crossed' = (hasPasskey \/ main \in Resetting)
  /\ UNCHANGED <<link, appVars, lastTick, main, model>>

OnBlePasskey ==
  /\ stores # << >>
  /\ stores' = Tail(stores)
  /\ passkey' = IF Head(stores) = "passkey" THEN SixDigits(giving) ELSE passkey
  /\ passkeyMs' = IF Head(stores) = "time" THEN lastTick ELSE passkeyMs
  /\ hasPasskey' = (hasPasskey \/ Head(stores) = "flag")
  /\ giving' = IF Len(stores) = 1 THEN 0 ELSE giving
  /\ UNCHANGED <<link, lastTick, main, model, history>>

HostStep ==
  \/ Connected \/ Disconnected
  \/ \E on \in BOOLEAN : EncryptInd(on)
  \/ \E k \in Passkeys : HandleBondInfo(k)
  \/ OnBlePasskey

-----------------------------------------------------------------------------
(* The main loop: tick, then the screen's copy, then the touches.            *)

\* FAULT: the passkey goes with the last moment of its time, not after it.
ExpiredEarly(now, since) == now >= since /\ now - since >= DisplayMs

\* FAULT: the time only counts while somebody is connected.
ExpiredWhileUp(now, since) ==
  link # "down" /\ now >= since /\ now - since > DisplayMs

Expired(now, since) == now >= since /\ now - since > DisplayMs

\* Up to the test of the flag.
TickBegins(passed) ==
  /\ main = "tick"
  /\ passed = 0 \/ HostIsFree
  /\ lastTick' = (lastTick + passed) % Word
  /\ age' = IF age + passed > DisplayMs THEN DisplayMs + 1 ELSE age + passed
  /\ main' = IF hasPasskey THEN "status" ELSE "copy flag"
  /\ UNCHANGED <<link, appVars, giving, stores, model, asked, askedMs, secured,
                 crossed>>

\* runtime_status, with is_encrypted.
TickReadsStatus ==
  /\ main = "status"
  /\ main' = IF link = "encrypted" THEN "take down" ELSE "time"
  /\ UNCHANGED <<link, appVars, lastTick, giving, stores, model, history>>

TickReadsTime ==
  /\ main = "time"
  /\ main' = IF Expired(lastTick, passkeyMs) THEN "take down" ELSE "copy flag"
  /\ UNCHANGED <<link, appVars, lastTick, giving, stores, model, history>>

TickTakesDown ==
  /\ main = "take down"
  /\ hasPasskey' = FALSE
  /\ main' = "copy flag"
  /\ UNCHANGED <<link, passkey, passkeyMs, lastTick, giving, stores, model, history>>

\* buddy_app_get_ui_model: the flag first, the passkey further down.
CopiesFlag ==
  /\ main = "copy flag"
  /\ model' = [model EXCEPT !.has = hasPasskey]
  /\ main' = "copy passkey"
  /\ UNCHANGED <<link, appVars, lastTick, giving, stores, history>>

CopiesPasskey ==
  /\ main = "copy passkey"
  /\ model' = [model EXCEPT !.passkey = passkey]
  /\ main' = "touches"
  /\ UNCHANGED <<link, appVars, lastTick, giving, stores, history>>

NoReset ==
  /\ main = "touches"
  /\ main' = "tick"
  /\ UNCHANGED <<link, appVars, lastTick, giving, stores, model, history>>

\* BuddyApp::factory_reset, once the protocol's own has succeeded; one that
\* failed changes nothing here.
ResetBegins ==
  /\ main = "touches"
  /\ main' = "reset flag"
  /\ crossed' = (crossed \/ ~HostIsFree)
  /\ UNCHANGED <<link, appVars, lastTick, giving, stores, model, asked, askedMs, age,
                 secured>>

AfterReset ==
  [s \in Resetting |-> CASE s = "reset flag"    -> "reset passkey"
                         [] s = "reset passkey" -> "reset time"
                         [] s = "reset time"    -> "tick"]

ResetStores ==
  /\ main \in Resetting
  /\ hasPasskey' = (hasPasskey /\ main # "reset flag")
  /\ passkey' = IF main = "reset passkey" THEN 0 ELSE passkey
  /\ passkeyMs' = IF main = "reset time" THEN 0 ELSE passkeyMs
  /\ main' = AfterReset[main]
  /\ UNCHANGED <<link, lastTick, giving, stores, model, history>>

MainStep ==
  \/ \E passed \in {0, 1} : TickBegins(passed)
  \/ TickReadsStatus \/ TickReadsTime \/ TickTakesDown
  \/ CopiesFlag \/ CopiesPasskey
  \/ NoReset \/ ResetBegins \/ ResetStores

Next == HostStep \/ MainStep

Spec == Init /\ [][Next]_vars

\* The main loop never ends or waits for long, and a callback runs to its end.
FairSpec == Spec /\ WF_vars(MainStep) /\ WF_vars(OnBlePasskey)

-----------------------------------------------------------------------------
(* Properties                                                               *)

PasskeyTypeOK ==
  /\ link \in {"down", "up", "encrypted"}
  /\ passkey \in Shown /\ passkeyMs \in Times /\ hasPasskey \in BOOLEAN
  /\ lastTick \in Times
  /\ giving \in Passkeys \cup {0} /\ stores \in Seq(Stores)
  /\ main \in Resetting \cup {"tick", "status", "time", "take down",
                              "copy flag", "copy passkey", "touches"}
  /\ model \in Model
  /\ asked \in Passkeys \cup {0} /\ askedMs \in Times /\ age \in 0 .. DisplayMs + 1
  /\ secured \in BOOLEAN /\ crossed \in BOOLEAN

\* A passkey that is asked for while none is up is in the screen's copy before
\* long, unless the link is encrypted, a reset comes, or the stack asks for
\* another one first.
ComesUp(k) ==
  asked = k /\ ~crossed /\ ~HostIsFree
    ~> \/ model = [has |-> TRUE, passkey |-> SixDigits(k)]
       \/ secured \/ asked # k \/ main \in Resetting

PasskeyComesUp == \A k \in Passkeys : ComesUp(k)

\* A passkey that was asked for while none was up, and met no reset, is taken down
\* only when its time is over, when the link has been encrypted since, or by a
\* reset that comes later.  One that follows another (crossed) has no such promise:
\* when tick has found the older one expired just before the flag is stored again,
\* it takes the new one down.
PasskeyStaysUp ==
  [][hasPasskey /\ ~hasPasskey' =>
       age > DisplayMs \/ secured \/ crossed \/ main \in Resetting]_vars

\* No passkey outlives its time, with or without a desktop, also one that follows
\* another or meets a reset: after each tick, what is up was asked for DisplayMs ago
\* at most.  Excepted are those asked for in the last DisplayMs before the counter
\* wraps, whose end the comparison does not see.
AskedBeforeTheWrap == askedMs + DisplayMs + 1 >= Word

PasskeyGoesAway ==
  main = "copy flag" /\ HostIsFree /\ hasPasskey
    => age <= DisplayMs \/ AskedBeforeTheWrap
=============================================================================
