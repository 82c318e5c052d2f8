--------------------------- MODULE BuddyUiProofs ---------------------------
(***************************************************************************)
(* Proofs about the user interface: the pages of BuddyScreens, for any number   *)
(* of animations that may run at a time; the pet of BuddyHome, for any width of *)
(* the counter of milliseconds and any age at which a snapshot is stale; and the *)
(* pictures of the built-in characters, at every tick there is.              *)
(***************************************************************************)
EXTENDS BuddyScreens, BuddyHome, FiniteSetTheorems, WellFoundedInduction, TLAPS

In(page) == [page |-> page, kind |-> "in"]
Out(page) == [page |-> page, kind |-> "out"]

\* Only the page on view slides in, and it is sliding in as long as another
\* page is to be seen or it is not in its place.
PagesOK ==
  /\ view \in Views /\ oldPage \in Views \cup {NoPage}
  /\ visible \subseteq Views
  /\ anims \subseteq Anims

OnlyTheViewComesIn == \A a \in anims : a.kind = "in" <=> a.page = view

SlidesIn == In(view) \in anims /\ visible = {view, oldPage} /\ oldPage # view

\* The inductive invariant.  PagesSettle alone does not say which animation is
\* to hide the page that leaves: an animation that ends first could be the
\* one of another page.
Sliding ==
  /\ PagesOK
  /\ OnlyTheViewComesIn
  /\ visible = {view} \/ SlidesIn
  /\ view \in shifted => In(view) \in anims

LEMMA PagesAreNoNone == NoPage \notin Views
  BY DEF NoPage, Views, Screens

LEMMA InitSliding == Init => Sliding
  BY DEF Init, Sliding, PagesOK, OnlyTheViewComesIn, Views, Screens

\* What StartAnim leaves: no older animation of the page.
LEMMA Started ==
  ASSUME NEW running, NEW page, NEW kind
  PROVE  /\ [page |-> page, kind |-> kind] \in StartAnim(running, page, kind)
         /\ \A a \in StartAnim(running, page, kind) :
              \/ a = [page |-> page, kind |-> kind]
              \/ a \in running /\ a.page # page
         /\ \A a \in running : a.page # page => a \in StartAnim(running, page, kind)
  BY DEF StartAnim

\* A view slides in over the one before.
LEMMA ShowViewSliding ==
  ASSUME Sliding, NEW v \in Views, v # view, ShowView(v)
  PROVE  Sliding'
<1> DEFINE leaving == StartAnim(anims, view, "out")
<1>1. /\ view' = v /\ visible' = {view, v} /\ oldPage' = view
      /\ anims' = StartAnim(leaving, v, "in")
      /\ view \in Views
  BY DEF ShowView, Sliding, PagesOK
<1>2. In(v) \in anims'
  BY <1>1, Started DEF In
<1>3. \A a \in leaving : a = Out(view) \/ (a \in anims /\ a.page # view)
  BY Started DEF Out
<1>4. \A a \in anims' : a = In(v) \/ (a \in leaving /\ a.page # v)
  BY <1>1, Started DEF In
<1> HIDE DEF leaving
<1>5. PagesOK'
  <2>1. In(v) \in Anims /\ Out(view) \in Anims
    BY <1>1 DEF In, Out, Anims
  <2>2. anims' \subseteq Anims
    BY <1>3, <1>4, <2>1 DEF Sliding, PagesOK
  <2> QED
    BY <1>1, <2>2 DEF PagesOK
<1>6. OnlyTheViewComesIn'
  <2> SUFFICES ASSUME NEW a \in anims'
               PROVE  a.kind = "in" <=> a.page = v
    BY <1>1 DEF OnlyTheViewComesIn
  <2>1. CASE a = In(v)
    BY <2>1 DEF In
  <2>2. CASE a = Out(view) /\ a.page # v
    BY <2>2 DEF Out
  <2>3. CASE a \in anims /\ a.page # view /\ a.page # v
    BY <2>3 DEF Sliding, OnlyTheViewComesIn
  <2> QED
    BY <1>3, <1>4, <2>1, <2>2, <2>3
<1>7. SlidesIn'
  BY <1>1, <1>2 DEF SlidesIn
<1> QED
  BY <1>1, <1>2, <1>5, <1>6, <1>7 DEF Sliding

LEMMA ShowSliding ==
  ASSUME Sliding, NEW v \in Views, Show(v)
  PROVE  Sliding'
<1>1. CASE v # view
  BY <1>1, ShowViewSliding DEF Show
<1>2. CASE v = view
  BY <1>2 DEF Show, pageVars, Sliding, PagesOK, OnlyTheViewComesIn, SlidesIn
<1> QED
  BY <1>1, <1>2

\* An animation ends.  That of the view hides the page that left; another one
\* leaves the view where it is.
LEMMA AnimEndsSliding ==
  ASSUME Sliding, NEW a \in Anims, AnimEnds(a)
  PROVE  Sliding'
<1>1. /\ a \in anims /\ anims' = anims \ {a} /\ view' = view
      /\ a = [page |-> a.page, kind |-> a.kind]
      /\ a.kind \in {"in", "out"}
  BY DEF AnimEnds, Anims
<1>2. OnlyTheViewComesIn'
  BY <1>1 DEF Sliding, OnlyTheViewComesIn
<1>3. CASE a.kind = "in"
  <2>1. a.page = view
    BY <1>1, <1>3 DEF Sliding, OnlyTheViewComesIn
  <2>2. PageAnimReady(view)
    BY <1>3, <2>1 DEF AnimEnds
  <2>3. visible' = {view} /\ oldPage' = NoPage /\ view \notin shifted'
    BY <2>2, PagesAreNoNone DEF PageAnimReady, Sliding, SlidesIn, PagesOK
  <2>4. PagesOK'
    BY <1>1, <2>3 DEF Sliding, PagesOK
  <2> QED
    BY <1>1, <1>2, <2>3, <2>4 DEF Sliding
<1>4. CASE a.kind = "out"
  <2>1. a.page # view
    BY <1>1, <1>4 DEF Sliding, OnlyTheViewComesIn
  <2>2. UNCHANGED <<visible, oldPage>> /\ shifted' = shifted \cup {a.page}
    BY <1>4 DEF AnimEnds
  <2>3. In(view) \in anims => In(view) \in anims'
    BY <1>1, <2>1 DEF In
  <2>4. PagesOK'
    BY <1>1, <2>2 DEF Sliding, PagesOK
  <2>5. visible' = {view'} \/ SlidesIn'
    BY <1>1, <2>2, <2>3 DEF Sliding, SlidesIn
  <2>6. view' \in shifted' => In(view') \in anims'
    BY <1>1, <2>1, <2>2, <2>3 DEF Sliding
  <2> QED
    BY <1>2, <2>4, <2>5, <2>6 DEF Sliding
<1> QED
  BY <1>1, <1>3, <1>4

\* The keys and the items of the settings keep the navigation in its type.
Nav == [screen : Screens, index : 0 .. SettingsCount - 1, armed : BOOLEAN]

LEMMA UseItemTyped ==
  ASSUME NEW n \in Nav, NEW i, NEW ok
  PROVE  UseItem(n, i, ok) \in Nav
<1>1. AtHome \in Nav
  BY DEF AtHome, Nav, Screens, SettingsCount
<1>2. [n EXCEPT !.armed = TRUE] \in Nav
  BY DEF Nav
<1> QED
  BY <1>1, <1>2 DEF UseItem, RunFactoryReset

LEMMA AdjustTyped ==
  ASSUME NEW n \in Nav, NEW ok
  PROVE  AdjustSettings(n, ok) \in Nav
<1>1. UseItem(n, n.index, ok) \in Nav
  BY UseItemTyped
<1>2. \A k \in 0 .. 5 : (k + 1) % 6 \in 0 .. 5
  OBVIOUS
<1> QED
  BY <1>1, <1>2 DEF AdjustSettings, Nav, SettingsCount

LEMMA ProcessTyped ==
  ASSUME NEW n \in Nav, NEW prompt \in BOOLEAN, NEW actions, NEW yes
  PROVE  ProcessActions(n, prompt, actions, yes) \in Nav
<1>1. \A x \in Nav : Menu(x, actions) \in Nav
  BY DEF Menu, Nav, Screens
<1>2. \A x \in Nav : NextScreen(x, actions) \in Nav
  <2> SUFFICES ASSUME NEW x \in Nav
               PROVE  NextScreen(x, actions) \in Nav
    OBVIOUS
  <2>1. Following[x.screen] \in Screens
    BY DEF Nav, Following, Screens
  <2> QED
    BY <2>1 DEF NextScreen, Nav
<1>3. \A x \in Nav : Secondary(x, actions, yes) \in Nav
  BY AdjustTyped DEF Secondary
<1> QED
  BY <1>1, <1>2, <1>3 DEF ProcessActions

LEMMA ViewsTyped ==
  ASSUME NEW m \in Models, NEW n \in Nav
  PROVE  EffectiveView(m, n) \in Views
  BY DEF Models, EffectiveView, Views, Nav

Inv == nav \in Nav /\ Sliding

LEMMA InitInv == Init => Inv
  BY InitSliding DEF Inv, Init, AtHome, Nav, Screens, SettingsCount

LEMMA NextInv == Inv /\ [Next]_vars => Inv'
<1> SUFFICES ASSUME Inv, [Next]_vars
             PROVE  Inv'
  OBVIOUS
<1> USE DEF Inv
<1>1. ASSUME NEW prompt \in BOOLEAN, NEW after \in Models, NEW keys \in SUBSET Keys,
             TakesKeys(prompt, after, keys)
      PROVE  Inv'
  <2>1. nav' \in Nav
    BY <1>1, ProcessTyped DEF TakesKeys
  <2>2. Show(EffectiveView(after, nav'))
    BY <1>1 DEF TakesKeys
  <2> QED
    BY <2>1, <2>2, ViewsTyped, ShowSliding
<1>2. ASSUME NEW m \in Models, Redraws(m)
      PROVE  Inv'
  BY <1>2, ViewsTyped, ShowSliding DEF Redraws
<1>3. ASSUME NEW i \in 0 .. SettingsCount - 1, ToggleSetting(i)
      PROVE  Inv'
  BY <1>3, UseItemTyped
     DEF ToggleSetting, pageVars, Sliding, PagesOK, OnlyTheViewComesIn, SlidesIn
<1>4. ASSUME NEW a \in Anims, AnimEnds(a)
      PROVE  Inv'
  BY <1>4, AnimEndsSliding DEF AnimEnds
<1>5. CASE UNCHANGED vars
  BY <1>5 DEF vars, pageVars, Sliding, PagesOK, OnlyTheViewComesIn, SlidesIn
<1> QED
  BY <1>1, <1>2, <1>3, <1>4, <1>5 DEF Next

LEMMA InvSettles == Inv => PagesSettle
<1> SUFFICES ASSUME Inv
             PROVE  PagesSettle
  OBVIOUS
<1>1. view \in visible
  BY DEF Inv, Sliding, SlidesIn
<1>2. Cardinality(visible) <= 2
  <2>1. CASE visible = {view}
    <3>1. Cardinality({view}) = 1
      BY FS_Singleton
    <3> QED
      BY <2>1, <3>1
  <2>2. CASE visible = {view, oldPage} /\ oldPage # view
    <3>1. IsFiniteSet({view}) /\ Cardinality({view}) = 1
      BY FS_Singleton
    <3>2. Cardinality({view} \cup {oldPage}) = 2
      BY <2>2, <3>1, FS_AddElement
    <3>3. visible = {view} \cup {oldPage}
      BY <2>2
    <3> QED
      BY <3>2, <3>3
  <2> QED
    BY <2>1, <2>2 DEF Inv, Sliding, SlidesIn
<1>3. anims = {} => visible = {view} /\ view \notin shifted
  BY DEF Inv, Sliding, SlidesIn
<1> QED
  BY <1>1, <1>2, <1>3 DEF PagesSettle

\* However keys, prompts and passkeys interrupt the slides, and however many run at
\* a time, the page of the view is to be seen, at most one other is with it, and
\* it stands alone and in place in the end.
THEOREM PagesSettleHolds == Spec => []PagesSettle
  BY InitInv, NextInv, InvSettles, PTL DEF Spec

-----------------------------------------------------------------------------
(* The pet of the home page.                                                *)

\* The age that the device computes from its counter is the true one as long as
\* the counter has not wrapped, a snapshot that is not old is as old as the counter
\* says across one wrap, and what was never heard has the time 0.
AgeIsTrue ==
  /\ ~heard => snapshot.lastMs = 0
  /\ heard /\ ~wrapped =>
       /\ snapshot.lastMs <= lastTick
       /\ silence = IF lastTick - snapshot.lastMs <= StaleMs
                    THEN lastTick - snapshot.lastMs ELSE StaleMs + 1
  /\ heard /\ silence <= StaleMs =>
       \/ lastTick = snapshot.lastMs + silence
       \/ lastTick + Word = snapshot.lastMs + silence

HomeInv == HomeTypeOK /\ AgeIsTrue

LEMMA TickWraps ==
  ASSUME NEW t \in 0 .. Word - 1
  PROVE  /\ (t + 1) % Word \in 0 .. Word - 1
         /\ \/ t + 1 = Word /\ (t + 1) % Word = 0
            \/ (t + 1) % Word = t + 1
<1>1. Word \in Nat /\ Word > 0 /\ t \in Nat /\ t + 1 <= Word
  BY HomeAssumption
<1>2. CASE t + 1 = Word
  BY <1>1, <1>2
<1>3. CASE t + 1 < Word
  BY <1>1, <1>3
<1> QED
  BY <1>1, <1>2, <1>3

LEMMA NextSpeciesIsValid ==
  ASSUME NEW s \in Nat, IsValidSpecies(s), NEW there \in BOOLEAN
  PROVE  IsValidSpecies(NextSpecies(s, there)) /\ NextSpecies(s, there) \in Nat
<1>1. SpeciesCount \in Nat /\ 0 < SpeciesCount
  BY DEF SpeciesCount, kSpeciesTable
<1> QED
  BY <1>1 DEF NextSpecies, IsValidSpecies, EffectiveSpecies, PrefersGif, GifSentinel

LEMMA InitHome == HomeInit => HomeInv
<1> SUFFICES ASSUME HomeInit PROVE HomeInv
  OBVIOUS
<1>1. Word \in Nat /\ Word > 0 /\ StaleMs \in Nat /\ 0 \in 0 .. Word - 1
  BY HomeAssumption
<1>2. NoSnapshot \in Snapshot /\ NoSnapshot.lastMs = 0
  BY <1>1 DEF NoSnapshot, Snapshot
<1>3. species \in Nat /\ IsValidSpecies(species)
  BY DEF HomeInit, GifSentinel
<1>4. 0 \in 0 .. StaleMs + 1
  BY <1>1
<1> QED
  BY <1>1, <1>2, <1>3, <1>4 DEF HomeInit, HomeInv, HomeTypeOK, AgeIsTrue

\* A step that leaves the clock and the snapshot alone.
LEMMA PetStep ==
  ASSUME HomeInv, UNCHANGED <<snapshot, lastTick, heard, silence, wrapped>>,
         species' \in Nat, IsValidSpecies(species'), gif' \in BOOLEAN,
         connected' \in BOOLEAN
  PROVE  HomeInv'
BY DEF HomeInv, HomeTypeOK, AgeIsTrue, IsValidSpecies

LEMMA ResetStep == HomeInv /\ FactoryReset => HomeInv'
<1> SUFFICES ASSUME HomeInv, FactoryReset PROVE HomeInv'
  OBVIOUS
<1>1. Word \in Nat /\ Word > 0 /\ StaleMs \in Nat /\ 0 \in 0 .. Word - 1
  BY HomeAssumption
<1>2. NoSnapshot \in Snapshot /\ NoSnapshot.lastMs = 0
  BY <1>1 DEF NoSnapshot, Snapshot
<1>3. 0 \in 0 .. StaleMs + 1
  BY <1>1
<1>4. species' \in Nat /\ IsValidSpecies(species')
  BY DEF FactoryReset, IsValidSpecies, GifSentinel
<1> QED
  BY <1>2, <1>3, <1>4 DEF FactoryReset, HomeInv, HomeTypeOK, AgeIsTrue, IsValidSpecies

LEMMA SnapshotStep ==
  ASSUME HomeInv, NEW prompt \in BOOLEAN, NEW running \in BOOLEAN,
         HandleSnapshot(prompt, running)
  PROVE  HomeInv'
<1>1. lastTick \in 0 .. Word - 1 /\ lastTick \in Int /\ StaleMs \in Nat
  BY HomeAssumption DEF HomeInv, HomeTypeOK
<1>2. snapshot' \in Snapshot /\ snapshot'.lastMs = lastTick
  BY <1>1 DEF HandleSnapshot, Snapshot
<1>3. 0 \in 0 .. StaleMs + 1 /\ lastTick - lastTick = 0 /\ 0 <= StaleMs
      /\ lastTick <= lastTick
  BY <1>1
<1>4. HomeTypeOK'
  BY <1>1, <1>2, <1>3 DEF HandleSnapshot, HomeInv, HomeTypeOK, IsValidSpecies
<1>5. AgeIsTrue'
  <2>1. lastTick = lastTick + 0
    BY <1>1
  <2> QED
    BY <1>2, <1>3, <2>1 DEF HandleSnapshot, AgeIsTrue
<1> QED
  BY <1>4, <1>5 DEF HomeInv

LEMMA TickStep == HomeInv /\ Tick => HomeInv'
<1> SUFFICES ASSUME HomeInv, Tick PROVE HomeInv'
  OBVIOUS
<1> DEFINE at == snapshot.lastMs
<1>1. lastTick \in 0 .. Word - 1 /\ at \in 0 .. Word - 1
      /\ silence \in 0 .. StaleMs + 1
  BY DEF HomeInv, HomeTypeOK, Snapshot
<1>2. Word \in Nat /\ Word > 0 /\ StaleMs \in Nat /\ lastTick \in Int /\ at \in Int
      /\ silence \in Int
  BY <1>1, HomeAssumption
<1>3. /\ lastTick' \in 0 .. Word - 1
      /\ (lastTick + 1 = Word /\ lastTick' = 0) \/ lastTick' = lastTick + 1
  BY <1>1, TickWraps DEF Tick
<1>4. silence' \in 0 .. StaleMs + 1
  BY <1>1, <1>2 DEF Tick
<1>5. snapshot' = snapshot /\ heard' = heard
  BY DEF Tick
<1>6. HomeTypeOK'
  BY <1>3, <1>4, <1>5 DEF Tick, HomeInv, HomeTypeOK, IsValidSpecies
<1>7. ASSUME heard', ~wrapped'
      PROVE  /\ at <= lastTick'
             /\ silence' = IF lastTick' - at <= StaleMs THEN lastTick' - at ELSE StaleMs + 1
  <2>1. lastTick' = lastTick + 1 /\ heard /\ ~wrapped
    BY <1>3, <1>7 DEF Tick
  <2>2. /\ at <= lastTick
        /\ silence = IF lastTick - at <= StaleMs THEN lastTick - at ELSE StaleMs + 1
    BY <2>1 DEF HomeInv, AgeIsTrue
  <2>3. silence' = IF silence > StaleMs THEN silence ELSE silence + 1
    BY DEF Tick
  <2> HIDE DEF at
  <2> QED
    BY <1>2, <2>1, <2>2, <2>3
<1>8. ASSUME heard', silence' <= StaleMs
      PROVE  lastTick' = at + silence' \/ lastTick' + Word = at + silence'
  <2>1. silence' = IF silence > StaleMs THEN silence ELSE silence + 1
    BY DEF Tick
  <2>2. silence <= StaleMs /\ silence' = silence + 1
    BY <1>2, <1>8, <2>1
  <2>3. lastTick = at + silence \/ lastTick + Word = at + silence
    BY <1>5, <1>8, <2>2 DEF HomeInv, AgeIsTrue
  <2>4. StaleMs < Word
    BY HomeAssumption
  <2> HIDE DEF at
  <2>5. CASE lastTick' = lastTick + 1
    BY <1>2, <2>2, <2>3, <2>5
  <2>6. CASE lastTick + 1 = Word /\ lastTick' = 0
    <3>1. lastTick + Word # at + silence
      BY <1>1, <1>2, <2>2, <2>4, <2>6
    <3> QED
      BY <1>2, <2>2, <2>3, <2>6, <3>1
  <2> QED
    BY <1>3, <2>5, <2>6
<1>9. AgeIsTrue'
  BY <1>5, <1>7, <1>8 DEF HomeInv, AgeIsTrue
<1> QED
  BY <1>6, <1>9 DEF HomeInv

LEMMA NextHome == HomeInv /\ [HomeNext]_homeVars => HomeInv'
<1> SUFFICES ASSUME HomeInv, [HomeNext]_homeVars
             PROVE  HomeInv'
  OBVIOUS
<1> USE DEF HomeInv
<1>1. species \in Nat /\ IsValidSpecies(species) /\ gif \in BOOLEAN /\ connected \in BOOLEAN
  BY DEF HomeTypeOK
<1>2. CASE CyclePet
  BY <1>1, <1>2, NextSpeciesIsValid, PetStep DEF CyclePet
<1>3. ASSUME NEW s \in Species \cup {GifSentinel}, HandleSpecies(s)
      PROVE  HomeInv'
  <2>1. s \in Nat
    BY DEF Species, GifSentinel
  <2> QED
    BY <1>1, <1>3, <2>1, PetStep DEF HandleSpecies
<1>4. CASE PackageChanges
  BY <1>1, <1>4, PetStep DEF PackageChanges
<1>5. CASE LinkChanges
  BY <1>1, <1>5, PetStep DEF LinkChanges
<1>6. CASE UNCHANGED homeVars
  BY <1>1, <1>6, PetStep DEF homeVars
<1> QED
  BY <1>2, <1>3, <1>4, <1>5, <1>6, ResetStep, SnapshotStep, TickStep DEF HomeNext

\* The species is always the GIF or one that the table of characters holds, and a
\* time of the counter is one that the counter can show, through every command,
\* key, reset and wrap.
THEOREM HomeTypeCorrect == HomeSpec => []HomeTypeOK
<1>1. HomeInv => HomeTypeOK
  BY DEF HomeInv
<1> QED
  BY <1>1, InitHome, NextHome, PTL DEF HomeSpec

LEMMA AwakeWhenHeard == HomeInv => PetIsAwakeWhenHeard
<1> SUFFICES ASSUME HomeInv, ~snapshot.hasPrompt, heard => snapshot.lastMs # 0
             PROVE  /\ connected /\ heard /\ silence <= StaleMs => Persona # "SLEEP"
                    /\ Persona # "SLEEP" =>
                         connected /\ heard /\ (silence <= StaleMs \/ wrapped)
  BY DEF PetIsAwakeWhenHeard
<1> DEFINE at == snapshot.lastMs
<1>1. /\ at \in Int /\ lastTick \in Int /\ silence \in Int /\ StaleMs \in Nat
      /\ Word \in Nat /\ StaleMs < Word
  BY HomeAssumption DEF HomeInv, HomeTypeOK, Snapshot
<1>2. heard <=> snapshot.lastMs # 0
  BY DEF HomeInv, AgeIsTrue
<1>3. ASSUME heard, ~wrapped, ~Stale(snapshot.lastMs, lastTick)
      PROVE  silence <= StaleMs
  <2>1. /\ at <= lastTick
        /\ silence = IF lastTick - at <= StaleMs THEN lastTick - at ELSE StaleMs + 1
    BY <1>3 DEF HomeInv, AgeIsTrue
  <2>2. ~(lastTick >= at /\ lastTick - at > StaleMs)
    BY <1>3 DEF Stale
  <2> HIDE DEF at
  <2> QED
    BY <1>1, <2>1, <2>2
<1>4. ASSUME heard, silence <= StaleMs
      PROVE  ~Stale(snapshot.lastMs, lastTick)
  <2>1. lastTick = at + silence \/ lastTick + Word = at + silence
    BY <1>4 DEF HomeInv, AgeIsTrue
  <2> HIDE DEF at
  <2>2. ~(lastTick >= at /\ lastTick - at > StaleMs)
    BY <1>1, <1>4, <2>1
  <2> QED
    BY <2>2 DEF Stale, at
<1>5. Persona # "SLEEP" <=>
        connected /\ snapshot.lastMs # 0 /\ ~Stale(snapshot.lastMs, lastTick)
  BY DEF Persona
<1> QED
  BY <1>2, <1>3, <1>4, <1>5

\* buddy_app_persona_from_status, which knows the time of the last snapshot and the
\* uptime only, keeps the pet awake while a desktop is connected that has sent a
\* snapshot in the last StaleMs, whether the uptime wraps or not, and lets it sleep
\* otherwise, unless the uptime has wrapped since the last snapshot.
THEOREM PetIsAwakeWhenHeardHolds == HomeSpec => []PetIsAwakeWhenHeard
  BY InitHome, NextHome, AwakeWhenHeard, PTL DEF HomeSpec

-----------------------------------------------------------------------------
(* The round of the pets.                                                    *)

\* Induction over a set of naturals, for what a recursive function computes.
LEMMA SetOfAllNat ==
  ASSUME NEW T \in SUBSET Nat, 0 \in T, \A n \in T : n + 1 \in T
  PROVE  T = Nat
<1>1. SUFFICES ASSUME Nat \ T # {}
               PROVE  FALSE
  OBVIOUS
<1>2. PICK m \in Nat \ T : \A y \in Nat \ T : ~(<<y, m>> \in OpToRel(<, Nat))
  BY <1>1, NatLessThanWellFounded, WFMin
<1>3. \A y \in Nat \ T : ~(y < m)
  BY <1>2 DEF OpToRel
<1>4. m \in Nat /\ m # 0 /\ m \notin T
  OBVIOUS
<1>5. m - 1 \in Nat /\ (m - 1) + 1 = m /\ m - 1 < m
  BY <1>4
<1> QED
  BY <1>3, <1>4, <1>5

\* What the presses select one after the other, of which the first n are made here.
PressesFrom(f, s, there, n) ==
  f = [k \in 0 .. n |-> IF k = 0 THEN s ELSE NextSpecies(f[k - 1], there)]

\* A function with the equations of AfterPresses exists, so CHOOSE finds one.
LEMMA PressesExist ==
  ASSUME NEW s, NEW there, NEW n \in Nat
  PROVE  \E f : PressesFrom(f, s, there, n)
<1> DEFINE T == {k \in Nat : \E f : PressesFrom(f, s, there, k)}
<1>1. 0 \in T
  <2> DEFINE f == [k \in 0 .. 0 |-> s]
  <2>1. \A k \in 0 .. 0 : k = 0
    OBVIOUS
  <2>2. PressesFrom(f, s, there, 0)
    BY <2>1 DEF PressesFrom
  <2> QED
    BY <2>2
<1>2. ASSUME NEW k \in T
      PROVE  k + 1 \in T
  <2>1. PICK f : PressesFrom(f, s, there, k)
    OBVIOUS
  <2> DEFINE next == NextSpecies(f[k], there)
             g == [i \in 0 .. k + 1 |-> IF i = k + 1 THEN next ELSE f[i]]
  <2> HIDE DEF next
  <2>2. \A i \in 0 .. k : g[i] = f[i]
    OBVIOUS
  <2>3. ASSUME NEW i \in 0 .. k + 1
        PROVE  g[i] = IF i = 0 THEN s ELSE NextSpecies(g[i - 1], there)
    <3>1. CASE i = k + 1
      <4>1. g[i] = next /\ i # 0 /\ i - 1 = k /\ k \in 0 .. k
        BY <3>1
      <4>2. next = NextSpecies(g[k], there)
        BY <2>2, <4>1 DEF next
      <4> QED
        BY <4>1, <4>2
    <3>2. CASE i # k + 1
      <4>1. i \in 0 .. k /\ (i # 0 => i - 1 \in 0 .. k)
        BY <3>2
      <4>2. f[i] = IF i = 0 THEN s ELSE NextSpecies(f[i - 1], there)
        BY <2>1, <4>1 DEF PressesFrom
      <4>3. g[i] = f[i] /\ (i # 0 => g[i - 1] = f[i - 1])
        BY <2>2, <4>1
      <4> HIDE DEF g
      <4> QED
        BY <4>2, <4>3
    <3> QED
      BY <3>1, <3>2
  <2>4. g = [i \in 0 .. k + 1 |-> g[i]]
    OBVIOUS
  <2> HIDE DEF g
  <2>5. PressesFrom(g, s, there, k + 1)
    BY <2>3, <2>4 DEF PressesFrom
  <2> QED
    BY <2>5
<1> HIDE DEF T
<1>3. T = Nat
  BY <1>1, <1>2, SetOfAllNat DEF T
<1> QED
  BY <1>3 DEF T

\* The place of a selection in the round: the GIF, if it is there, comes last.
Rank(s, there) == IF PrefersGif(s) /\ there THEN SpeciesCount ELSE EffectiveSpecies(s)

LEMMA PressesAre ==
  ASSUME NEW there \in BOOLEAN
  PROVE  /\ SpeciesCount \in Nat /\ 0 < SpeciesCount /\ SpeciesCount < GifSentinel
         /\ Presses(there) = SpeciesCount + (IF there THEN 1 ELSE 0)
<1>1. SpeciesCount \in Nat /\ 0 < SpeciesCount /\ SpeciesCount < GifSentinel
  BY DEF SpeciesCount, kSpeciesTable, GifSentinel
<1>2. Cardinality(0 .. SpeciesCount - 1)
        = IF 0 > SpeciesCount - 1 THEN 0 ELSE (SpeciesCount - 1) - 0 + 1
  BY <1>1, 0 \in Int, SpeciesCount - 1 \in Int, FS_Interval
<1>3. Cardinality(Species) = SpeciesCount
  BY <1>1, <1>2 DEF Species
<1> QED
  BY <1>1, <1>3 DEF Presses

\* A press moves on by one place, and from the last to the first.
LEMMA PressMovesOn ==
  ASSUME NEW s \in Nat, IsValidSpecies(s), NEW there \in BOOLEAN
  PROVE  /\ Rank(s, there) \in 0 .. Presses(there) - 1
         /\ Rank(NextSpecies(s, there), there)
              = IF Rank(s, there) + 1 = Presses(there) THEN 0 ELSE Rank(s, there) + 1
         /\ ShownPet(s, there) = IF Rank(s, there) = SpeciesCount THEN GifSentinel
                                 ELSE Rank(s, there)
<1>1. /\ SpeciesCount \in Nat /\ 0 < SpeciesCount /\ SpeciesCount < GifSentinel
      /\ GifSentinel \in Nat
      /\ Presses(there) = SpeciesCount + (IF there THEN 1 ELSE 0)
  BY PressesAre DEF GifSentinel
<1> QED
  BY <1>1 DEF Rank, NextSpecies, ShownPet, PrefersGif, EffectiveSpecies, IsValidSpecies

\* By induction on the presses: each of them shows the pet as many places further
\* on, around the round.
LEMMA RankAfterPresses ==
  ASSUME NEW s \in Nat, IsValidSpecies(s), NEW there \in BOOLEAN,
         NEW f, PressesFrom(f, s, there, Presses(there))
  PROVE  \A n \in 0 .. Presses(there) :
           /\ f[n] \in Nat /\ IsValidSpecies(f[n])
           /\ Rank(f[n], there) = IF Rank(s, there) + n < Presses(there)
                                  THEN Rank(s, there) + n
                                  ELSE (Rank(s, there) + n) - Presses(there)
<1> DEFINE P == Presses(there)
           r == Rank(s, there)
           RankIs(n) == /\ f[n] \in Nat /\ IsValidSpecies(f[n])
                        /\ Rank(f[n], there) = IF r + n < P THEN r + n ELSE (r + n) - P
           T == {n \in Nat : n <= P => RankIs(n)}
<1>1. P \in Nat /\ P > 0
  BY PressesAre
<1>2. r \in 0 .. P - 1
  BY PressMovesOn
<1>3. \A n \in 0 .. P : f[n] = IF n = 0 THEN s ELSE NextSpecies(f[n - 1], there)
  BY DEF PressesFrom
<1> HIDE DEF P, r
<1>4. 0 \in T
  <2>1. f[0] = s /\ r + 0 = r /\ r < P
    BY <1>1, <1>2, <1>3
  <2> QED
    BY <2>1 DEF r
<1>5. ASSUME NEW n \in T
      PROVE  n + 1 \in T
  <2> SUFFICES ASSUME n + 1 <= P
               PROVE  RankIs(n + 1)
    OBVIOUS
  <2>1. /\ n \in Nat /\ n <= P /\ n + 1 \in 0 .. P /\ n + 1 # 0 /\ (n + 1) - 1 = n
    BY <1>1
  <2>2. RankIs(n)
    BY <2>1
  <2> DEFINE q == Rank(f[n], there)
  <2>3. f[n + 1] = NextSpecies(f[n], there)
    BY <1>3, <2>1
  <2>4. /\ f[n + 1] \in Nat /\ IsValidSpecies(f[n + 1])
        /\ Rank(f[n + 1], there) = IF q + 1 = P THEN 0 ELSE q + 1
    BY <2>2, <2>3, NextSpeciesIsValid, PressMovesOn DEF P
  <2>5. q = IF r + n < P THEN r + n ELSE (r + n) - P
    BY <2>2
  <2> HIDE DEF q
  <2>6. (IF q + 1 = P THEN 0 ELSE q + 1)
          = IF r + (n + 1) < P THEN r + (n + 1) ELSE (r + (n + 1)) - P
    BY <1>1, <1>2, <2>1, <2>5
  <2> QED
    BY <2>4, <2>6
<1>6. T \in SUBSET Nat
  OBVIOUS
<1> HIDE DEF T
<1>7. T = Nat
  BY <1>4, <1>5, <1>6, SetOfAllNat
<1>8. ASSUME NEW n \in 0 .. P
      PROVE  RankIs(n)
  <2>1. n \in T /\ n <= P
    BY <1>1, <1>7
  <2> QED
    BY <2>1 DEF T
<1> QED
  BY <1>8 DEF P, r

\* One round passes every place once.
LEMMA RoundReachesEveryPet ==
  ASSUME NEW s \in Nat, IsValidSpecies(s), NEW there \in BOOLEAN,
         NEW f, PressesFrom(f, s, there, Presses(there))
  PROVE  {ShownPet(f[n], there) : n \in 1 .. Presses(there)}
           = Species \cup (IF there THEN {GifSentinel} ELSE {})
<1> DEFINE P == Presses(there)
           r == Rank(s, there)
           shown == {ShownPet(f[n], there) : n \in 1 .. P}
           all == Species \cup (IF there THEN {GifSentinel} ELSE {})
           Pet(k) == IF k = SpeciesCount THEN GifSentinel ELSE k
<1>1. /\ P \in Nat /\ P > 0 /\ SpeciesCount \in Nat
      /\ P = SpeciesCount + (IF there THEN 1 ELSE 0)
      /\ r \in 0 .. P - 1
  BY PressesAre, PressMovesOn
<1>2. ASSUME NEW n \in 0 .. P
      PROVE  /\ Rank(f[n], there) = IF r + n < P THEN r + n ELSE (r + n) - P
             /\ ShownPet(f[n], there) = Pet(Rank(f[n], there))
             /\ Rank(f[n], there) \in 0 .. P - 1
  BY RankAfterPresses, PressMovesOn
<1>3. all = {Pet(k) : k \in 0 .. P - 1}
  <2>1. CASE there
    <3>1. P - 1 = SpeciesCount /\ all = Species \cup {GifSentinel}
      BY <1>1, <2>1
    <3>2. \A k \in 0 .. SpeciesCount : k = SpeciesCount \/ k \in Species
      BY <1>1 DEF Species
    <3>3. \A k \in Species : k \in 0 .. SpeciesCount /\ k # SpeciesCount
      BY <1>1 DEF Species
    <3>4. SpeciesCount \in 0 .. SpeciesCount
      BY <1>1
    <3> HIDE DEF P
    <3> QED
      BY <3>1, <3>2, <3>3, <3>4
  <2>2. CASE ~there
    <3>1. P - 1 = SpeciesCount - 1 /\ all = Species
      BY <1>1, <2>2
    <3>2. \A k \in Species : k # SpeciesCount
      BY <1>1 DEF Species
    <3> HIDE DEF P
    <3> QED
      BY <3>1, <3>2 DEF Species
  <2> QED
    BY <2>1, <2>2
<1> HIDE DEF P, r, all
<1>4. \A n \in 1 .. P : n \in 0 .. P
  BY <1>1
<1>5. ASSUME NEW k \in 0 .. P - 1
      PROVE  \E n \in 1 .. P : Rank(f[n], there) = k
  <2> DEFINE n == IF k > r THEN k - r ELSE (k - r) + P
  <2>1. n \in 1 .. P /\ n \in 0 .. P
    BY <1>1
  <2>2. (IF r + n < P THEN r + n ELSE (r + n) - P) = k
    BY <1>1
  <2> HIDE DEF n
  <2> QED
    BY <1>2, <2>1, <2>2
<1>6. shown \subseteq all
  BY <1>2, <1>3, <1>4
<1>7. all \subseteq shown
  BY <1>2, <1>3, <1>4, <1>5
<1> QED
  BY <1>6, <1>7 DEF P, all

\* One round of presses on the pet item (buddy_ui_cycle_pet) shows every built-in
\* character, and the GIF if there is one, from whatever is selected.
THEOREM CycleReachesEveryPetHolds == HomeSpec => []CycleReachesEveryPet
<1>1. HomeInv => CycleReachesEveryPet
  <2> SUFFICES ASSUME HomeInv
               PROVE  CycleReachesEveryPet
    OBVIOUS
  <2>1. species \in Nat /\ IsValidSpecies(species) /\ gif \in BOOLEAN
    BY DEF HomeInv, HomeTypeOK
  <2>2. Presses(gif) \in Nat
    BY <2>1, PressesAre
  <2> DEFINE after == CHOOSE f : PressesFrom(f, species, gif, Presses(gif))
  <2>3. AfterPresses(gif) = after
    BY DEF AfterPresses, PressesFrom
  <2>4. PressesFrom(after, species, gif, Presses(gif))
    BY <2>2, PressesExist
  <2> HIDE DEF after
  <2> QED
    BY <2>1, <2>3, <2>4, RoundReachesEveryPet DEF CycleReachesEveryPet
<1> QED
  BY <1>1, InitHome, NextHome, PTL DEF HomeSpec

-----------------------------------------------------------------------------
(* The built-in characters.                                                 *)

\* A table of the source with n entries, all of them in a range.
Table(table, n, range) ==
  Len(table) = n /\ DOMAIN table = 1 .. n /\ \A i \in 1 .. n : table[i] \in range

\* An order of poses.
Lists(seq, n, poses) == Table(seq, n, 0 .. poses - 1)

\* What the tables of an animation owe the renderer: as many shifts as beats, and
\* none that would push a line out of the frame.
Fits(anim, n, poses) ==
  /\ anim.beatTicks \in {3, 4, 5} /\ anim.poses = poses /\ anim.widest \in 1 .. 20
  /\ \A seq : seq = anim.seq => Lists(seq, n, poses)
  /\ \A dx : dx = anim.dx => dx = << >> \/ Table(dx, n, -4 .. 4)
  /\ \A dy : dy = anim.dy => dy = << >> \/ Table(dy, n, -8 .. 0)
  /\ \A shake : shake = anim.shake => \A p \in DOMAIN shake : shake[p] \in 0 .. 4

IsWellMade(anim) == \E n, poses \in Nat \ {0} : Fits(anim, n, poses)

LEMMA FitsIsWellMade ==
  ASSUME NEW anim, NEW n \in Nat \ {0}, NEW poses \in Nat \ {0}, Fits(anim, n, poses)
  PROVE  IsWellMade(anim)
BY DEF IsWellMade

\* The renderer.  A line of at most 20 characters, moved by at most 4 to a side, is
\* put into as many cells side by side, all of them in the frame.
LEMMA CellsOfALine ==
  ASSUME NEW len \in 1 .. 20, NEW dx \in -4 .. 4, NEW y \in 0 .. 79
  PROVE  Cardinality(LineCells(len, y, dx)) = len
<1> DEFINE first == LineStart(len, dx) \div 6
           row == y \div 8
           cells == LineCells(len, y, dx)
<1>1. /\ LineStart(len, dx) \in 3 .. 68 /\ LineStart(len, dx) + 6 * (len - 1) <= 125
      /\ BUDDY_CHAR_W = 6 /\ BUDDY_CHAR_H = 8
      /\ BUDDY_ASCII_COLS - 1 = 23 /\ BUDDY_ASCII_ROWS - 1 = 9
  <2>1. /\ BUDDY_CHAR_W = 6 /\ BUDDY_CHAR_H = 8
        /\ BUDDY_ASCII_COLS - 1 = 23 /\ BUDDY_ASCII_ROWS - 1 = 9
    BY DEF BUDDY_CHAR_W, BUDDY_CHAR_H, BUDDY_ASCII_COLS, BUDDY_ASCII_ROWS
  <2>2. (len * 6) \div 2 = 3 * len
    OBVIOUS
  <2>3. LineStart(len, dx) = (67 - (len * 6) \div 2) + dx
    BY DEF LineStart, BUDDY_X_CENTER, BUDDY_CHAR_W
  <2>4. (67 - 3 * len) + dx \in 3 .. 68 /\ ((67 - 3 * len) + dx) + 6 * (len - 1) <= 125
    OBVIOUS
  <2> QED
    BY <2>1, <2>2, <2>3, <2>4
<1>2. \A i \in 0 .. len - 1 :
        /\ Column(LineStart(len, dx) + i * 6) = first + i
        /\ first + i \in 0 .. 23
  <2>1. \A s \in 3 .. 68 : \A n \in 1 .. 20 : \A i \in 0 .. n - 1 :
          s + 6 * (n - 1) <= 125
            => /\ s + i * 6 >= 0 /\ (s + i * 6) \div 6 = (s \div 6) + i
               /\ (s \div 6) + i \in 0 .. 23
    OBVIOUS
  <2> HIDE DEF first
  <2>2. first = LineStart(len, dx) \div 6
    BY DEF first
  <2> QED
    BY <1>1, <2>1, <2>2 DEF Column, BUDDY_CHAR_W
<1>3. Row(y) = row /\ row \in 0 .. 9
  BY DEF Row, BUDDY_CHAR_H
<1> HIDE DEF row, first
<1>4. cells = {<<first + i, row>> : i \in 0 .. len - 1}
  <2>1. \A i \in 0 .. len - 1 : /\ Column(LineStart(len, dx) + i * BUDDY_CHAR_W) = first + i
                                 /\ InFrame(<<first + i, row>>)
    BY <1>1, <1>2, <1>3 DEF InFrame
  <2>2. {<<Column(LineStart(len, dx) + i * BUDDY_CHAR_W), Row(y)>> : i \in 0 .. len - 1}
          = {<<first + i, row>> : i \in 0 .. len - 1}
    BY <1>3, <2>1
  <2> QED
    BY <2>1, <2>2 DEF LineCells
<1> HIDE DEF cells
<1> DEFINE put == [i \in 0 .. len - 1 |-> <<first + i, row>>]
<1>5. first \in Int
  BY <1>1 DEF first
<1>6. put \in Bijection(0 .. len - 1, cells)
  <2>1. \A i, j \in 0 .. len - 1 : put[i] = put[j] => i = j
    <3>1. \A i, j \in 0 .. len - 1 : first + i = first + j => i = j
      BY <1>5
    <3> QED
      BY <3>1
  <2>2. \A c \in cells : \E i \in 0 .. len - 1 : put[i] = c
    BY <1>4
  <2>3. put \in [0 .. len - 1 -> cells]
    BY <1>4
  <2> HIDE DEF put
  <2> QED
    BY <2>1, <2>2, <2>3 DEF Bijection, Injection, Surjection, IsInjective
<1>7. IsFiniteSet(0 .. len - 1) /\ Cardinality(0 .. len - 1) = len
  <2>1. 0 \in Int /\ len - 1 \in Int /\ ~(0 > len - 1) /\ (len - 1) - 0 + 1 = len
    OBVIOUS
  <2> QED
    BY <2>1, FS_Interval
<1> HIDE DEF put
<1>8. ExistsBijection(0 .. len - 1, cells)
  BY <1>6 DEF ExistsBijection
<1> QED
  BY <1>7, <1>8, FS_Bijection DEF cells

\* A sprite no wider than 20 is drawn whole up to 4 to a side, 8 up and 1 down, and
\* each of its lines is in the row below the one before.
LEMMA SpriteIsDrawnWhole ==
  ASSUME NEW anim, NEW t, anim.widest \in 1 .. 20,
         ShiftX(anim, t) \in -4 .. 4, ShiftY(anim, t) \in -8 .. 1
  PROVE  DrawnWhole(anim, t)
<1> DEFINE dy == ShiftY(anim, t)
<1>1. \A d \in -8 .. 1 : \A line \in 0 .. SpriteLines - 1 : SpriteLine(line, d) \in 0 .. 79
  BY DEF SpriteLines, SpriteLine, BUDDY_Y_BASE, BUDDY_CHAR_H
<1>2. \A d \in -8 .. 1 : \A line \in 0 .. SpriteLines - 1 :
        line > 0 => Row(SpriteLine(line, d)) = Row(SpriteLine(line - 1, d)) + 1
  BY DEF SpriteLines, SpriteLine, Row, BUDDY_Y_BASE, BUDDY_CHAR_H
<1> QED
  BY <1>1, <1>2, CellsOfALine DEF DrawnWhole

\* The beats of a well made animation count its poses up and start again.
LEMMA BeatInTable ==
  ASSUME NEW b \in {3, 4, 5}, NEW n \in Nat \ {0}, NEW t \in Nat
  PROVE  (t \div b) % n \in 0 .. n - 1
<1>1. t \div b \in Nat
  BY b = 3 \/ b = 4 \/ b = 5
<1>2. \A q \in Nat : q % n \in 0 .. n - 1
  OBVIOUS
<1> QED
  BY <1>1, <1>2

\* At every tick a well made animation has a pose and its shifts, which are small.
LEMMA FitsAtEveryTick ==
  ASSUME NEW anim, NEW n \in Nat \ {0}, NEW poses \in Nat \ {0}, Fits(anim, n, poses),
         NEW t \in Nat
  PROVE  /\ TablesCover(anim, t) /\ DrawnWhole(anim, t)
         /\ PoseAt(anim, t) \in 0 .. anim.poses - 1
<1> DEFINE beat == Beat(anim, t)
<1>1. /\ anim.beatTicks \in {3, 4, 5} /\ anim.poses = poses /\ anim.widest \in 1 .. 20
      /\ Table(anim.seq, n, 0 .. poses - 1)
      /\ anim.dx = << >> \/ Table(anim.dx, n, -4 .. 4)
      /\ anim.dy = << >> \/ Table(anim.dy, n, -8 .. 0)
      /\ \A p \in DOMAIN anim.shake : anim.shake[p] \in 0 .. 4
  BY DEF Fits, Lists
<1>2. beat \in 0 .. n - 1 /\ beat + 1 \in 1 .. n
  <2>1. Len(anim.seq) = n
    BY <1>1 DEF Table
  <2>2. beat \in 0 .. n - 1
    BY <1>1, <2>1, BeatInTable DEF Beat
  <2> QED
    BY <2>2
<1> HIDE DEF beat
<1>3. PoseAt(anim, t) \in 0 .. poses - 1
  BY <1>1, <1>2 DEF Table, PoseAt, At, beat
<1>4. TablesCover(anim, t)
  BY <1>1, <1>2, <1>3 DEF Table, TablesCover, beat
<1>5. ShiftX(anim, t) \in -4 .. 4
  <2>1. CASE anim.dx # << >>
    BY <1>1, <1>2, <2>1 DEF Table, ShiftX, At, beat
  <2>2. CASE anim.dx = << >> /\ PoseAt(anim, t) \in DOMAIN anim.shake
    <3>1. anim.shake[PoseAt(anim, t)] \in 0 .. 4
      BY <1>1, <2>2
    <3>2. \A k \in 0 .. 4 : 1 * k \in -4 .. 4 /\ (-1) * k \in -4 .. 4
      OBVIOUS
    <3> QED
      BY <2>2, <3>1, <3>2 DEF ShiftX
  <2>3. CASE anim.dx = << >> /\ PoseAt(anim, t) \notin DOMAIN anim.shake
    BY <2>3 DEF ShiftX
  <2> QED
    BY <2>1, <2>2, <2>3
<1>6. ShiftY(anim, t) \in -8 .. 1
  <2>1. CASE anim.dy # << >>
    <3>1. anim.dy[beat + 1] \in -8 .. 0
      BY <1>1, <1>2, <2>1 DEF Table
    <3>2. ShiftY(anim, t) = anim.dy[beat + 1]
      BY <2>1 DEF ShiftY, At, beat
    <3> QED
      BY <3>1, <3>2
  <2>2. CASE anim.dy = << >>
    BY <2>2 DEF ShiftY
  <2> QED
    BY <2>1, <2>2
<1> QED
  BY <1>1, <1>3, <1>4, <1>5, <1>6, SpriteIsDrawnWhole

\* The tables of each character, read off one by one.
LEMMA CapybaraFits == \A state \in States : IsWellMade(Capybara[state])
<1>1. Fits(Capybara.SLEEP, 24, 6)
  BY SMTT(60) DEF Fits, Lists, Table, Capybara, Anim
<1>2. Fits(Capybara.IDLE, 30, 10)
  <2>1. Lists(CapybaraIdle, 30, 10)
    BY SMTT(60) DEF Lists, Table, CapybaraIdle
  <2>2. Capybara.IDLE = Anim(5, 10, 12, CapybaraIdle)
    BY DEF Capybara
  <2> QED
    BY <2>1, <2>2 DEF Fits, Anim
<1>3. Fits(Capybara.BUSY, 21, 6)
  BY SMTT(60) DEF Fits, Lists, Table, Capybara, Anim
<1>4. Fits(Capybara.ATTENTION, 16, 6)
  BY SMTT(60) DEF Fits, Lists, Table, Capybara, Anim, Shaking, Only
<1>5. Fits(Capybara.CELEBRATE, 16, 6)
  BY SMTT(60) DEF Fits, Lists, Table, Capybara, Anim, Bobbing
<1>6. Fits(Capybara.DIZZY, 14, 5)
  BY SMTT(60) DEF Fits, Lists, Table, Capybara, Anim, Swaying
<1>7. Fits(Capybara.HEART, 20, 5)
  BY SMTT(60) DEF Fits, Lists, Table, Capybara, Anim, Bobbing
<1> QED
  BY <1>1, <1>2, <1>3, <1>4, <1>5, <1>6, <1>7, FitsIsWellMade DEF States

LEMMA DuckFits == \A state \in States : IsWellMade(Duck[state])
<1>1. Fits(Duck.SLEEP, 23, 6)
  BY SMTT(60) DEF Fits, Lists, Table, Duck, Anim
<1>2. Fits(Duck.IDLE, 30, 10)
  <2>1. Lists(DuckIdle, 30, 10)
    BY SMTT(60) DEF Lists, Table, DuckIdle
  <2>2. Duck.IDLE = Anim(5, 10, 9, DuckIdle)
    BY DEF Duck
  <2> QED
    BY <2>1, <2>2 DEF Fits, Anim
<1>3. Fits(Duck.BUSY, 23, 6)
  BY SMTT(60) DEF Fits, Lists, Table, Duck, Anim
<1>4. Fits(Duck.ATTENTION, 16, 6)
  BY SMTT(60) DEF Fits, Lists, Table, Duck, Anim, Shaking, Only
<1>5. Fits(Duck.CELEBRATE, 16, 6)
  BY SMTT(60) DEF Fits, Lists, Table, Duck, Anim, Bobbing
<1>6. Fits(Duck.DIZZY, 14, 5)
  BY SMTT(60) DEF Fits, Lists, Table, Duck, Anim, Swaying
<1>7. Fits(Duck.HEART, 20, 5)
  BY SMTT(60) DEF Fits, Lists, Table, Duck, Anim, Bobbing
<1> QED
  BY <1>1, <1>2, <1>3, <1>4, <1>5, <1>6, <1>7, FitsIsWellMade DEF States

LEMMA GooseFits == \A state \in States : IsWellMade(Goose[state])
<1>1. Fits(Goose.SLEEP, 24, 6)
  BY SMTT(60) DEF Fits, Lists, Table, Goose, Anim
<1>2. Fits(Goose.IDLE, 29, 10)
  <2>1. Lists(GooseIdle, 29, 10)
    BY SMTT(60) DEF Lists, Table, GooseIdle
  <2>2. Goose.IDLE = Anim(5, 10, 8, GooseIdle)
    BY DEF Goose
  <2> QED
    BY <2>1, <2>2 DEF Fits, Anim
<1>3. Fits(Goose.BUSY, 21, 6)
  BY SMTT(60) DEF Fits, Lists, Table, Goose, Anim
<1>4. Fits(Goose.ATTENTION, 16, 6)
  BY SMTT(60) DEF Fits, Lists, Table, Goose, Anim, Shaking
<1>5. Fits(Goose.CELEBRATE, 16, 6)
  BY SMTT(60) DEF Fits, Lists, Table, Goose, Anim, Bobbing
<1>6. Fits(Goose.DIZZY, 14, 5)
  BY SMTT(60) DEF Fits, Lists, Table, Goose, Anim, Swaying
<1>7. Fits(Goose.HEART, 20, 5)
  BY SMTT(60) DEF Fits, Lists, Table, Goose, Anim, Bobbing
<1> QED
  BY <1>1, <1>2, <1>3, <1>4, <1>5, <1>6, <1>7, FitsIsWellMade DEF States

LEMMA BlobFits == \A state \in States : IsWellMade(Blob[state])
<1>1. Fits(Blob.SLEEP, 25, 6)
  BY SMTT(60) DEF Fits, Lists, Table, Blob, Anim
<1>2. Fits(Blob.IDLE, 39, 10)
  <2>1. Lists(BlobIdle, 39, 10)
    BY SMTT(60) DEF Lists, Table, BlobIdle
  <2>2. Blob.IDLE = Anim(5, 10, 10, BlobIdle)
    BY DEF Blob
  <2> QED
    BY <2>1, <2>2 DEF Fits, Anim
<1>3. Fits(Blob.BUSY, 21, 6)
  BY SMTT(60) DEF Fits, Lists, Table, Blob, Anim
<1>4. Fits(Blob.ATTENTION, 20, 7)
  BY SMTT(60) DEF Fits, Lists, Table, Blob, Anim, Shaking, Only
<1>5. Fits(Blob.CELEBRATE, 16, 6)
  BY SMTT(60) DEF Fits, Lists, Table, Blob, Anim, Bobbing
<1>6. Fits(Blob.DIZZY, 14, 5)
  BY SMTT(60) DEF Fits, Lists, Table, Blob, Anim, Swaying
<1>7. Fits(Blob.HEART, 20, 5)
  BY SMTT(60) DEF Fits, Lists, Table, Blob, Anim, Bobbing
<1> QED
  BY <1>1, <1>2, <1>3, <1>4, <1>5, <1>6, <1>7, FitsIsWellMade DEF States

LEMMA CatFits == \A state \in States : IsWellMade(Cat[state])
<1>1. Fits(Cat.SLEEP, 26, 6)
  BY SMTT(60) DEF Fits, Lists, Table, Cat, Anim
<1>2. Fits(Cat.IDLE, 37, 10)
  <2>1. Lists(CatIdle, 37, 10)
    BY SMTT(60) DEF Lists, Table, CatIdle
  <2>2. Cat.IDLE = Anim(5, 10, 9, CatIdle)
    BY DEF Cat
  <2> QED
    BY <2>1, <2>2 DEF Fits, Anim
<1>3. Fits(Cat.BUSY, 21, 6)
  BY SMTT(60) DEF Fits, Lists, Table, Cat, Anim
<1>4. Fits(Cat.ATTENTION, 16, 6)
  BY SMTT(60) DEF Fits, Lists, Table, Cat, Anim, Shaking, Only
<1>5. Fits(Cat.CELEBRATE, 16, 6)
  BY SMTT(60) DEF Fits, Lists, Table, Cat, Anim, Bobbing
<1>6. Fits(Cat.DIZZY, 14, 5)
  BY SMTT(60) DEF Fits, Lists, Table, Cat, Anim, Swaying
<1>7. Fits(Cat.HEART, 20, 5)
  BY SMTT(60) DEF Fits, Lists, Table, Cat, Anim, Bobbing
<1> QED
  BY <1>1, <1>2, <1>3, <1>4, <1>5, <1>6, <1>7, FitsIsWellMade DEF States

LEMMA DragonFits == \A state \in States : IsWellMade(Dragon[state])
<1>1. Fits(Dragon.SLEEP, 27, 6)
  BY SMTT(60) DEF Fits, Lists, Table, Dragon, Anim
<1>2. Fits(Dragon.IDLE, 34, 10)
  <2>1. Lists(DragonIdle, 34, 10)
    BY SMTT(60) DEF Lists, Table, DragonIdle
  <2>2. Dragon.IDLE = Anim(5, 10, 13, DragonIdle)
    BY DEF Dragon
  <2> QED
    BY <2>1, <2>2 DEF Fits, Anim
<1>3. Fits(Dragon.BUSY, 21, 6)
  BY SMTT(60) DEF Fits, Lists, Table, Dragon, Anim
<1>4. Fits(Dragon.ATTENTION, 16, 6)
  BY SMTT(60) DEF Fits, Lists, Table, Dragon, Anim, Shaking, Only
<1>5. Fits(Dragon.CELEBRATE, 16, 6)
  BY SMTT(60) DEF Fits, Lists, Table, Dragon, Anim, Bobbing
<1>6. Fits(Dragon.DIZZY, 14, 5)
  BY SMTT(60) DEF Fits, Lists, Table, Dragon, Anim, Swaying
<1>7. Fits(Dragon.HEART, 20, 5)
  BY SMTT(60) DEF Fits, Lists, Table, Dragon, Anim, Bobbing
<1> QED
  BY <1>1, <1>2, <1>3, <1>4, <1>5, <1>6, <1>7, FitsIsWellMade DEF States

LEMMA OctopusFits == \A state \in States : IsWellMade(Octopus[state])
<1>1. Fits(Octopus.SLEEP, 26, 6)
  BY SMTT(60) DEF Fits, Lists, Table, Octopus, Anim
<1>2. Fits(Octopus.IDLE, 34, 10)
  <2>1. Lists(OctopusIdle, 34, 10)
    BY SMTT(60) DEF Lists, Table, OctopusIdle
  <2>2. Octopus.IDLE = Anim(5, 10, 10, OctopusIdle)
    BY DEF Octopus
  <2> QED
    BY <2>1, <2>2 DEF Fits, Anim
<1>3. Fits(Octopus.BUSY, 21, 6)
  BY SMTT(60) DEF Fits, Lists, Table, Octopus, Anim
<1>4. Fits(Octopus.ATTENTION, 16, 6)
  BY SMTT(60) DEF Fits, Lists, Table, Octopus, Anim, Shaking, Only
<1>5. Fits(Octopus.CELEBRATE, 16, 6)
  BY SMTT(60) DEF Fits, Lists, Table, Octopus, Anim, Bobbing
<1>6. Fits(Octopus.DIZZY, 14, 5)
  BY SMTT(60) DEF Fits, Lists, Table, Octopus, Anim, Swaying
<1>7. Fits(Octopus.HEART, 22, 6)
  BY SMTT(60) DEF Fits, Lists, Table, Octopus, Anim, Bobbing
<1> QED
  BY <1>1, <1>2, <1>3, <1>4, <1>5, <1>6, <1>7, FitsIsWellMade DEF States

LEMMA OwlFits == \A state \in States : IsWellMade(Owl[state])
<1>1. Fits(Owl.SLEEP, 24, 6)
  BY SMTT(60) DEF Fits, Lists, Table, Owl, Anim
<1>2. Fits(Owl.IDLE, 32, 10)
  <2>1. Lists(OwlIdle, 32, 10)
    BY SMTT(60) DEF Lists, Table, OwlIdle
  <2>2. Owl.IDLE = Anim(5, 10, 10, OwlIdle)
    BY DEF Owl
  <2> QED
    BY <2>1, <2>2 DEF Fits, Anim
<1>3. Fits(Owl.BUSY, 25, 6)
  BY SMTT(60) DEF Fits, Lists, Table, Owl, Anim
<1>4. Fits(Owl.ATTENTION, 16, 6)
  BY SMTT(60) DEF Fits, Lists, Table, Owl, Anim, Shaking, Only
<1>5. Fits(Owl.CELEBRATE, 16, 6)
  BY SMTT(60) DEF Fits, Lists, Table, Owl, Anim, Bobbing
<1>6. Fits(Owl.DIZZY, 14, 5)
  BY SMTT(60) DEF Fits, Lists, Table, Owl, Anim, Swaying
<1>7. Fits(Owl.HEART, 20, 5)
  BY SMTT(60) DEF Fits, Lists, Table, Owl, Anim, Bobbing
<1> QED
  BY <1>1, <1>2, <1>3, <1>4, <1>5, <1>6, <1>7, FitsIsWellMade DEF States

LEMMA PenguinFits == \A state \in States : IsWellMade(Penguin[state])
<1>1. Fits(Penguin.SLEEP, 24, 6)
  BY SMTT(60) DEF Fits, Lists, Table, Penguin, Anim
<1>2. Fits(Penguin.IDLE, 34, 10)
  <2>1. Lists(PenguinIdle, 34, 10)
    BY SMTT(60) DEF Lists, Table, PenguinIdle
  <2>2. Penguin.IDLE = Anim(5, 10, 11, PenguinIdle)
    BY DEF Penguin
  <2> QED
    BY <2>1, <2>2 DEF Fits, Anim
<1>3. Fits(Penguin.BUSY, 21, 6)
  BY SMTT(60) DEF Fits, Lists, Table, Penguin, Anim
<1>4. Fits(Penguin.ATTENTION, 16, 6)
  BY SMTT(60) DEF Fits, Lists, Table, Penguin, Anim, Shaking, Only
<1>5. Fits(Penguin.CELEBRATE, 16, 6)
  BY SMTT(60) DEF Fits, Lists, Table, Penguin, Anim, Bobbing
<1>6. Fits(Penguin.DIZZY, 14, 5)
  BY SMTT(60) DEF Fits, Lists, Table, Penguin, Anim, Swaying
<1>7. Fits(Penguin.HEART, 20, 5)
  BY SMTT(60) DEF Fits, Lists, Table, Penguin, Anim, Bobbing
<1> QED
  BY <1>1, <1>2, <1>3, <1>4, <1>5, <1>6, <1>7, FitsIsWellMade DEF States

LEMMA TurtleFits == \A state \in States : IsWellMade(Turtle[state])
<1>1. Fits(Turtle.SLEEP, 27, 6)
  BY SMTT(60) DEF Fits, Lists, Table, Turtle, Anim
<1>2. Fits(Turtle.IDLE, 40, 10)
  <2>1. Lists(TurtleIdle, 40, 10)
    BY SMTT(60) DEF Lists, Table, TurtleIdle
  <2>2. Turtle.IDLE = Anim(5, 10, 12, TurtleIdle)
    BY DEF Turtle
  <2> QED
    BY <2>1, <2>2 DEF Fits, Anim
<1>3. Fits(Turtle.BUSY, 22, 6)
  BY SMTT(60) DEF Fits, Lists, Table, Turtle, Anim
<1>4. Fits(Turtle.ATTENTION, 16, 6)
  BY SMTT(60) DEF Fits, Lists, Table, Turtle, Anim, Shaking, Only
<1>5. Fits(Turtle.CELEBRATE, 16, 6)
  BY SMTT(60) DEF Fits, Lists, Table, Turtle, Anim, Bobbing
<1>6. Fits(Turtle.DIZZY, 14, 5)
  BY SMTT(60) DEF Fits, Lists, Table, Turtle, Anim, Swaying
<1>7. Fits(Turtle.HEART, 20, 5)
  BY SMTT(60) DEF Fits, Lists, Table, Turtle, Anim, Bobbing
<1> QED
  BY <1>1, <1>2, <1>3, <1>4, <1>5, <1>6, <1>7, FitsIsWellMade DEF States

LEMMA SnailFits == \A state \in States : IsWellMade(Snail[state])
<1>1. Fits(Snail.SLEEP, 24, 6)
  BY SMTT(60) DEF Fits, Lists, Table, Snail, Anim
<1>2. Fits(Snail.IDLE, 30, 10)
  <2>1. Lists(SnailIdle, 30, 10)
    BY SMTT(60) DEF Lists, Table, SnailIdle
  <2>2. Snail.IDLE = Anim(5, 10, 11, SnailIdle)
    BY DEF Snail
  <2> QED
    BY <2>1, <2>2 DEF Fits, Anim
<1>3. Fits(Snail.BUSY, 21, 6)
  BY SMTT(60) DEF Fits, Lists, Table, Snail, Anim
<1>4. Fits(Snail.ATTENTION, 16, 6)
  BY SMTT(60) DEF Fits, Lists, Table, Snail, Anim, Shaking, Only
<1>5. Fits(Snail.CELEBRATE, 16, 6)
  BY SMTT(60) DEF Fits, Lists, Table, Snail, Anim, Bobbing
<1>6. Fits(Snail.DIZZY, 14, 5)
  BY SMTT(60) DEF Fits, Lists, Table, Snail, Anim, Swaying
<1>7. Fits(Snail.HEART, 20, 5)
  BY SMTT(60) DEF Fits, Lists, Table, Snail, Anim, Bobbing
<1> QED
  BY <1>1, <1>2, <1>3, <1>4, <1>5, <1>6, <1>7, FitsIsWellMade DEF States

LEMMA GhostFits == \A state \in States : IsWellMade(Ghost[state])
<1>1. Fits(Ghost.SLEEP, 29, 6)
  <2>1. Lists(GhostSleep, 29, 6)
    BY SMTT(60) DEF Lists, Table, GhostSleep
  <2>2. Table(GhostSleepBob, 29, -8 .. 0)
    BY DEF Table, GhostSleepBob
  <2>3. Ghost.SLEEP = Bobbing(Anim(5, 6, 10, GhostSleep), GhostSleepBob)
    BY DEF Ghost
  <2> QED
    BY <2>1, <2>2, <2>3 DEF Fits, Anim, Bobbing
<1>2. Fits(Ghost.IDLE, 32, 10)
  <2>1. Lists(GhostIdle, 32, 10)
    BY SMTT(60) DEF Lists, Table, GhostIdle
  <2>2. Table(GhostIdleBob, 32, -8 .. 0)
    BY DEF Table, GhostIdleBob
  <2>3. Ghost.IDLE = Bobbing(Anim(5, 10, 10, GhostIdle), GhostIdleBob)
    BY DEF Ghost
  <2> QED
    BY <2>1, <2>2, <2>3 DEF Fits, Anim, Bobbing
<1>3. Fits(Ghost.BUSY, 21, 6)
  BY SMTT(60) DEF Fits, Lists, Table, Ghost, Anim
<1>4. Fits(Ghost.ATTENTION, 16, 6)
  BY SMTT(60) DEF Fits, Lists, Table, Ghost, Anim, Shaking, Only
<1>5. Fits(Ghost.CELEBRATE, 16, 6)
  BY SMTT(60) DEF Fits, Lists, Table, Ghost, Anim, Bobbing
<1>6. Fits(Ghost.DIZZY, 14, 5)
  BY SMTT(60) DEF Fits, Lists, Table, Ghost, Anim, Swaying
<1>7. Fits(Ghost.HEART, 20, 5)
  BY SMTT(60) DEF Fits, Lists, Table, Ghost, Anim, Bobbing
<1> QED
  BY <1>1, <1>2, <1>3, <1>4, <1>5, <1>6, <1>7, FitsIsWellMade DEF States

LEMMA AxolotlFits == \A state \in States : IsWellMade(Axolotl[state])
<1>1. Fits(Axolotl.SLEEP, 24, 6)
  BY SMTT(60) DEF Fits, Lists, Table, Axolotl, Anim
<1>2. Fits(Axolotl.IDLE, 32, 10)
  <2>1. Lists(AxolotlIdle, 32, 10)
    BY SMTT(60) DEF Lists, Table, AxolotlIdle
  <2>2. Axolotl.IDLE = Anim(5, 10, 12, AxolotlIdle)
    BY DEF Axolotl
  <2> QED
    BY <2>1, <2>2 DEF Fits, Anim
<1>3. Fits(Axolotl.BUSY, 21, 6)
  BY SMTT(60) DEF Fits, Lists, Table, Axolotl, Anim
<1>4. Fits(Axolotl.ATTENTION, 16, 6)
  BY SMTT(60) DEF Fits, Lists, Table, Axolotl, Anim, Shaking, Only
<1>5. Fits(Axolotl.CELEBRATE, 16, 6)
  BY SMTT(60) DEF Fits, Lists, Table, Axolotl, Anim, Bobbing
<1>6. Fits(Axolotl.DIZZY, 14, 5)
  BY SMTT(60) DEF Fits, Lists, Table, Axolotl, Anim, Swaying
<1>7. Fits(Axolotl.HEART, 20, 6)
  BY SMTT(60) DEF Fits, Lists, Table, Axolotl, Anim, Bobbing
<1> QED
  BY <1>1, <1>2, <1>3, <1>4, <1>5, <1>6, <1>7, FitsIsWellMade DEF States

LEMMA CactusFits == \A state \in States : IsWellMade(Cactus[state])
<1>1. Fits(Cactus.SLEEP, 24, 6)
  BY SMTT(60) DEF Fits, Lists, Table, Cactus, Anim
<1>2. Fits(Cactus.IDLE, 33, 10)
  <2>1. Lists(CactusIdle, 33, 10)
    BY SMTT(60) DEF Lists, Table, CactusIdle
  <2>2. Cactus.IDLE = Anim(5, 10, 11, CactusIdle)
    BY DEF Cactus
  <2> QED
    BY <2>1, <2>2 DEF Fits, Anim
<1>3. Fits(Cactus.BUSY, 21, 6)
  BY SMTT(60) DEF Fits, Lists, Table, Cactus, Anim
<1>4. Fits(Cactus.ATTENTION, 16, 6)
  BY SMTT(60) DEF Fits, Lists, Table, Cactus, Anim, Shaking, Only
<1>5. Fits(Cactus.CELEBRATE, 16, 6)
  BY SMTT(60) DEF Fits, Lists, Table, Cactus, Anim, Bobbing
<1>6. Fits(Cactus.DIZZY, 14, 5)
  BY SMTT(60) DEF Fits, Lists, Table, Cactus, Anim, Swaying
<1>7. Fits(Cactus.HEART, 20, 5)
  BY SMTT(60) DEF Fits, Lists, Table, Cactus, Anim, Bobbing
<1> QED
  BY <1>1, <1>2, <1>3, <1>4, <1>5, <1>6, <1>7, FitsIsWellMade DEF States

LEMMA RobotFits == \A state \in States : IsWellMade(Robot[state])
<1>1. Fits(Robot.SLEEP, 25, 6)
  BY SMTT(60) DEF Fits, Lists, Table, Robot, Anim
<1>2. Fits(Robot.IDLE, 30, 10)
  <2>1. Lists(RobotIdle, 30, 10)
    BY SMTT(60) DEF Lists, Table, RobotIdle
  <2>2. Robot.IDLE = Anim(5, 10, 10, RobotIdle)
    BY DEF Robot
  <2> QED
    BY <2>1, <2>2 DEF Fits, Anim
<1>3. Fits(Robot.BUSY, 21, 6)
  BY SMTT(60) DEF Fits, Lists, Table, Robot, Anim
<1>4. Fits(Robot.ATTENTION, 16, 6)
  BY SMTT(60) DEF Fits, Lists, Table, Robot, Anim, Shaking, Only
<1>5. Fits(Robot.CELEBRATE, 16, 6)
  BY SMTT(60) DEF Fits, Lists, Table, Robot, Anim, Bobbing
<1>6. Fits(Robot.DIZZY, 14, 5)
  BY SMTT(60) DEF Fits, Lists, Table, Robot, Anim, Swaying
<1>7. Fits(Robot.HEART, 20, 5)
  BY SMTT(60) DEF Fits, Lists, Table, Robot, Anim, Bobbing
<1> QED
  BY <1>1, <1>2, <1>3, <1>4, <1>5, <1>6, <1>7, FitsIsWellMade DEF States

LEMMA RabbitFits == \A state \in States : IsWellMade(Rabbit[state])
<1>1. Fits(Rabbit.SLEEP, 22, 6)
  BY SMTT(60) DEF Fits, Lists, Table, Rabbit, Anim
<1>2. Fits(Rabbit.IDLE, 30, 10)
  <2>1. Lists(RabbitIdle, 30, 10)
    BY SMTT(60) DEF Lists, Table, RabbitIdle
  <2>2. Rabbit.IDLE = Anim(5, 10, 13, RabbitIdle)
    BY DEF Rabbit
  <2> QED
    BY <2>1, <2>2 DEF Fits, Anim
<1>3. Fits(Rabbit.BUSY, 21, 6)
  BY SMTT(60) DEF Fits, Lists, Table, Rabbit, Anim
<1>4. Fits(Rabbit.ATTENTION, 16, 6)
  BY SMTT(60) DEF Fits, Lists, Table, Rabbit, Anim, Shaking, Only
<1>5. Fits(Rabbit.CELEBRATE, 16, 6)
  BY SMTT(60) DEF Fits, Lists, Table, Rabbit, Anim, Bobbing
<1>6. Fits(Rabbit.DIZZY, 14, 5)
  BY SMTT(60) DEF Fits, Lists, Table, Rabbit, Anim, Swaying
<1>7. Fits(Rabbit.HEART, 20, 5)
  BY SMTT(60) DEF Fits, Lists, Table, Rabbit, Anim, Bobbing
<1> QED
  BY <1>1, <1>2, <1>3, <1>4, <1>5, <1>6, <1>7, FitsIsWellMade DEF States

LEMMA MushroomFits == \A state \in States : IsWellMade(Mushroom[state])
<1>1. Fits(Mushroom.SLEEP, 24, 6)
  BY SMTT(60) DEF Fits, Lists, Table, Mushroom, Anim
<1>2. Fits(Mushroom.IDLE, 30, 10)
  <2>1. Lists(MushroomIdle, 30, 10)
    BY SMTT(60) DEF Lists, Table, MushroomIdle
  <2>2. Mushroom.IDLE = Anim(5, 10, 12, MushroomIdle)
    BY DEF Mushroom
  <2> QED
    BY <2>1, <2>2 DEF Fits, Anim
<1>3. Fits(Mushroom.BUSY, 21, 6)
  BY SMTT(60) DEF Fits, Lists, Table, Mushroom, Anim
<1>4. Fits(Mushroom.ATTENTION, 16, 6)
  BY SMTT(60) DEF Fits, Lists, Table, Mushroom, Anim, Shaking, Only
<1>5. Fits(Mushroom.CELEBRATE, 16, 6)
  BY SMTT(60) DEF Fits, Lists, Table, Mushroom, Anim, Bobbing
<1>6. Fits(Mushroom.DIZZY, 14, 5)
  BY SMTT(60) DEF Fits, Lists, Table, Mushroom, Anim, Swaying
<1>7. Fits(Mushroom.HEART, 20, 5)
  BY SMTT(60) DEF Fits, Lists, Table, Mushroom, Anim, Bobbing
<1> QED
  BY <1>1, <1>2, <1>3, <1>4, <1>5, <1>6, <1>7, FitsIsWellMade DEF States

LEMMA ChonkFits == \A state \in States : IsWellMade(Chonk[state])
<1>1. Fits(Chonk.SLEEP, 29, 6)
  <2>1. Lists(ChonkSleep, 29, 6)
    BY SMTT(60) DEF Lists, Table, ChonkSleep
  <2>2. Chonk.SLEEP = Twitching(Anim(5, 6, 12, ChonkSleep), {5})
    BY DEF Chonk
  <2> QED
    BY <2>1, <2>2 DEF Fits, Anim, Twitching
<1>2. Fits(Chonk.IDLE, 36, 10)
  <2>1. Lists(ChonkIdle, 36, 10)
    BY SMTT(60) DEF Lists, Table, ChonkIdle
  <2>2. Chonk.IDLE = Anim(5, 10, 12, ChonkIdle)
    BY DEF Chonk
  <2> QED
    BY <2>1, <2>2 DEF Fits, Anim
<1>3. Fits(Chonk.BUSY, 23, 6)
  BY SMTT(60) DEF Fits, Lists, Table, Chonk, Anim
<1>4. Fits(Chonk.ATTENTION, 16, 6)
  BY SMTT(60) DEF Fits, Lists, Table, Chonk, Anim, Shaking, Only
<1>5. Fits(Chonk.CELEBRATE, 16, 6)
  BY SMTT(60) DEF Fits, Lists, Table, Chonk, Anim, Bobbing
<1>6. Fits(Chonk.DIZZY, 14, 5)
  BY SMTT(60) DEF Fits, Lists, Table, Chonk, Anim, Swaying
<1>7. Fits(Chonk.HEART, 23, 6)
  BY SMTT(60) DEF Fits, Lists, Table, Chonk, Anim, Bobbing
<1> QED
  BY <1>1, <1>2, <1>3, <1>4, <1>5, <1>6, <1>7, FitsIsWellMade DEF States

\* A number that is no species stands for the first one.
LEMMA EveryAnimationIsWellMade ==
  ASSUME NEW s \in Nat, NEW state \in States
  PROVE  IsWellMade(Animation(s, state))
<1>1. SpeciesCount = 18
  BY DEF SpeciesCount, kSpeciesTable
<1>2. EffectiveSpecies(s) + 1 \in 1 .. 18
  BY <1>1 DEF EffectiveSpecies
<1>3. \A k \in 1 .. 18 : IsWellMade(kSpeciesTable[k][state])
  BY CapybaraFits, DuckFits, GooseFits, BlobFits, CatFits, DragonFits, OctopusFits,
     OwlFits, PenguinFits, TurtleFits, SnailFits, GhostFits, AxolotlFits, CactusFits,
     RobotFits, RabbitFits, MushroomFits, ChonkFits DEF kSpeciesTable
<1> QED
  BY <1>2, <1>3 DEF Animation

\* Whatever number stands for the species, in every state of the pet and at every
\* tick, however long it has run, the tables have a pose and its shifts, and the
\* frame holds every character of the sprite in a cell of its own
\* (buddy_ascii_render, buddyPrintSprite).
THEOREM EveryFrameIsWhole ==
  ASSUME NEW s \in Nat, NEW state \in States, NEW t \in Nat
  PROVE  TablesCover(Animation(s, state), t) /\ DrawnWhole(Animation(s, state), t)
BY EveryAnimationIsWellMade, FitsAtEveryTick DEF IsWellMade

=============================================================================
