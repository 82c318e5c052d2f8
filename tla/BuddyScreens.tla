---------------------------- MODULE BuddyScreens ---------------------------
(***************************************************************************)
(* The screens of src/app/src/ui/buddy_ui_390x450.c: the page stack with its  *)
(* sliding pages, the keys, and the settings page.                            *)
(*                                                                            *)
(* A turn of the loop (buddy_ui_refresh) is one step here: it takes the keys   *)
(* posted since the last one, acts on the model it read, reads the model       *)
(* again, and shows a page.  LVGL runs between two turns: it delivers touches   *)
(* to the pages that are not hidden, sliding ones included, and ends           *)
(* animations one by one.  Sending decisions is the subject of PermissionUi,    *)
(* the choice and the drawing of the pet that of BuddyHome, the files of a GIF   *)
(* character that of CharacterDisplay, and the values of the display settings    *)
(* that of Preferences.                                                        *)
(***************************************************************************)
EXTENDS Integers, FiniteSets

Screens == {"home", "pet", "info", "settings"}
Views == Screens \cup {"approval", "pairing"}   \* each has a page of its own
Keys == {"primary", "secondary", "menu"}        \* s_pending_actions
SettingsCount == 6
NoPage == "none"

CONSTANT MaxAnims         \* bound: animations running at a time

ASSUME ScreensAssumption == MaxAnims \in Nat

VARIABLES nav,            \* s_screen, s_settings_index, s_reset_armed
          pending,        \* s_pending_actions, as far as LVGL's own thread posts them
          view,           \* s_view
          visible,        \* the pages without LV_OBJ_FLAG_HIDDEN
          shifted,        \* the pages whose x is not 0
          anims,          \* LVGL's running animations of pages
          oldPage         \* s_anim_old_page

pageVars == <<view, visible, shifted, anims, oldPage>>
vars == <<nav, pending, pageVars>>

\* What a turn reads of the application: a prompt, else a passkey to show.
Models == {"prompt", "passkey", "neither"}

Anims == [page : Views, kind : {"in", "out"}]

AtHome == [screen |-> "home", index |-> 0, armed |-> FALSE]

\* buddy_ui_init: the home page alone, and nothing armed.
Init ==
  /\ nav = AtHome
  /\ pending = {}
  /\ view = "home"
  /\ visible = {"home"}
  /\ shifted = {}
  /\ anims = {}
  /\ oldPage = NoPage

-----------------------------------------------------------------------------
(* The settings page.                                                       *)

\* buddy_ui_run_factory_reset, as far as the screens go: it may fail.
RunFactoryReset(n, ok) ==
  IF ok THEN AtHome ELSE n

ResetItem == 5

\* What an item depends on: whether the reset succeeds.
Answers(i) == IF i = ResetItem THEN BOOLEAN ELSE {TRUE}

\* The effect of item i on the navigation: 0 to 3 change a display setting and
\* save it, 4 is the pet, 5 the reset, which has to be armed first.
UseItem(n, i, ok) ==
  IF i # ResetItem THEN n
  ELSE IF n.armed THEN RunFactoryReset(n, ok) ELSE [n EXCEPT !.armed = TRUE]

\* buddy_ui_adjust_settings: the item in focus, and on to the next one.
AdjustSettings(n, ok) ==
  LET used == UseItem(n, n.index, ok)
  IN [used EXCEPT !.index = (@ + 1) % SettingsCount]

-----------------------------------------------------------------------------
(* The keys.                                                                *)

Following == [home |-> "pet", pet |-> "info", info |-> "settings", settings |-> "home"]

Menu(n, actions) == IF "menu" \in actions THEN [n EXCEPT !.screen = "settings"] ELSE n

NextScreen(n, actions) ==
  IF "primary" \in actions THEN [n EXCEPT !.screen = Following[@]] ELSE n

\* On the other pages it turns to the next entries or to the next page of the
\* information, which nothing else depends on.
Secondary(n, actions, yes) ==
  IF "secondary" \in actions /\ n.screen = "settings"
  THEN AdjustSettings(n, yes) ELSE n

\* buddy_ui_process_actions.  With a prompt on, the keys decide it instead.
ProcessActions(n, prompt, actions, yes) ==
  IF prompt THEN Menu(n, actions)
  ELSE Secondary(NextScreen(Menu(n, actions), actions), actions, yes)

\* The item that the secondary key is used on, if any.
ItemUsed(n, prompt, actions) ==
  LET at == NextScreen(Menu(n, actions), actions)
  IN IF ~prompt /\ "secondary" \in actions /\ at.screen = "settings"
     THEN at.index ELSE 0

-----------------------------------------------------------------------------
(* The pages.                                                               *)

\* buddy_ui_effective_view.
EffectiveView(m, n) ==
  CASE m = "prompt" -> "approval"
    [] m = "passkey" -> "pairing"
    [] m = "neither" -> n.screen

\* FAULT: an animation that is still running on the page is left to run.
StartAnimKeepingOld(running, page, kind) == running \cup {[page |-> page, kind |-> kind]}

\* buddy_ui_start_page_anim: the animation that the page has is deleted, and
\* with it the callback at its end.
StartAnim(running, page, kind) ==
  {a \in running : a.page # page} \cup {[page |-> page, kind |-> kind]}

\* buddy_ui_show_view: the two pages slide, all others are hidden.
ShowView(v) ==
  /\ Cardinality(StartAnim(StartAnim(anims, view, "out"), v, "in")) <= MaxAnims
  /\ view' = v
  /\ visible' = {view, v}
  /\ anims' = StartAnim(StartAnim(anims, view, "out"), v, "in")
  /\ shifted' = (shifted \ {view}) \cup {v}
  /\ oldPage' = view

Show(v) == IF v # view THEN ShowView(v) ELSE UNCHANGED pageVars

\* A turn of the loop in which keys were taken: it acts on the model read first,
\* reads the model again, and redraws at once.
TakesKeys(prompt, after, keys) ==
  LET actions == pending \cup keys
      item == ItemUsed(nav, prompt, actions)
  IN /\ actions # {}
     /\ pending' = {}
     /\ \E yes \in Answers(item) : nav' = ProcessActions(nav, prompt, actions, yes)
     /\ Show(EffectiveView(after, nav'))

\* A turn without keys, 250 ms after the last redraw; an earlier one does nothing.
Redraws(m) ==
  /\ pending = {}
  /\ Show(EffectiveView(m, nav))
  /\ UNCHANGED <<nav, pending>>

\* buddy_ui_toggle_setting_event: a touch on item i, which needs the page to be
\* there, in front or sliding away.
ToggleSetting(i) ==
  /\ "settings" \in visible
  /\ \E yes \in Answers(i) : nav' = UseItem(nav, i, yes)
  /\ pending' = pending \cup {"menu"}
  /\ UNCHANGED pageVars

\* buddy_ui_page_anim_ready: the page that left is hidden and put back.
PageAnimReady(page) ==
  LET left == {oldPage} \ {NoPage, page}
  IN /\ visible' = visible \ left
     /\ shifted' = shifted \ (left \cup {page})
     /\ oldPage' = NoPage

\* LVGL ends an animation: the page is where it was sent to.
AnimEnds(a) ==
  /\ a \in anims
  /\ anims' = anims \ {a}
  /\ IF a.kind = "in" THEN PageAnimReady(a.page)
     ELSE shifted' = shifted \cup {a.page} /\ UNCHANGED <<visible, oldPage>>
  /\ UNCHANGED <<nav, pending, view>>

Next ==
  \/ \E prompt \in BOOLEAN, after \in Models, keys \in SUBSET Keys :
       TakesKeys(prompt, after, keys)
  \/ \E m \in Models : Redraws(m)
  \/ \E i \in 0 .. SettingsCount - 1 : ToggleSetting(i)
  \/ \E a \in Anims : AnimEnds(a)

Spec == Init /\ [][Next]_vars

-----------------------------------------------------------------------------
(* Properties                                                               *)

TypeOK ==
  /\ nav \in [screen : Screens, index : 0 .. SettingsCount - 1, armed : BOOLEAN]
  /\ pending \subseteq Keys
  /\ view \in Views /\ visible \subseteq Views /\ shifted \subseteq Views
  /\ anims \subseteq Anims /\ oldPage \in Views \cup {NoPage}

\* However keys, prompts and passkeys interrupt the 220 ms slides, the page of
\* the current view is never hidden, at most one other is with it, and when the
\* slides are over it stands alone and in place.
PagesSettle ==
  /\ view \in visible
  /\ Cardinality(visible) <= 2
  /\ anims = {} => visible = {view} /\ view \notin shifted

=============================================================================
