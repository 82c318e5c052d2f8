---------------------------- MODULE PermissionUi ---------------------------
(***************************************************************************)
(* The approval screen (src/app/src/ui/buddy_ui_390x450.c) on top of         *)
(* PermissionFlow.  buddy_ui_refresh copies the model of the application,     *)
(* takes the buttons pressed since the last turn, sends what they decide and  *)
(* redraws, at once when a button was taken and else every 250 ms.  The host  *)
(* thread may run between any two of these steps, also between the moments    *)
(* at which buddy_app_get_ui_model copies has_prompt and prompt_id.           *)
(*                                                                            *)
(* Only what concerns prompts is here: the other screens are left out, so a   *)
(* button pressed without a prompt is taken and has no effect.                *)
(***************************************************************************)
EXTENDS PermissionFlow

CONSTANT Ui               \* the thread of Threads that runs the UI loop

ASSUME UiAssumption == Ui \in Threads

VARIABLES pending,        \* s_pending_actions: the buttons pressed
          uiPc,           \* where buddy_ui_refresh is
          todo,           \* the actions taken and not yet acted on
          acted,          \* action_changed
          model,          \* the copy of the application model
          sPromptId,      \* s_prompt_id
          sDecision,      \* s_prompt_decision
          shown,          \* what the screen shows: the approval view, or none
          firstRead,      \* history: the epoch s_prompt_id was set in
          readIn          \* history: the epoch of the last copy of prompt_id

\* What reading the model sets besides the decision.
readVars == <<sPromptId, firstRead, readIn>>

uiVars == <<pending, uiPc, todo, acted, model, readVars, sDecision, shown>>
vars == <<flowVars, uiVars>>

\* A button is named for what it decides: PRIMARY or APPROVE "once", SECONDARY
\* or DENY "deny".
NoPrompt == [hasPrompt |-> FALSE, promptId |-> EmptyId]

UiInit ==
  /\ Init
  /\ pending = {}
  /\ uiPc = "readFlag"
  /\ todo = {}
  /\ acted = FALSE
  /\ model = NoPrompt
  /\ sPromptId = EmptyId /\ firstRead = 0 /\ readIn = 0
  /\ sDecision = "none"
  /\ shown = NoPrompt

-----------------------------------------------------------------------------
\* A button: its handler sets a bit, with interrupts off.
PressButton(b) ==
  /\ b \notin pending
  /\ pending' = pending \cup {b}
  /\ UNCHANGED <<flowVars, uiPc, todo, acted, model, readVars, sDecision, shown>>

\* buddy_app_get_ui_model, first half.
ReadFlag ==
  /\ uiPc = "readFlag"
  /\ model' = [model EXCEPT !.hasPrompt = hasPrompt]
  /\ uiPc' = "readId"
  /\ UNCHANGED <<flowVars, pending, todo, acted, readVars, sDecision, shown>>

\* FAULT: the decision shown for one prompt stays when the next one comes.
UpdatePromptIdOnly(m) ==
  /\ sPromptId' = IF m.hasPrompt THEN m.promptId ELSE EmptyId
  /\ UNCHANGED sDecision

\* buddy_ui_update_prompt_state: a new prompt starts without a decision.
UpdatePromptState(m) ==
  IF ~m.hasPrompt
  THEN sPromptId' = EmptyId /\ sDecision' = "none"
  ELSE /\ sPromptId' = m.promptId
       /\ sDecision' = IF sPromptId # m.promptId THEN "none" ELSE sDecision

\* buddy_app_get_ui_model, second half, and the prompt state of the UI.
ReadId ==
  /\ uiPc = "readId"
  /\ model' = [model EXCEPT !.promptId = promptId]
  /\ UpdatePromptState(model')
  /\ readIn' = epoch
  /\ firstRead' = IF sPromptId' # sPromptId THEN epoch ELSE firstRead
  /\ uiPc' = IF acted THEN "draw" ELSE "act"
  /\ UNCHANGED <<flowVars, pending, todo, acted, shown>>

\* buddy_ui_take_actions, and the branch on the model's prompt.
TakeActions ==
  /\ uiPc = "act"
  /\ pending' = {}
  /\ todo' = IF model.hasPrompt THEN pending ELSE {}
  /\ acted' = (pending # {})
  /\ uiPc' = IF pending = {} THEN "draw" ELSE "decide"
  /\ UNCHANGED <<flowVars, model, readVars, sDecision, shown>>

\* Approve goes before deny when both were pressed.
NextDecision == IF "once" \in todo THEN "once" ELSE "deny"
Rest == todo \ {NextDecision}

\* FAULT: a failed send looks like a sent one.
DecisionShown(d, sent) ==
  IF d = "once" THEN "approveSent" ELSE "denySent"

\* s_prompt_decision after buddy_ui_data_send_permission_*.
DecisionAfter(d, sent) ==
  IF sent THEN (IF d = "once" THEN "approveSent" ELSE "denySent")
  ELSE IF sDecision = "none" THEN "sendFailed"
  ELSE sDecision

UiBegin ==
  /\ uiPc = "decide" /\ todo # {}
  /\ Begin(Ui, NextDecision)
  /\ uiPc' = "sending"
  /\ UNCHANGED <<pending, todo, acted, model, readVars, sDecision, shown>>

\* emit_permission refuses: no prompt, an empty id, or already sent.
UiRefused ==
  /\ uiPc = "decide" /\ todo # {}
  /\ ~CanDecide
  /\ sDecision' = DecisionAfter(NextDecision, FALSE)
  /\ todo' = Rest
  /\ UNCHANGED <<flowVars, pending, uiPc, acted, model, readVars, shown>>

UiCopy ==
  /\ Copy(Ui)
  /\ UNCHANGED uiVars

UiSendCompletes ==
  /\ SendCompletes(Ui)
  /\ UNCHANGED uiVars

\* Back from the send: the outcome is noted, the next button is looked at.
UiReturns(sent) ==
  /\ uiPc = "sending"
  /\ sDecision' = DecisionAfter(NextDecision, sent)
  /\ todo' = Rest
  /\ uiPc' = "decide"
  /\ UNCHANGED <<pending, acted, model, readVars, shown>>

UiSendFails == SendFails(Ui) /\ UiReturns(FALSE)

UiFinish == Finish(Ui) /\ UiReturns(TRUE)

\* All buttons are dealt with: the model is read again before the redraw.
ReadAgain ==
  /\ uiPc = "decide" /\ todo = {}
  /\ uiPc' = "readFlag"
  /\ UNCHANGED <<flowVars, pending, todo, acted, model, readVars, sDecision,
                 shown>>

\* FAULT: a prompt that has gone stays on the screen.
ViewKeepingId(m) == IF m.hasPrompt THEN m ELSE shown

\* The prompt a model shows: the approval view needs has_prompt.
View(m) == IF m.hasPrompt THEN m ELSE NoPrompt

Draw ==
  /\ uiPc = "draw"
  /\ shown' = View(model)
  /\ acted' = FALSE
  /\ uiPc' = "readFlag"
  /\ UNCHANGED <<flowVars, pending, todo, model, readVars, sDecision>>

\* Less than BUDDY_UI_REFRESH_MS since the last redraw, and no button taken.
SkipDraw ==
  /\ uiPc = "draw" /\ ~acted
  /\ uiPc' = "readFlag"
  /\ UNCHANGED <<flowVars, pending, todo, acted, model, readVars, sDecision,
                 shown>>

UiStep ==
  \/ ReadFlag \/ ReadId \/ TakeActions \/ UiBegin \/ UiRefused
  \/ UiCopy \/ UiSendCompletes \/ UiSendFails \/ UiFinish \/ ReadAgain
  \/ Draw \/ SkipDraw

\* The host thread and the other threads of PermissionFlow.
Others ==
  /\ \/ HostStep
     \/ \E t \in Threads \ {Ui} : SendStep(t) \/ \E d \in Decisions : Begin(t, d)
  /\ UNCHANGED uiVars

UiNext == UiStep \/ Others \/ \E b \in Decisions : PressButton(b)

UiSpec == UiInit /\ [][UiNext]_vars

\* The main loop never stops, a send ends (each notification is tried twenty
\* times at most), and 250 ms pass again and again.
Fairness ==
  /\ WF_vars(UiStep)
  /\ SF_vars(Draw)

FairUiSpec == UiSpec /\ Fairness

-----------------------------------------------------------------------------
(* Properties                                                               *)

\* The types, and the loop waits exactly while its thread is in the send.
UiTypeOK ==
  /\ TypeOK
  /\ uiPc = "sending" <=> pc[Ui] # "idle"
  /\ pending \subseteq Decisions /\ todo \subseteq Decisions
  /\ uiPc \in {"readFlag", "readId", "act", "decide", "sending", "draw"}
  /\ acted \in BOOLEAN
  /\ model \in [hasPrompt : BOOLEAN, promptId : Ids]
  /\ shown \in [hasPrompt : BOOLEAN, promptId : Ids]
  /\ sPromptId \in Ids /\ firstRead \in Nat /\ readIn \in Nat
  /\ sDecision \in {"none", "approveSent", "denySent", "sendFailed"}

\* "Approved" or "Denied" on the screen is the truth: the last decision that
\* the UI got out is the one it shows, whatever failed or was refused later.
OwnAnswers == {i \in DOMAIN answers : answers[i].thread = Ui}
LastOwn == CHOOSE i \in OwnAnswers : \A j \in OwnAnswers : j <= i

ClaimIsTrue ==
  /\ sDecision \in {"approveSent", "denySent"} => OwnAnswers # {}
  /\ uiPc # "sending" =>
       /\ sDecision = "approveSent" => answers[LastOwn].decision = "once"
       /\ sDecision = "denySent" => answers[LastOwn].decision = "deny"

\* And it was sent for the prompt that it stands under: a redraw for a prompt
\* claims no decision that went to another one, also when the prompt is replaced
\* while the UI handles the button, the copy of the model mixes two prompts, or
\* the redraw follows the send at once.  Only a prompt that goes and comes back
\* between two looks of the UI is not seen to have gone: what was decided in
\* between, for the prompt that was there then, is shown for it.
DrawnClaimIsForPrompt ==
  uiPc = "draw" /\ model.hasPrompt /\ sDecision \in {"approveSent", "denySent"} =>
     \/ answers[LastOwn].id = model.promptId
     \/ firstRead < answers[LastOwn].begun /\ answers[LastOwn].begun < readIn

\* The screen catches up: once prompts stop coming and going, the last one, or
\* its absence, is shown for good, in spite of torn copies, the throttle and
\* sends under way.
PromptNow ==
  IF hasPrompt THEN [hasPrompt |-> TRUE, promptId |-> promptId] ELSE NoPrompt

ScreenCatchesUp ==
  <>[][FALSE]_<<hasPrompt, promptId>> => <>[](shown = PromptNow)
=============================================================================
