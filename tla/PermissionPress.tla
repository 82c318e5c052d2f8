-------------------------- MODULE PermissionPress ---------------------------
(***************************************************************************)
(* PermissionUi with a memory of what the user had before his eyes when he   *)
(* pressed a button, which the program does not keep (s_pending_actions is a *)
(* set of bits).                                                             *)
(***************************************************************************)
EXTENDS PermissionUi

VARIABLE pressedOn        \* history: what was on the screen at each last press

PressInit == UiInit /\ pressedOn = [b \in Decisions |-> NoPrompt]

PressNext ==
  /\ UiNext
  /\ pressedOn' = [b \in Decisions |-> IF PressButton(b) THEN shown
                                                        ELSE pressedOn[b]]

PressSpec == PressInit /\ [][PressNext]_<<vars, pressedOn>>

\* docs/architecture.md: "Permission actions are only sent when the current
\* prompt id still matches the active prompt.  This avoids sending a stale
\* approval after Claude has moved on."  So a button that was pressed for a
\* prompt on the screen does not decide another one.  The code compares no ids:
\* it sends the id that is current when the button is handled.
DecidesWhatWasShown ==
  [][LET seen == pressedOn[NextDecision]
     IN  UiCopy /\ seen.hasPrompt /\ seen.promptId \in Prompts =>
           job'[Ui].id \in {seen.promptId, EmptyId}]_vars
=============================================================================
