--------------------------- MODULE MCPermissionUi --------------------------
(* Two prompts, the UI loop with its two buttons, and the shell.            *)
EXTENDS PermissionUi

CONSTANTS p1, p2, ui, shell

MCPrompts == {p1, p2}
MCThreads == {ui, shell}
=============================================================================
