--------------------------- MODULE CharacterSlot ---------------------------
(***************************************************************************)
(* What the device promises about its character: there is one slot, empty   *)
(* or holding a whole package.  A package is staged beside it and either     *)
(* fails, which the slot does not notice, or replaces what the slot holds.   *)
(*                                                                           *)
(* Only a deletion that was ordered empties the slot, and what the device    *)
(* admits to losing is spelled out: while it replaces the character there is *)
(* one moment at which a power loss takes the old one (PowerLoss), and two   *)
(* failures in a row take it too (CannotRestore).  faults and crashes count   *)
(* what has failed so far; they are the environment's.                       *)
(***************************************************************************)
EXTENDS Naturals

CONSTANTS Packages, NoPackage

VARIABLES slot,    \* the character that is shown
          staged,  \* the package being received
          doing,   \* "nothing", "replacing", "undoing" or "deleting"
          faults, crashes

slotVars == <<slot, staged, doing>>

Init == slot = NoPackage /\ staged = NoPackage /\ doing = "nothing"

\* The device goes from one occupation to another, and power stays.
Turn(from, to) == doing = from /\ doing' = to /\ UNCHANGED crashes

Begin(p) ==
  /\ Turn("nothing", "nothing")
  /\ staged = NoPackage /\ staged' = p
  /\ UNCHANGED slot

\* The package is given up, by the protocol or by a power loss.
Fail ==
  /\ doing = "nothing" /\ staged' = NoPackage
  /\ UNCHANGED <<slot, doing>>

StartReplacing ==
  /\ Turn("nothing", "replacing")
  /\ staged # NoPackage
  /\ UNCHANGED <<slot, staged>>

Install ==
  /\ Turn("replacing", "nothing")
  /\ slot' = staged /\ staged' = NoPackage
  /\ UNCHANGED faults

CannotInstall ==
  /\ Turn("replacing", "undoing") \/ Turn("replacing", "nothing")
  /\ faults' = faults + 1
  /\ UNCHANGED <<slot, staged>>

Restore ==
  /\ Turn("undoing", "nothing")
  /\ UNCHANGED <<slot, staged, faults>>

\* The second failure in a row: the old character is lost.
CannotRestore ==
  /\ Turn("undoing", "nothing")
  /\ slot' = NoPackage
  /\ faults' = faults + 1
  /\ UNCHANGED staged

\* Power is lost with the old character moved away and the new one not yet in
\* its place: both are lost.
PowerLoss ==
  /\ doing \in {"replacing", "undoing"} /\ doing' = "nothing"
  /\ slot' = NoPackage /\ staged' = NoPackage
  /\ crashes' = crashes + 1

StartDeleting ==
  /\ Turn("nothing", "deleting")
  /\ staged' = NoPackage
  /\ UNCHANGED slot

Delete ==
  /\ Turn("deleting", "deleting")
  /\ slot' = NoPackage
  /\ UNCHANGED staged

\* A deletion comes to its end, or to one by a power loss.
EndDeleting ==
  /\ doing = "deleting" /\ doing' = "nothing"
  /\ UNCHANGED <<slot, staged>>

Replacing == StartReplacing \/ Install \/ CannotInstall \/ Restore \/ CannotRestore

Next ==
  \/ \E p \in Packages : Begin(p)
  \/ Fail
  \/ Replacing
  \/ StartDeleting \/ Delete \/ EndDeleting
  \/ PowerLoss

Spec == Init /\ [][Next]_slotVars
=============================================================================
