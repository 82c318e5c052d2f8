----------------------------- MODULE MCBuddyHome ---------------------------
(***************************************************************************)
(* All eighteen characters, and a counter that wraps soon after the two units   *)
(* in which a snapshot goes stale.  What a frame owes its animation depends on  *)
(* no state: it is evaluated once, at every tick of every animation.           *)
(***************************************************************************)
EXTENDS BuddyHome

ASSUME FramesAreWhole ==
  \A s \in Species, state \in States :
    LET anim == Animation(s, state)
    IN \A t \in Cycle(anim) : TablesCover(anim, t) /\ DrawnWhole(anim, t)
=============================================================================
