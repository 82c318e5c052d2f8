---------------------------- MODULE MCBuddyScreens -------------------------
(***************************************************************************)
(* Three animations at a time: a slide takes two, and the third is that of a  *)
(* page that an earlier slide left while the later one is on.                 *)
(***************************************************************************)
EXTENDS BuddyScreens
=============================================================================
