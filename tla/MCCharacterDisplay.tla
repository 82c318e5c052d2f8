------------------------ MODULE MCCharacterDisplay ------------------------
(* Two packages of one byte with files of the same names.                   *)
EXTENDS CharacterDisplay, TLC

CONSTANTS gif1, p1, p2

MCFiles == {Manifest, gif1}
MCPackages == {p1, p2}
MCNames == [p \in MCPackages |-> {gif1}]

Symmetry == Permutations(MCPackages)

\* Nothing reads the acknowledgement, the GIF that is shown, what is left of
\* a load that failed, or had_active after a commit.
View == <<transferVars, storeVars, step, hadActive /\ step \in {"putInPlace", "putBack"},
          allOk, staging, ui, invalidated, available,
          IF available \/ ui = "checking" THEN <<manifestOf, cached>> ELSE <<>>,
          wipeVars, displayName, historyVars>>
=============================================================================
