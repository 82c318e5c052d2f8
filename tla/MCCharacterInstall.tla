------------------------ MODULE MCCharacterInstall ------------------------
(* Two packages of one or two bytes: the manifest, and one file it names.   *)
EXTENDS CharacterInstall, TLC

CONSTANTS gif, p1, p2

MCFiles == {Manifest, gif}
MCPackages == {p1, p2}
MCNames == [p \in MCPackages |-> {gif}]

Symmetry == Permutations(MCPackages)

\* Nothing reads the acknowledgement but DeletedIsGone.
View == <<transferVars, storeVars, hostVars, staging, crashes, pruned,
          ack.ok /\ ack.cmd \in ResetCommands>>
=============================================================================
