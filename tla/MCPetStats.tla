----------------------------- MODULE MCPetStats -----------------------------
(* Two tokens to a level, three slots in the ring.                            *)
EXTENDS PetStats

MCResponses == {0, 90}
=============================================================================
