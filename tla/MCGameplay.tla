----------------------------- MODULE MCGameplay -----------------------------
(***************************************************************************)
(* Gameplay for TLC.                                                       *)
(***************************************************************************)
EXTENDS Gameplay

Symmetry == Permutations(Sessions)

\* The 16 * 16 blocks of initSpawnPlatform.
SpawnPlatform == 0..255
=============================================================================
