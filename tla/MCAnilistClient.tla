-------------------------- MODULE MCAnilistClient --------------------------
(***************************************************************************)
(* Small instances of AnilistClient for TLC.  Nothing tells one call from  *)
(* another, so the safety runs permute them.                               *)
(***************************************************************************)
EXTENDS AnilistClient, TLC

Interchangeable == Permutations(Call)
=============================================================================
