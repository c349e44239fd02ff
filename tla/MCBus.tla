-------------------------------- MODULE MCBus --------------------------------
(***************************************************************************)
(* Small instances of Bus for TLC.                                         *)
(***************************************************************************)
EXTENDS Bus, TLC

Symmetry == Permutations(Events) \union Permutations(Subscribers)
=============================================================================
