-------------------------- MODULE MCProviderWizard --------------------------
(***************************************************************************)
(* Two threads, an account whose password is mistyped or not, two sessions *)
(* and enough calls for the four Huawei steps and the creation of a        *)
(* provider.                                                               *)
(***************************************************************************)
EXTENDS ProviderWizard, TLC

CONSTANTS p1, p2

MCAccepts == [u \in Users |-> p1]
Symmetry == Permutations(Threads) \cup Permutations(Stations) \cup Permutations(Objects)
=============================================================================
