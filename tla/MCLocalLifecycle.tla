-------------------------- MODULE MCLocalLifecycle ---------------------------
(***************************************************************************)
(* Two workers open Locals one after another; every second one is sampled. *)
(***************************************************************************)
EXTENDS LocalLifecycle, TLC

Symmetry == Permutations(Workers) \cup Permutations(Contexts)
==============================================================================
