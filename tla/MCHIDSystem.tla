----------------------------- MODULE MCHIDSystem -----------------------------
(* HIDSystem on a small instance. *)
EXTENDS HIDSystem, TLC

Symmetry == Permutations(Servers) \cup Permutations(Keyboards)
================================================================================
