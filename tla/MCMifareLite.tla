----------------------------- MODULE MCMifareLite -----------------------------
(***************************************************************************)
(* Small instances of MifareLite: three cards, and a timer that takes more   *)
(* reads of the interrupt register than the loop of ToCard makes.          *)
(***************************************************************************)
EXTENDS MifareLite, TLC

CONSTANTS c1, c2, c3

CardSymmetry == Permutations({c1, c2, c3})
===============================================================================
