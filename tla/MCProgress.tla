----------------------------- MODULE MCProgress -----------------------------
(***************************************************************************)
(* Two workers and five entries on a scale of three steps: count 1 is      *)
(* below the first step, 2 and 3 are on it, 4 is alone on the second and 5 *)
(* on the last, so that a step may have one caller to report it or two.    *)
(***************************************************************************)
EXTENDS Progress, TLC

CONSTANTS w1, w2

MCSize == <<1, 1, 1, 2, 2>>

Symmetry == Permutations(Workers)
=============================================================================
