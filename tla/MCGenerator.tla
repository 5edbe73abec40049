---------------------------- MODULE MCGenerator ----------------------------
(* Generator with interchangeable loops; only safety is checked.             *)
EXTENDS Generator, TLC

Symmetry == Permutations(Loops)
=============================================================================
