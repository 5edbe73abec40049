----------------------------- MODULE MCPipeFds -----------------------------
(* PipeFds for a program whose standard streams are open.  Objects are       *)
(* interchangeable and only safety is checked.                               *)
EXTENDS PipeFds, TLC

Symmetry == Permutations(Objects)
=============================================================================
