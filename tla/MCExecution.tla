---------------------------- MODULE MCExecution ----------------------------
(* A program that writes three lines through a kernel pipe that holds two.   *)
EXTENDS Execution, TLC

CONSTANTS nl, nul, a, b

MCScripts == {child :> <<<<a, nl>>, <<nl>>, <<b, b, nl>>>>}
=============================================================================
