------------------------------ MODULE MCSpawn ------------------------------
(* Spawn with two execution objects and room for all of their pipes.         *)
EXTENDS Spawn
=============================================================================
