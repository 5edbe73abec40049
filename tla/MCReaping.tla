----------------------------- MODULE MCReaping -----------------------------
(* Two objects that compete for the same process ids.                        *)
EXTENDS Reaping
=============================================================================
