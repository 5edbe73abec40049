--------------------------- MODULE MCEnvironment ---------------------------
(* Two names, an empty value, one that holds a name, and callers that name a *)
(* variable by a definition of it.                                           *)
EXTENDS Environment

CONSTANTS A, B

MCValues == {<<Empty>>, <<A>>}
MCRaws   == {<<A>>, <<B>>, <<A, B>>}
=============================================================================
