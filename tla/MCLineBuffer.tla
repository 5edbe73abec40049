---------------------------- MODULE MCLineBuffer ----------------------------
(* LineBuffer on a storage of three bytes over four kinds of byte.           *)
EXTENDS LineBuffer
=============================================================================
