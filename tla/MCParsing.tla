----------------------------- MODULE MCParsing ------------------------------
(* Texts over one character of each class the parsers tell apart: a lower    *)
(* and an upper case letter, a digit, the '|' past the letters, and the      *)
(* characters that have a meaning.  Long keys with a '-' behind, before and  *)
(* instead of their letters are among them.                                  *)
EXTENDS Parsing

MCAlphabet == {116, 84, 49, 124, dash, colon, equals, comma}
MCShorts   == {116, 84}
MCLongs    == {<<116>>, <<116, 49>>, <<49, 84, 116>>, <<116, dash, 49>>, <<dash, 84>>, <<dash>>}
=============================================================================
