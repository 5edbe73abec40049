----------------------------- MODULE MCLinePipe -----------------------------
(* LinePipe with two scripts: whole lines, shorter and longer than the       *)
(* buffer of two bytes; and strings that lack a newline, hold several lines  *)
(* or a NUL behind one, or are longer than an atomic write.                  *)
EXTENDS LinePipe, TLC

CONSTANTS nl, nul, a, b, w1, w2

MCScripts == {w1 :> <<<<a, nl>>, <<nl>>>> @@ w2 :> <<<<b, b, nl>>>>,
              w1 :> <<<<a, a, nl, a>>, <<nl, nul, b>>>> @@ w2 :> <<<<b>>>>}
=============================================================================
