-------------------------------- MODULE Text --------------------------------
(* Texts as the parsers of src/include/util see them: sequences of the codes *)
(* of their characters, which the code compares with ranges of characters.   *)
(* Positions count from 1 and the end of a text is the position after it, as *)
(* end() is.  The static_string of string.hpp, an array that usually ends    *)
(* with the NUL of the literal it was made of, is here as well.              *)
EXTENDS Integers, SequencesExt

NUL == 0  space == 32  comma == 44  dash == 45  colon == 58  equals == 61

Char == 0..127

lower(c) == c \in 97..122
upper(c) == c \in 65..90
digit(c) == c \in 48..57

End(s) == Len(s) + 1

(* std::ranges::find_if from a position on, for the first character of a     *)
(* set: the end when there is none.                                          *)
FindIf(s, from, C) == LET i == SelectInSubSeq(s, from, Len(s), LAMBDA c : c \in C)
                      IN IF i = 0 THEN End(s) ELSE i

Find(s, from, c) == FindIf(s, from, {c})

View(s, from, to) == SubSeq(s, from, to - 1)   \* string_view(from, to)

(* Where the first "--" of a text ends: std::ranges::search(...).end().      *)
AfterDashes(s) ==
    LET I == {i \in 1..(Len(s) - 1) : s[i] = dash /\ s[i+1] = dash}
    IN IF I = {} THEN End(s) ELSE Min(I) + 2

-----------------------------------------------------------------------------
(* static_string: its members on the array called content.                   *)
literal(s) == Append(s, NUL)   \* the array of a literal

size(content) == Len(content) - (IF Last(content) = NUL THEN 1 ELSE 0)

view(content) == SubSeq(content, 1, size(content))

at(content, pos) == IF pos >= size(content) THEN NUL ELSE content[pos + 1]

substr(content, start, len) ==
    IF start >= size(content) THEN <<>>
    ELSE SubSeq(content, start + 1, start + Min({size(content) - start, len}))

front(content) == IF Len(content) = 0 THEN NUL ELSE Head(content)
back(content)  == IF Len(content) = 0 THEN NUL ELSE Last(content)

(* last: the last element that is not NUL, if there is one.                  *)
last(content) == content[SelectLastInSeq(content, LAMBDA c : c # NUL)]

(* operator== compares the arrays, and arrays of different lengths, which    *)
(* are objects of different types, are never equal.                          *)
Equal(content, other) == content = other
=============================================================================
