------------------------------ MODULE Parsing -------------------------------
(* Every text up to a length, grown a character at a time, as the definition *)
(* of an option, as an argument, and as a list: what the parsers of options, *)
(* preferences and lists make of it against what the text says.              *)
EXTENDS StringList, Options, Preferences

CONSTANTS Alphabet,  \* the characters texts are made of
          LENGTH,    \* the longest text
          Shorts,    \* short keys that definitions of options name
          Longs      \* long keys that they name

ASSUME ParsingAssumption ==
    /\ Alphabet \subseteq Char \ {NUL}
    /\ LENGTH \in Nat /\ NO_MAXIMUM \in Nat /\ NO_MAXIMUM > LENGTH + 1
    /\ Shorts \subseteq Char \ {dash}
    /\ Longs \subseteq Seq(Char)
    /\ \A l \in Longs : \A i \in DOMAIN l : is_word(l[i])

VARIABLE text

Init == text = <<>>

Next == /\ Len(text) < LENGTH
        /\ \E c \in Alphabet : text' = Append(text, c)

Spec == Init /\ [][Next]_text

-----------------------------------------------------------------------------
(* The arguments an option with a short and a long key takes and the value   *)
(* they carry: "-s" and "-sVALUE", "--long" and "--long=VALUE".              *)
Carries(s, l, arg) ==
    \/ IsPrefix(<<dash, s>>, arg)
    \/ arg = <<dash, dash>> \o l
    \/ IsPrefix(<<dash, dash>> \o l \o <<equals>>, arg)

CarriedValue(l, arg) ==
    IF Long(arg) THEN SubSeq(arg, Len(l) + 4, Len(arg)) ELSE SubSeq(arg, 3, Len(arg))

ShortFirst(s, l) == <<dash, s, comma, space, dash, dash>> \o l \o <<colon>>
LongFirst(s, l)  == <<dash, dash>> \o l \o <<comma, space, dash, s, colon>>

(* The keys an option has of them: the long one stops at its first '-', and  *)
(* the short one of a definition that names the long one first is the first  *)
(* letter behind the dashes, whatever key stands after the comma.            *)
Cut(l) == View(l, 1, Find(l, 1, dash))

FirstLetter(l) == LET t == Append(l, comma) IN t[FindIf(t, 1, Char \ {dash})]

(* The option of a definition takes exactly the arguments written with these *)
(* keys, with the value they carry; an argument of fewer than two characters *)
(* throws.                                                                   *)
Takes(definition, s, l) ==
    LET o     == basic(definition)
        taken == Carries(s, l, text)
        value == CarriedValue(l, text)
    IN IF Len(text) < 2
       THEN parse(o, text) = OutOfRange /\ parse_bool(o, text) = OutOfRange
       ELSE /\ parse_bool(o, text) = Some(taken)
            /\ parse(o, text) = IF taken /\ value # <<>> THEN Some(value) ELSE None
            /\ \A d \in BOOLEAN : parse_default(o, d, text) = Some(taken # d)

(* An option takes its own arguments and no others, but its keys are not     *)
(* always the ones its definition names: they are the short key only if it   *)
(* is named first, and of the long key only what stands before a '-'.  The   *)
(* option of "--all-files, -f:" takes "--all" and "-a" and not "-f".         *)
TakesItsArguments ==
    \A s \in Shorts, l \in Longs : /\ Takes(ShortFirst(s, l), s, Cut(l))
                                  /\ Takes(LongFirst(s, l), FirstLetter(l), Cut(l))

-----------------------------------------------------------------------------
(* Both parsers of definitions look for the long key after the first "--";   *)
(* their keys are equal unless the character where the shorter one stops is  *)
(* an upper case letter other than 'Z', which one does not take for a        *)
(* letter, or a code after 'Z' that is none, which it does.                  *)
LongKeysAgree ==
    LET k == basic(text).key
        l == argument(text).long_option
        c == text[AfterDashes(text) + Min({Len(k), Len(l)})]
    IN k = l \/ (upper(c) /\ c # 90) \/ (c > 90 /\ ~is_word(c))

(* Their short keys are equal unless the first '-' of the text is that of a  *)
(* "--", which one takes '-' from and the other the letter after it.         *)
ShortKeysAgree ==
    \/ basic(text).shortkey = argument(text).short_option
    \/ LET i == Find(text, 1, dash) IN i < Len(text) /\ text[i+1] = dash

(* Two parsers of one notation agree on it: both of these.                   *)
KeysAgree == LongKeysAgree /\ ShortKeysAgree

-----------------------------------------------------------------------------
Join(parts, separator) == FoldLeft(LAMBDA x, y : Append(x, separator) \o y, Head(parts), Tail(parts))

Separators(s) == {i \in DOMAIN s : s[i] = comma}

(* The parts of a list joined by the separator are the list again, only the  *)
(* last of them may contain a separator and does so only when a maximum left *)
(* no room for more parts, and an array has empty views after them.          *)
PartsJoin ==
    \A MAX \in 1..LENGTH \union {NO_MAXIMUM} :
        LET parts == split_string(text, comma, MAX)
            count == count_parts(text, comma, MAX)
            used  == SubSeq(parts, 1, count)
        IN /\ Join(used, comma) = text
           /\ \A k \in 1..(count - 1) : Separators(parts[k]) = {}
           /\ Separators(parts[count]) # {} => count = MAX
           /\ \A k \in (count + 1)..Len(parts) : parts[k] = <<>>
           /\ splited(text, comma, MAX) = used

Slices(s) == {SubSeq(s, i, j) : i, j \in 1..Len(s)}

(* A slice of a literal is that slice of its text, cut at its end, whatever  *)
(* the start and the length; past the end there are only NULs.  Literals are *)
(* equal when their texts are, and an array without the NUL equals none of   *)
(* them, though its view may be the same.                                    *)
SlicesOfText ==
    LET content == literal(text) IN
    /\ view(content) = text
    /\ \A start, len \in 0..(LENGTH + 2) :
          substr(content, start, len) = SubSeq(text, start + 1, Min({Len(text), start + len}))
    /\ \A pos \in 0..(LENGTH + 2) :
          at(content, pos) = IF pos < Len(text) THEN text[pos + 1] ELSE NUL
    /\ back(content) = NUL
    /\ text # <<>> => front(content) = Head(text) /\ last(content) = Last(text)
    /\ \A t \in Slices(text) : /\ Equal(content, literal(t)) <=> t = text
                              /\ t # <<>> => view(t) = t /\ ~Equal(content, t)

(* Nothing of a text is lost or invented by taking it apart: both of these.  *)
SplitsBack == PartsJoin /\ SlicesOfText
=============================================================================
