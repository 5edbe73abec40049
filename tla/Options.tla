------------------------------ MODULE Options -------------------------------
(* Command line options: a definition such as "-t, --test: Testing" and the  *)
(* arguments it takes (src/include/util/option/description.hpp and           *)
(* src/include/util/options.hpp).  What parse returns is tagged: it may be   *)
(* a value, none, or an exception.                                           *)
EXTENDS Text

no_short_key == NUL

is_word(c) == lower(c) \/ upper(c) \/ digit(c) \/ c \in {95, dash}

Stops == {c \in Char : ~is_word(c) \/ c \in {dash, colon}}

locate_end(start, definition) ==
    View(definition, start, FindIf(definition, start, Stops))

locate_key(definition) == locate_end(AfterDashes(definition), definition)

(* The search goes on behind the view, up to the NUL that ends the C string  *)
(* it is a part of.  From a separator on, which no word begins with, it is   *)
(* empty; without one it begins behind the view.                             *)
locate_description(definition, behind) ==
    locate_end(Find(definition, 1, colon), definition \o behind)

locate_shortkey(definition) ==
    LET I == {i \in 1..(Len(definition) - 1) :
                 definition[i] = dash /\ definition[i+1] # dash}
    IN IF I = {} THEN no_short_key ELSE definition[Min(I) + 1]

(* basic: the keys are found once, when the option is made, of a literal,    *)
(* behind which there is nothing.                                            *)
basic(definition) == [key         |-> locate_key(definition),
                      description |-> locate_description(definition, <<>>),
                      shortkey    |-> locate_shortkey(definition)]

-----------------------------------------------------------------------------
Long(str) == IsPrefix(<<dash, dash>>, str)

(* operator==(view): "--" and the key, or '-' and then the short key, with   *)
(* anything after it.                                                        *)
Matches_any(o, str) ==   \* mutated form: a prefix of the key is enough
    \/ Long(str) /\ IsPrefix(SubSeq(str, 3, Len(str)), o.key)
    \/ Len(str) >= 2 /\ str[1] = dash /\ str[2] = o.shortkey

Matches(o, str) ==
    \/ Long(str) /\ SubSeq(str, 3, Len(str)) = o.key
    \/ Len(str) >= 2 /\ str[1] = dash /\ str[2] = o.shortkey

(* split: at the first '=' of a long argument, after two characters of any   *)
(* other; substr(2) throws when there are fewer.                             *)
Splits(str) == Long(str) \/ Len(str) >= 2

Key(str) == IF Long(str) THEN View(str, 1, Find(str, 1, equals)) ELSE SubSeq(str, 1, 2)

Value(str) == IF Long(str) THEN SubSeq(str, Find(str, 1, equals) + 1, Len(str))
                           ELSE SubSeq(str, 3, Len(str))

OutOfRange == <<"out_of_range">>
None       == <<"none">>
Some(v)    == <<"some", v>>

(* basic_option<bool>::parse and basic_option<std::string>::parse.           *)
parse_bool(o, str) ==
    IF ~Splits(str) THEN OutOfRange ELSE Some(Matches(o, Key(str)))

parse(o, str) ==
    IF ~Splits(str) THEN OutOfRange
    ELSE IF Matches(o, Key(str)) /\ Value(str) # <<>> THEN Some(Value(str))
    ELSE None

(* default_option<bool>::parse.                                              *)
parse_default(o, my_default, str) ==
    IF ~Splits(str) THEN OutOfRange
    ELSE Some(IF Matches(o, Key(str)) THEN ~my_default ELSE my_default)
=============================================================================
