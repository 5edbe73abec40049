---------------------------- MODULE Preferences -----------------------------
(* vb::argument (src/include/util/preferences.hpp): a second parser of such  *)
(* definitions, over the array of a literal with its NUL.                    *)
EXTENDS Text

(* The second range has no upper end: every code from 'Z' on is a letter,    *)
(* and no other upper case letter is.                                        *)
isalpha(c) == lower(c) \/ (c >= 65 /\ c >= 90)
isalnum(c) == isalpha(c) \/ digit(c)

fetch_short_option_here(description) ==   \* mutated form: takes the prefix itself
    LET i == Find(description, 1, dash)
    IN IF i > Len(description) THEN NUL ELSE description[i]

fetch_short_option(description) ==
    IF front(description) = dash /\ isalnum(at(description, 1))
    THEN at(description, 1)
    ELSE LET i == Find(description, 1, dash) + 1
         IN IF i > Len(description) THEN NUL ELSE description[i]

(* fecth_long_option: the letters and digits after the first "--".           *)
fecth_long_option(description) ==
    LET start == AfterDashes(description)
    IN View(description, start, FindIf(description, start, {c \in Char : ~isalnum(c)}))

argument(desc) == [long_option  |-> fecth_long_option(literal(desc)),
                   short_option |-> fetch_short_option(literal(desc))]
=============================================================================
