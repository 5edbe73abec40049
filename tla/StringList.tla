----------------------------- MODULE StringList -----------------------------
(* Lists in a text (src/include/util/string_list.hpp): how many parts it     *)
(* has and what they are.                                                    *)
EXTENDS Text

CONSTANT NO_MAXIMUM   \* the largest std::size_t: longer than any text

count_parts(source, separator, max_count) ==
    Min({Cardinality({i \in DOMAIN source : source[i] = separator}) + 1, max_count})

(* The iterator the transform keeps: where each of count parts begins.       *)
Begins(source, separator, count) ==
    LET it[k \in 1..count] ==
            IF k = 1 THEN 1
            ELSE LET end == Find(source, it[k-1], separator)
                 IN IF end = End(source) THEN end ELSE end + 1
    IN it

split_string_stops(source, separator, MAX) ==   \* mutated form: no rest in the last part
    LET it == Begins(source, separator, count_parts(source, separator, MAX))
    IN [k \in DOMAIN it |-> View(source, it[k], Find(source, it[k], separator))]

(* split_string<MAX>: the last part is the rest of the text; a vector of the *)
(* parts, or an array of MAX views that are empty after the parts.           *)
split_string(source, separator, MAX) ==
    LET count == count_parts(source, separator, MAX)
        it    == Begins(source, separator, count)
        part(k) == View(source, it[k],
                        IF k = count THEN End(source) ELSE Find(source, it[k], separator))
    IN [k \in 1..(IF MAX = NO_MAXIMUM THEN count ELSE MAX) |->
            IF k <= count THEN part(k) ELSE <<>>]

(* splited<STR>: of a literal, into an array of as many views as parts.      *)
splited(s, separator, MAX) ==
    LET source == view(literal(s))
    IN split_string(source, separator, count_parts(source, separator, MAX))
=============================================================================
