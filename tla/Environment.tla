---------------------------- MODULE Environment ----------------------------
(* vb::env of src/include/util/environment.hpp: variables that are one text  *)
(* "NAME=value" with the position of the value, names that are views of such *)
(* a text, and the ordered list of definitions an execution hands to its     *)
(* program.  A text is the sequence of its pieces between '=' characters, so *)
(* that "A=b=c" is <<A, b, c>> and what the code does with positions of '='  *)
(* is done with heads and tails.                                             *)
EXTENDS Integers, Sequences, FiniteSets

CONSTANTS Names, Values, Raws, Empty

Unset == <<>>   \* no text: a name the system has no variable for

ASSUME EnvironmentAssumption ==
    /\ \A value \in Values : value \in Seq(Names \union {Empty}) /\ value # <<>>
    /\ \A raw \in Raws : raw \in Seq(Names \union {Empty}) /\ raw # <<>> /\ Head(raw) \in Names

VARIABLES definitions,  \* member of the environment
          system        \* the variables of the process, as getenv finds them

vars == <<definitions, system>>

Text == Seq(Names \union {Empty}) \ {<<>>}

TypeOK == /\ definitions \in Seq(Text)
          /\ \A i \in DOMAIN definitions : Len(definitions[i]) > 1
                                           /\ Head(definitions[i]) \in Names
          /\ system \in [Names -> Values \union {Unset}]

Init == definitions = <<>> /\ system \in [Names -> Values \union {Unset}]

-----------------------------------------------------------------------------
(* variable_name: name() is the text up to the first '='; the raw text may   *)
(* go on behind it, as it does for the name() of a variable.                 *)
name(raw) == Head(raw)

value_from_system(raw) == system[name(raw)]

(* variable(name, value): the raw text of the name, '=' and the value.       *)
variable(raw, value) == raw \o value

(* variable(definition): a text without '=' gets one.                        *)
variable_without_separator(def) == def   \* mutated form: push_back is missing

variable_of(def) == IF Len(def) = 1 THEN Append(def, Empty) ELSE def

(* set(value): everything behind the first '=' is replaced.                  *)
set_value(def, value) == <<name(def)>> \o value

value_str(def) == Tail(def)

(* from_system: a name without a variable gets an empty value.               *)
from_system(raw) ==
    variable(raw, IF value_from_system(raw) = Unset THEN <<Empty>>
                  ELSE value_from_system(raw))

-----------------------------------------------------------------------------
(* The environment: std::ranges::find by name, the definitions in the order  *)
(* of their last assignment.                                                 *)
Matches(defs, n) == {i \in DOMAIN defs : name(defs[i]) = n}

FirstMatch(defs, n) == CHOOSE i \in Matches(defs, n) : \A j \in Matches(defs, n) : i <= j

Erase(s, i) == [k \in 1..Len(s) - 1 |-> IF k < i THEN s[k] ELSE s[k + 1]]

add_without_erase(def) ==   \* mutated form: the old definition stays
    definitions' = Append(definitions, def)

add_erases_front(def) ==   \* mutated form: erases begin() for what was found
    definitions' = Append(IF Matches(definitions, name(def)) = {} THEN definitions
                          ELSE Tail(definitions), def)

(* What is left of the definitions when those of a name are to be replaced.  *)
Others(defs, n) == IF Matches(defs, n) = {} THEN defs ELSE Erase(defs, FirstMatch(defs, n))

add(def) == definitions' = Append(Others(definitions, name(def)), def)

(* set(name) = value: the constructor of mod copies the value in the system, *)
(* all of which operator= replaces: the two are one step.                    *)
Set(raw, value) == /\ add(set_value(from_system(raw), value))
                   /\ UNCHANGED system

Import(raw) == add(from_system(raw)) /\ UNCHANGED system

Add(def) == add(variable_of(def)) /\ UNCHANGED system

(* setenv and unsetenv of the C library refuse a name with an '=' in it.     *)
setenv(raw, value) == system' = IF Len(raw) = 1 THEN [system EXCEPT ![Head(raw)] = value]
                                ELSE system

(* update_system names the variable by the raw text of its name(), which is  *)
(* its whole definition.                                                     *)
update_system(def) == setenv(def, value_str(def)) /\ UNCHANGED definitions

SystemChange == /\ \E n \in Names, value \in Values \union {Unset} : setenv(<<n>>, value)
                /\ UNCHANGED definitions

Next == \/ \E raw \in Raws : \/ \E value \in Values : Set(raw, value)
                             \/ Import(raw)
                             \/ Add(raw)
        \/ \E i \in DOMAIN definitions : update_system(definitions[i])
        \/ SystemChange

Spec == Init /\ [][Next]_vars

-----------------------------------------------------------------------------
(* getEnv() is the list of definitions, and the program's getenv finds the   *)
(* first one with the name.                                                  *)
ProgramSees(defs, n) == IF Matches(defs, n) = {} THEN Unset
                        ELSE value_str(defs[FirstMatch(defs, n)])

-----------------------------------------------------------------------------
(* What the environment itself is asked: whether it holds a name, the        *)
(* definition of one, and its value, where an empty value counts as none.    *)
contains(raw) == Matches(definitions, name(raw)) # {}

get(raw) == definitions[FirstMatch(definitions, name(raw))]

has_value(def) == value_str(def) # <<Empty>>

value_for_any(raw) ==   \* mutated form: has_value is not asked
    IF contains(raw) THEN value_str(get(raw)) ELSE Unset

value_for(raw) == IF contains(raw) /\ has_value(get(raw)) THEN value_str(get(raw)) ELSE Unset

size == Len(definitions)

is_sync(def) == value_from_system(def) = value_str(def)

(* No name is defined twice, in whatever order names were assigned, imported *)
(* and assigned again: which of two definitions a program would see is up to *)
(* the program.                                                              *)
OneDefinition == \A i, j \in DOMAIN definitions :
                    name(definitions[i]) = name(definitions[j]) => i = j

(* The environment answers what its program will see: contains, value_for    *)
(* (which has no answer for an empty value), and size, which counts names as *)
(* no name is defined twice; and is_sync says whether program and process    *)
(* have the same value, however callers name the variable.                   *)
QueriesAgree ==
    /\ OneDefinition
    /\ \A raw \in Raws : LET seen == ProgramSees(definitions, name(raw)) IN
          /\ contains(raw) <=> seen # Unset
          /\ value_for(raw) = IF seen = <<Empty>> THEN Unset ELSE seen
          /\ contains(raw) => (is_sync(get(raw)) <=> seen = system[name(raw)])
    /\ size = Cardinality({n \in Names : ProgramSees(definitions, n) # Unset})

Map == INSTANCE EnvMap WITH map <- [n \in Names |-> ProgramSees(definitions, n)]

(* What the program sees is a map: an assignment is seen, replaces the value *)
(* before, and touches no other name, and later changes of the process's own *)
(* variables are not seen.                                                   *)
ImplementsMap == Map!Spec
=============================================================================
