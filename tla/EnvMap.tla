------------------------------- MODULE EnvMap -------------------------------
(* What vb::env::environment promises the program it is built for, without   *)
(* definitions, positions and order: a map from names to values.             *)
EXTENDS Sequences

CONSTANTS Names,   \* names of variables
          Values,  \* what variables are given
          Raws,    \* what callers name variables by: a name, or a definition
          Empty,   \* the empty text
          Unset    \* the value of a variable that does not exist

VARIABLES map,    \* what getenv of the program would find for each name
          system  \* the variables of the process itself

mvars == <<map, system>>

(* The value a name has in the process, empty when it has none.              *)
SystemValue(n) == IF system[n] = Unset THEN <<Empty>> ELSE system[n]

MInit == /\ map = [n \in Names |-> Unset]
         /\ system \in [Names -> Values \union {Unset}]

(* A name gets a value and no other name is touched.                         *)
Give(n, value) == map' = [map EXCEPT ![n] = value] /\ UNCHANGED system

Set == \E n \in Names, value \in Values : Give(n, value)

(* Importing copies the value of the moment.  A caller that names the        *)
(* variable by a definition gets what follows the name kept in front.        *)
Import == \E raw \in Raws : Give(Head(raw), Tail(raw) \o SystemValue(Head(raw)))

(* A definition gives its name what follows it.                              *)
Add == \E raw \in Raws : Give(Head(raw), IF Tail(raw) = <<>> THEN <<Empty>> ELSE Tail(raw))

(* Later changes of the process's variables do not reach the program.        *)
SystemChange == UNCHANGED map /\ system' \in [Names -> Values \union {Unset}]

Spec == MInit /\ [][Set \/ Import \/ Add \/ SystemChange]_mvars
=============================================================================
