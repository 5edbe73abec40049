----------------------------- MODULE Generator -----------------------------
(* vb::generator (src/include/util/generator.hpp): a coroutine that yields   *)
(* values, and loops over it.  A generator has no copy constructor of its    *)
(* own, so copies share the coroutine and have each a current value of their *)
(* own; every loop here goes over such a copy.  A value is its position      *)
(* among those the coroutine yields.                                         *)
EXTENDS Integers, Sequences, FiniteSets

CONSTANTS Loops,   \* loops over copies of one generator
          Length   \* bound: how many values the coroutine yields at most

ASSUME GeneratorAssumption == Length \in Nat /\ IsFiniteSet(Loops)

Default == 0   \* value_type{}
NoValue == -1  \* an empty optional

VARIABLES at,       \* values yielded so far: where the coroutine is suspended
          finished, \* handle.done()
          promised, \* current of the promise
          exception,\* whether the promise holds one
          current,  \* current of each copy
          pc,       \* of each loop: "out", "test", "body", "threw"
          seen,     \* history: values each loop had in its body
          caught    \* history: exceptions that came out of a loop

vars == <<at, finished, promised, exception, current, pc, seen, caught>>

coroutine == <<at, finished, promised, exception>>

TypeOK == /\ at \in 0..Length
          /\ finished \in BOOLEAN
          /\ promised = IF at = 0 THEN NoValue ELSE at
          /\ exception \in BOOLEAN
          /\ current \in [Loops -> 0..Length]
          /\ pc \in [Loops -> {"out", "test", "body", "threw"}]
          /\ seen \in [Loops -> Seq(1..Length)]
          /\ caught \in Nat

(* The coroutine starts suspended (initial_suspend).                         *)
Init == /\ at = 0 /\ finished = FALSE /\ promised = NoValue /\ exception = FALSE
        /\ current = [l \in Loops |-> Default]
        /\ pc = [l \in Loops |-> "out"]
        /\ seen = [l \in Loops |-> <<>>]
        /\ caught = 0

-----------------------------------------------------------------------------
(* next() for a loop that goes on to its end test: resume() does nothing to  *)
(* a coroutine that is over, and otherwise runs it to the next suspension.   *)
Over(l) == /\ finished
           /\ current' = [current EXCEPT ![l] = Default]
           /\ UNCHANGED coroutine

yield_not_kept(l) == /\ ~finished /\ at < Length   \* mutated form: the promise keeps
                     /\ at' = at + 1                \* the value before
                     /\ current' = [current EXCEPT ![l] = at + 1]
                     /\ UNCHANGED <<finished, promised, exception>>

yield_value(l) == /\ ~finished /\ at < Length
                  /\ at' = at + 1
                  /\ promised' = at + 1
                  /\ current' = [current EXCEPT ![l] = at + 1]
                  /\ UNCHANGED <<finished, exception>>

(* The coroutine may return anywhere; the promise still has the last value.  *)
final_suspend(l) ==
    /\ ~finished
    /\ finished' = TRUE
    /\ current' = [current EXCEPT ![l] = IF promised = NoValue THEN Default ELSE promised]
    /\ UNCHANGED <<at, promised, exception>>

next(l) == Over(l) \/ yield_value(l) \/ final_suspend(l)

(* Or throw: resume() rethrows, in the call that ended the coroutine.        *)
unhandled_exception(l) ==
    /\ ~finished
    /\ finished' = TRUE /\ exception' = TRUE
    /\ UNCHANGED <<at, promised, current>>

exception_swallowed(l) ==   \* mutated form: nothing is rethrown
    /\ next(l) \/ unhandled_exception(l)
    /\ pc' = [pc EXCEPT ![l] = "test"]
    /\ UNCHANGED <<seen, caught>>

(* ++ of an iterator, and begin(), which is the first one.                   *)
Increment(l) ==
    /\ \/ /\ next(l)
          /\ pc' = [pc EXCEPT ![l] = "test"]
          /\ UNCHANGED caught
       \/ /\ unhandled_exception(l)
          /\ pc' = [pc EXCEPT ![l] = "threw"]
          /\ caught' = caught + 1
    /\ UNCHANGED seen

begin(l) == pc[l] \in {"out", "threw"} /\ Increment(l)

Continue(l) == pc[l] = "body" /\ Increment(l)

Break(l) == /\ pc[l] = "body"
            /\ pc' = [pc EXCEPT ![l] = "out"]
            /\ UNCHANGED <<coroutine, current, seen, caught>>

(* Comparison with the sentinel asks the coroutine, not the iterator.        *)
AtEndByValue(l) == current[l] = Default             \* mutated form
AtEndEarly(l) == finished \/ promised = Length  \* mutated form

AtEnd(l) == finished

Test(l) ==
    /\ pc[l] = "test"
    /\ IF AtEnd(l)
       THEN pc' = [pc EXCEPT ![l] = "out"] /\ UNCHANGED seen
       ELSE /\ pc' = [pc EXCEPT ![l] = "body"]
            /\ seen' = [seen EXCEPT ![l] = Append(@, current[l])]
    /\ UNCHANGED <<coroutine, current, caught>>

Next == \E l \in Loops : begin(l) \/ Continue(l) \/ Break(l) \/ Test(l)

Spec == Init /\ [][Next]_vars

-----------------------------------------------------------------------------
(* A loop sees values in the order the coroutine yields them, and no value   *)
(* is seen twice, by one loop or by two, however they are interleaved, left  *)
(* and begun again.                                                          *)
InOrder == \A l \in Loops : \A i, j \in DOMAIN seen[l] : i < j => seen[l][i] < seen[l][j]

NotShared == \A l, m \in Loops : \A i \in DOMAIN seen[l], j \in DOMAIN seen[m] :
                l # m => seen[l][i] # seen[m][j]

InOrderOnce == InOrder /\ NotShared

Unseen == {v \in 1..at : \A l \in Loops : \A i \in DOMAIN seen[l] : seen[l][i] # v}

(* A loop that runs alone sees every value, and with others a value is lost  *)
(* only to a loop between its increment and its test when another one runs   *)
(* the coroutine to its end.                                                 *)
LostToTheEnd == Cardinality(Unseen) <=
    IF finished THEN Cardinality(Loops) - 1
    ELSE Cardinality({l \in Loops : pc[l] = "test"})

(* The exception that ends a coroutine reaches one loop, once.               *)
ThrownOnce == caught = IF exception THEN 1 ELSE 0
=============================================================================
