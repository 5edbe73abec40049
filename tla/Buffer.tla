------------------------------- MODULE Buffer -------------------------------
(* vb::buffer_type<BUFFER_SIZE> of src/include/util/buffer.hpp: a linear     *)
(* array with a used range [used_begin, used_end).  Bytes are loaded behind  *)
(* used_end, lines are taken from used_begin, and the range moves back to    *)
(* the start of the array only when it becomes empty.                        *)
EXTENDS Integers, Sequences

CONSTANTS BUFFER_SIZE, Byte, NL, NUL

ASSUME BufferAssumption == /\ BUFFER_SIZE \in Nat \ {0}
                           /\ NL \in Byte /\ NUL \in Byte /\ NL # NUL

VARIABLES data,        \* the storage, indexed from 0 like the array
          used_begin,  \* index of the first byte not handed out
          used_end     \* index behind the last byte loaded

bvars == <<data, used_begin, used_end>>

BTypeOK == /\ data \in [0..BUFFER_SIZE - 1 -> Byte]
           /\ used_begin \in 0..BUFFER_SIZE
           /\ used_end \in 0..BUFFER_SIZE
           /\ used_begin <= used_end

BInit == /\ data = [i \in 0..BUFFER_SIZE - 1 |-> NUL]
         /\ used_begin = 0
         /\ used_end = 0

has_data == used_begin # used_end

loaded == used_end - used_begin

free_of_loaded == BUFFER_SIZE - loaded   \* mutated form: counts the front gap too

free == BUFFER_SIZE - used_end

Content == [k \in 1..loaded |-> data[used_begin + k - 1]]

(* A sequence of bytes without its NULs, which unload_line may drop: what    *)
(* SelectSeq would give, as a function that a proof can unfold.              *)
WithoutNuls(s) ==
    LET kept[n \in 0..Len(s)] ==
          IF n = 0 THEN <<>>
          ELSE IF s[n] # NUL THEN Append(kept[n - 1], s[n]) ELSE kept[n - 1]
    IN kept[Len(s)]

-----------------------------------------------------------------------------
(* load: the reader stores `read` behind used_end.  A reader that returns    *)
(* FAILURE leaves the range alone (what it may have stored is dead data).    *)

load_over_range(read) ==   \* mutated form: the reader is given &*used_begin
    /\ Len(read) <= free
    /\ data' = [i \in DOMAIN data |->
                  IF i \in used_begin..used_begin + Len(read) - 1
                  THEN read[i - used_begin + 1] ELSE data[i]]
    /\ used_end' = used_end + Len(read)
    /\ UNCHANGED used_begin

load(read) ==
    /\ Len(read) <= free
    /\ data' = [i \in DOMAIN data |->
                  IF i \in used_end..used_end + Len(read) - 1
                  THEN read[i - used_end + 1] ELSE data[i]]
    /\ used_end' = used_end + Len(read)
    /\ UNCHANGED used_begin

loadFailed == UNCHANGED bvars

-----------------------------------------------------------------------------
(* unload_line: one line, or what there is when no newline is in the range.  *)

valid_equal(what, value) == what # used_end /\ data[what] = value

(* std::ranges::find(used_begin, used_end, '\n')                             *)
FindNL == CHOOSE i \in used_begin..used_end :
             /\ i = used_end \/ data[i] = NL
             /\ \A j \in used_begin..i - 1 : data[j] # NL

consume_end_past_one ==   \* mutated form: skips a byte whatever it is
    IF ~valid_equal(FindNL, NL) THEN FindNL
    ELSE IF FindNL + 1 # used_end THEN FindNL + 2 ELSE FindNL + 1

consume_end ==
    IF ~valid_equal(FindNL, NL) THEN FindNL
    ELSE IF valid_equal(FindNL + 1, NUL) THEN FindNL + 2 ELSE FindNL + 1

Line == [k \in 1..(IF valid_equal(FindNL, NL) THEN FindNL + 1 ELSE FindNL) - used_begin
            |-> data[used_begin + k - 1]]

unload_line_no_reset ==   \* mutated form: the range never moves back
    /\ has_data
    /\ used_begin' = consume_end
    /\ UNCHANGED <<data, used_end>>

unload_line_drops_rest ==   \* mutated form: a newline empties the range
    /\ has_data
    /\ used_begin' = 0 /\ used_end' = 0
    /\ UNCHANGED data

unload_line ==
    /\ has_data
    /\ IF consume_end = used_end
       THEN used_begin' = 0 /\ used_end' = 0
       ELSE used_begin' = consume_end /\ UNCHANGED used_end
    /\ UNCHANGED data
=============================================================================
