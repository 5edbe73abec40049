----------------------------- MODULE LineBuffer -----------------------------
(* A buffer_type and its user: readers that store any bytes that fit, fail   *)
(* or store nothing, and calls of unload_line in any order, with the history *)
(* the properties of src/include/util/buffer.hpp are stated over.            *)
EXTENDS Buffer

CONSTANT MaxStored   \* bound: bytes stored in a run, for model checking

ASSUME MaxStoredAssumption == MaxStored \in Nat

VARIABLES stored,   \* history: every byte a reader stored, in order
          taken,    \* history: every byte handed out, in order
          unloaded  \* history: the lines handed out

lbvars == <<data, used_begin, used_end, stored, taken, unloaded>>

LBTypeOK == /\ BTypeOK
            /\ stored \in Seq(Byte)
            /\ taken \in Seq(Byte)
            /\ unloaded \in Seq(Seq(Byte))

LBInit == BInit /\ stored = <<>> /\ taken = <<>> /\ unloaded = <<>>

Strings(n) == UNION {[1..k -> Byte] : k \in 0..n}

Load == \E read \in Strings(free) :
            /\ Len(stored) + Len(read) <= MaxStored
            /\ load(read)
            /\ stored' = stored \o read
            /\ UNCHANGED <<taken, unloaded>>

LoadFailed == loadFailed /\ UNCHANGED <<stored, taken, unloaded>>

UnloadLine == /\ unload_line
              /\ taken' = taken \o Line
              /\ unloaded' = Append(unloaded, Line)
              /\ UNCHANGED stored

UnloadEmpty == ~has_data /\ UNCHANGED lbvars   \* returns "" and changes nothing

LBNext == Load \/ LoadFailed \/ UnloadLine \/ UnloadEmpty

LBSpec == LBInit /\ [][LBNext]_lbvars

-----------------------------------------------------------------------------
(* An empty buffer has its whole storage free.  The pipe reads only into an  *)
(* empty buffer and takes a read of zero bytes for end of file, so a range   *)
(* that ran empty at the end of the array would close the pipe.              *)
EmptyIsAllFree == ~has_data => free = BUFFER_SIZE

(* Across loads, partial lines and resets of the range no byte but a NUL is  *)
(* lost, duplicated or reordered between load and unload_line.               *)
NothingLost == WithoutNuls(taken \o Content) = WithoutNuls(stored)

BufferQueue == INSTANCE LineQueue WITH queue <- Content, lines <- unloaded

(* The index arithmetic implements the line queue: unload_line hands out the *)
(* first line of what is loaded, or all of it, and drops at most a NUL       *)
(* behind the newline; load only appends.                                    *)
ImplementsQueue == BufferQueue!Spec
=============================================================================
