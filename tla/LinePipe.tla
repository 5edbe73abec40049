------------------------------ MODULE LinePipe ------------------------------
(* A pipe, its writers and a reader that calls operator()() again and again, *)
(* and what operator()() of src/include/util/pipe.hpp promises of it.        *)
EXTENDS Pipe

VARIABLE moves   \* whether the program moves the object it reads with

vars == <<pvars, moves>>

Init == PInit /\ moves \in BOOLEAN

(* pipe_base(pipe_base&&) between two calls: reading goes on with an object  *)
(* that has the descriptors and an empty buffer.  What was buffered stays in *)
(* the one moved from, which nobody reads.                                   *)
Move_keeps ==   \* mutated form: the bytes come along, their range does not
    /\ moves /\ rpc = "idle"
    /\ used_begin' = 0 /\ used_end' = loaded
    /\ UNCHANGED <<data, kernel, writer, reader>>

Move == /\ moves /\ rpc = "idle"
        /\ data' = [i \in DOMAIN data |-> NUL]
        /\ used_begin' = 0 /\ used_end' = 0
        /\ out' = out \o Content
        /\ UNCHANGED <<kernel, writer, rd_open, wr_open, rpc, result, lines, discarded>>

Next == /\ \/ Reader
           \/ SetDirectionRead
           \/ Move
           \/ \E w \in Writers : Writer(w) \/ Interrupted(w)
        /\ UNCHANGED moves

Spec == Init /\ [][Next]_vars

(* The reader keeps calling and runs; a write that can go on goes on; the    *)
(* object gives up its own write end and a finished writer exits.            *)
Fairness == /\ WF_pvars(Reader)
            /\ WF_pvars(SetDirectionRead)
            /\ \A w \in Writers : WF_pvars(Writer(w))

FairSpec == Spec /\ Fairness

-----------------------------------------------------------------------------
(* Every write call of every writer is a sequence of whole lines and is      *)
(* atomic.                                                                   *)
AtomicLines == \A w \in Writers : \A i \in DOMAIN script[w] :
                  EndsLine(script[w][i]) /\ Len(script[w][i]) <= PIPE_BUF

(* The end of one of the lines of a string that a writer writes.             *)
EndsAScriptLine(line) == \E w \in Writers : \E k \in DOMAIN script[w] :
    LET s == script[w][k] IN
    \E m \in 1..Len(s) : \E n \in 1..m :
       s[m] = NL /\ (\A i \in n..m - 1 : s[i] # NL) /\ line = SubSeq(s, n, m)

(* However the bytes were cut into writes, transfers, reads and lines, the   *)
(* kernel pipe, the buffer and the reader's local hold what was sent and not *)
(* consumed, in order, and a move takes out of it only what was buffered.  A *)
(* call that fails with "No data available" never drops a whole line, even   *)
(* when one arrived between its poll and its return; and a line read behind  *)
(* a move may lack its beginning, but is never run together with another.    *)
BytesInOrder ==
    /\ WithoutNuls(out \o result \o Content \o kernel) = WithoutNuls(sent)
    /\ \A i \in DOMAIN discarded : discarded[i] # NL
    /\ AtomicLines => \A i \in DOMAIN lines : EndsAScriptLine(lines[i])

(* The read end is closed by a read of zero bytes, and that happens only at  *)
(* end of file: a full or exhausted buffer never asks for zero bytes.        *)
ReadEndClosedOnlyAtEof == [][rd_open /\ ~rd_open' => kernel = <<>> /\ NoWriter]_vars

WhenAtomic(s) == IF AtomicLines /\ ~moves THEN s ELSE <<>>

Queue == INSTANCE LineQueue WITH queue <- WhenAtomic(result \o Content \o kernel),
                                 lines <- WhenAtomic(lines)

(* With atomic whole-line writes the pipe is a queue of lines: what is       *)
(* returned is what was written, never a piece of a line or two run          *)
(* together, whatever the buffer's size and also when a writer is            *)
(* interrupted, unless the object is moved.                                  *)
ImplementsLines == Queue!LineSpec

(* Every call returns, with a line or with "No data available".              *)
CallReturns == rpc # "idle" ~> rpc = "idle"

(* With atomic whole-line writes a reader that keeps calling gets them all,  *)
(* but for what a move left behind.                                          *)
AllDelivered == AtomicLines =>
                  <>[](out = sent /\ \A w \in Writers : wpc[w] = "closed")
=============================================================================
