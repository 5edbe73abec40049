-------------------------------- MODULE Pipe --------------------------------
(* vb::pipe_base of src/include/util/pipe.hpp as a line stream: one object   *)
(* reads lines through its buffer while other holders of the write end write *)
(* to the same kernel pipe.  A system call is one step, so anything may      *)
(* happen between the poll, the read and the next poll of one call of        *)
(* operator()(), and between the two writes of one call of operator()(data). *)
EXTENDS Buffer

CONSTANTS Writers,      \* holders of the write end besides the reading object
          VbWriters,    \* those that write with operator()(data...)
          Scripts,      \* what the writers may write: to each a sequence of strings
          CAPACITY,     \* bytes the kernel pipe holds
          PIPE_BUF,     \* writes of at most so many bytes are atomic
          PollInAtEof   \* whether poll sets POLLIN at end of file (not on Linux)

ASSUME PipeAssumption ==
    /\ VbWriters \subseteq Writers
    /\ \A messages \in Scripts :   \* str.back() needs a byte
          messages \in [Writers -> Seq(Seq(Byte) \ {<<>>})]
    /\ PIPE_BUF \in Nat \ {0}
    /\ CAPACITY \in Nat /\ CAPACITY >= PIPE_BUF
    /\ PollInAtEof \in BOOLEAN

VARIABLES rd_open,    \* file_descriptors[0] # -1
          wr_open,    \* file_descriptors[1] # -1
          kernel,     \* the bytes in the kernel pipe
          rpc,        \* where the reader is in operator()()
          result,     \* its local of that name
          wpc,        \* where each writer is in operator()(data...)
          unwritten,  \* the bytes its write call has not transferred yet
          script,     \* the one of Scripts that is written
          todo,       \* the strings each writer has still to finish
          sent,       \* history: every byte the kernel accepted, in order
          lines,      \* history: the lines operator()() returned
          out,        \* history: every byte operator()() returned or dropped
          discarded   \* history: the bytes of `result` dropped by a failed call

buffer == <<data, used_begin, used_end>>
reader == <<rd_open, wr_open, rpc, result, lines, out, discarded>>
writer == <<wpc, unwritten, script, todo, sent>>
pvars  == <<buffer, reader, kernel, writer>>

PInit == /\ BInit
         /\ rd_open = TRUE /\ wr_open = TRUE
         /\ kernel = <<>>
         /\ rpc = "idle" /\ result = <<>>
         /\ wpc = [w \in Writers |-> "ready"]
         /\ unwritten = [w \in Writers |-> <<>>]
         /\ script \in Scripts /\ todo = script
         /\ sent = <<>> /\ lines = <<>> /\ out = <<>> /\ discarded = <<>>

EndsLine(s) == s # <<>> /\ s[Len(s)] = NL

NoWriter == ~wr_open /\ \A w \in Writers : wpc[w] \in {"closed", "broken"}

-----------------------------------------------------------------------------
(* The reader: operator()(), one line per call.                              *)

(* direction() counts an end as there when its descriptor is above 0; that   *)
(* no end has descriptor 0 is assumed here and is the subject of PipeFds.    *)
is_READ  == rd_open
is_WRITE == wr_open

closed == ~has_data /\ (is_READ /\ ~rd_open) /\ (is_WRITE /\ ~wr_open)

(* can_be_read: a poll that does not wait.                                   *)
can_be_read == is_READ /\ (kernel # <<>> \/ (PollInAtEof /\ NoWriter))

Call == /\ rpc = "idle"
        /\ result' = <<>>
        /\ rpc' = IF has_data THEN "unload" ELSE "poll"
        /\ UNCHANGED <<buffer, kernel, writer, rd_open, wr_open, lines, out, discarded>>

PollReadable == /\ rpc = "poll" /\ can_be_read
                /\ rpc' = "read"
                /\ UNCHANGED <<buffer, kernel, writer, rd_open, wr_open, result,
                               lines, out, discarded>>

PollEmptyWaits ==   \* mutated form: the loop polls again instead of failing
    /\ rpc = "poll" /\ ~can_be_read
    /\ UNCHANGED pvars

(* Nothing buffered and nothing readable: the call fails with "No data       *)
(* available", and what it had gathered in `result` goes with it.  A signal  *)
(* that interrupts the poll has the same effect by an exception; a read of   *)
(* something readable is not interrupted, so no read fails with EINTR.       *)
PollEmpty == /\ rpc = "poll" /\ ~can_be_read
             /\ rpc' = "idle"
             /\ result' = <<>>
             /\ out' = out \o result
             /\ discarded' = discarded \o result
             /\ UNCHANGED <<buffer, kernel, writer, rd_open, wr_open, lines>>

ReadSize == IF Len(kernel) < free THEN Len(kernel) ELSE free

(* buffer_load: the read blocks while there is a writer and no byte; no      *)
(* byte read is taken for end of file and closes the read end.               *)
BufferLoad ==
    /\ rpc = "read"
    /\ kernel # <<>> \/ NoWriter \/ free = 0
    /\ load(SubSeq(kernel, 1, ReadSize))
    /\ kernel' = SubSeq(kernel, ReadSize + 1, Len(kernel))
    /\ rd_open' = (rd_open /\ ReadSize # 0)
    /\ rpc' = IF has_data' THEN "unload" ELSE "poll"
    /\ UNCHANGED <<writer, wr_open, result, lines, out, discarded>>

CompleteAny(s) == s # <<>>   \* mutated form: the loop runs only once

(* The loop of operator()() goes on until `result` ends in '\n'.             *)
Complete(s) == EndsLine(s)

Unload ==
    /\ rpc = "unload"
    /\ unload_line
    /\ IF Complete(result \o Line)
       THEN /\ lines' = Append(lines, result \o Line)
            /\ out' = out \o result \o Line
            /\ result' = <<>>
            /\ rpc' = "idle"
       ELSE /\ result' = result \o Line
            /\ rpc' = IF has_data' THEN "unload" ELSE "poll"
            /\ UNCHANGED <<lines, out>>
    /\ UNCHANGED <<kernel, writer, rd_open, wr_open, discarded>>

SetDirectionWrong ==   \* mutated form: close(dir) for close(!dir)
    /\ rpc = "idle" /\ wr_open
    /\ rd_open' = FALSE
    /\ UNCHANGED <<buffer, kernel, writer, wr_open, rpc, result, lines, out, discarded>>

(* set_direction<READ>(): close the write end, keep the read end.            *)
SetDirectionRead == /\ rpc = "idle" /\ wr_open
                    /\ wr_open' = FALSE
                    /\ UNCHANGED <<buffer, kernel, writer, rd_open, rpc, result,
                                   lines, out, discarded>>

Reader == Call \/ PollReadable \/ PollEmpty \/ BufferLoad \/ Unload

-----------------------------------------------------------------------------
(* A writer: write the string, then a newline unless it ended in one.        *)

StartWrite(w) ==
    /\ wpc[w] = "ready" /\ todo[w] # <<>>
    /\ wpc' = [wpc EXCEPT ![w] = "data"]
    /\ unwritten' = [unwritten EXCEPT ![w] = Head(todo[w])]
    /\ UNCHANGED <<buffer, reader, kernel, script, todo, sent>>

(* How many bytes one transfer of a blocking write may move.                 *)
Transfers(w) ==
    LET n == Len(unwritten[w])
        call == IF wpc[w] = "data" THEN Len(Head(todo[w])) ELSE 1
        room == CAPACITY - Len(kernel)
    IN IF call <= PIPE_BUF THEN {n} \intersect 0..room
       ELSE {k \in 1..n : k <= room}

(* Where a writer is once its write call has transferred everything.         *)
Finished(w) ==
    IF wpc[w] = "data" /\ w \in VbWriters /\ ~EndsLine(Head(todo[w]))
    THEN /\ wpc' = [wpc EXCEPT ![w] = "newline"]
         /\ unwritten' = [unwritten EXCEPT ![w] = <<NL>>]
         /\ UNCHANGED todo
    ELSE /\ wpc' = [wpc EXCEPT ![w] = "ready"]
         /\ unwritten' = [unwritten EXCEPT ![w] = <<>>]
         /\ todo' = [todo EXCEPT ![w] = Tail(todo[w])]

Transfer(w) ==
    \E k \in Transfers(w) :
       LET moved == SubSeq(unwritten[w], 1, k) IN
       /\ kernel' = kernel \o moved
       /\ sent' = sent \o moved
       /\ IF k = Len(unwritten[w]) THEN Finished(w)
          ELSE /\ unwritten' = [unwritten EXCEPT ![w] = SubSeq(@, k + 1, Len(@))]
               /\ UNCHANGED <<wpc, todo>>

(* EPIPE: no reader is left, so the write fails and the writer gives up.     *)
WriteBroken(w) == /\ wpc' = [wpc EXCEPT ![w] = "broken"]
                  /\ UNCHANGED <<kernel, unwritten, todo, sent>>

Write(w) == /\ wpc[w] \in {"data", "newline"}
            /\ IF rd_open THEN Transfer(w) ELSE WriteBroken(w)
            /\ UNCHANGED <<buffer, reader, script>>

(* A signal while a write waits for room.  Nothing transferred yet: sys::write *)
(* throws and the call is over.  Otherwise write returns the count so far,   *)
(* which operator()(data...) does not look at: it goes on as if all of the   *)
(* string were written.                                                      *)
Interrupted(w) ==
    /\ w \in VbWriters /\ wpc[w] \in {"data", "newline"}
    /\ rd_open /\ Transfers(w) = {}
    /\ IF wpc[w] = "data" /\ unwritten[w] # Head(todo[w]) THEN Finished(w)
       ELSE /\ wpc' = [wpc EXCEPT ![w] = "ready"]
            /\ unwritten' = [unwritten EXCEPT ![w] = <<>>]
            /\ todo' = [todo EXCEPT ![w] = Tail(todo[w])]
    /\ UNCHANGED <<buffer, reader, kernel, script, sent>>

CloseWriter(w) ==
    /\ wpc[w] = "ready" /\ todo[w] = <<>>
    /\ wpc' = [wpc EXCEPT ![w] = "closed"]
    /\ UNCHANGED <<buffer, reader, kernel, unwritten, script, todo, sent>>

Writer(w) == StartWrite(w) \/ Write(w) \/ CloseWriter(w)
=============================================================================
