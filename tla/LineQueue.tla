----------------------------- MODULE LineQueue -----------------------------
(* What a line-oriented byte stream promises, without indices or system     *)
(* calls: bytes are accepted at one end, in order, and handed out at the    *)
(* other end a line at a time.  The buffer of buffer.hpp implements Spec    *)
(* (it may also hand out an unterminated rest); the pipe of pipe.hpp, fed   *)
(* by writers that write whole lines, implements LineSpec.                  *)
EXTENDS Integers, Sequences

CONSTANTS Byte,   \* the values a char can take, as far as the code tells them apart
          NL,     \* '\n'
          NUL     \* '\0', which the buffer swallows when it follows a '\n'

VARIABLES queue,  \* bytes accepted and not handed out yet
          lines   \* the lines handed out so far, oldest first

qvars == <<queue, lines>>

-----------------------------------------------------------------------------
(* The first line of a sequence of bytes.                                    *)

Newlines(s) == {i \in 1..Len(s) : s[i] = NL}

HasLine(s) == Newlines(s) # {}

FirstNewline(s) == CHOOSE i \in Newlines(s) : \A j \in Newlines(s) : i <= j

LineLen(s) == IF HasLine(s) THEN FirstNewline(s) ELSE Len(s)

FirstLine(s) == SubSeq(s, 1, LineLen(s))

From(s, n) == SubSeq(s, n, Len(s))

(* What may remain once the first line is gone: a NUL right behind the      *)
(* newline may be dropped with it.                                          *)
Rests(s) ==
    LET n == LineLen(s) IN
    {From(s, n + 1)} \union
        {From(s, m) : m \in {k \in {n + 2} : HasLine(s) /\ n < Len(s) /\ s[n + 1] = NUL}}

-----------------------------------------------------------------------------
QTypeOK == queue \in Seq(Byte) /\ lines \in Seq(Seq(Byte))

QInit == queue = <<>> /\ lines = <<>>

(* Bytes arrive behind those already queued.                                *)
Put == /\ Len(queue') >= Len(queue)
       /\ SubSeq(queue', 1, Len(queue)) = queue
       /\ UNCHANGED lines

Take == /\ lines' = Append(lines, FirstLine(queue))
        /\ queue' \in Rests(queue)

TakeLine == HasLine(queue) /\ Take

TakeRest == queue # <<>> /\ ~HasLine(queue) /\ Take

Spec == QInit /\ [][Put \/ TakeLine \/ TakeRest]_qvars

LineSpec == QInit /\ [][Put \/ TakeLine]_qvars
=============================================================================
