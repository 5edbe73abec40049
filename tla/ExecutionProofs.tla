--------------------------- MODULE ExecutionProofs ---------------------------
(* Proofs about an execution and the iteration over its output, for any      *)
(* script of the program, any exit code, any sizes of the buffer and of the  *)
(* pipes, and any use of the object by the loop body.  What a step does to   *)
(* the pipe is taken from LinePipeProofs.                                    *)
EXTENDS Execution, LinePipeProofs

-----------------------------------------------------------------------------
(* The status and the process.                                               *)

StatusInv ==
    /\ proc \in {"none", "running", "zombie", "reaped"}
    /\ proc = "none" <=> epc = "init"
    /\ StatusOnce

LEMMA StatusIsKnown == WEXITSTATUS # NoStatus
BY ExecutionAssumption DEF WEXITSTATUS, NoStatus

(* A call that waits keeps the invariant while the child's descriptors stay. *)
LEMMA ExecWaitKeepsStatus ==
    ASSUME StatusInv, NEW BLOCK \in BOOLEAN, ExecWait(BLOCK), wpc' = wpc,
           epc # "init", epc' # "init"
    PROVE  StatusInv' /\ (current_status # NoStatus => current_status' # NoStatus)
<1>1. /\ proc \in {"running", "zombie", "reaped"} /\ ~thrown
      /\ current_status # NoStatus <=> proc = "reaped"
      /\ current_status # NoStatus => current_status = WEXITSTATUS
      /\ WEXITSTATUS' = WEXITSTATUS
    BY DEF StatusInv, StatusOnce, WEXITSTATUS
<1>2. CASE current_status # NoStatus
    <2>1. UNCHANGED <<proc, current_status, thrown>>
        BY <1>2 DEF ExecWait
    <2> QED BY <1>1, <1>2, <2>1 DEF StatusInv, StatusOnce
<1>3. CASE current_status = NoStatus
    <2>1. /\ proc' = IF proc = "zombie" THEN "reaped" ELSE proc
          /\ current_status' = IF proc = "zombie" THEN WEXITSTATUS ELSE NoStatus
          /\ ~thrown'
        <3>1. CASE BLOCK /\ proc = "running" /\ UNCHANGED <<proc, current_status, thrown>>
            BY <1>1, <1>3, <3>1
        <3>2. CASE ~(BLOCK /\ proc = "running" /\ UNCHANGED <<proc, current_status, thrown>>)
            BY <1>1, <1>3, <3>2 DEF ExecWait
        <3> QED BY <3>1, <3>2
    <2> QED BY <1>1, <1>3, <2>1, StatusIsKnown DEF StatusInv, StatusOnce
<1> QED BY <1>2, <1>3

(* The child's end of the pipe is where it was, whatever the parent does.    *)
LEMMA ParentLeavesChild ==
    ASSUME Parent
    PROVE  UNCHANGED writer
<1>1. CASE LinesCall \/ LinesStep \/ SetDirection
    <2>1. Reader \/ SetDirectionRead
        BY <1>1 DEF LinesCall, LinesStep, SetDirection, Reader
    <2> QED BY <2>1 DEF Reader, Call, PollReadable, PollEmpty, BufferLoad, Unload, SetDirectionRead
<1>2. CASE Spawn \/ LinesEnd \/ LinesWait \/ Resume \/ BodyStatus \/ BodyWait \/ Wait \/ LinesErr
    <2>1. UNCHANGED pvars
        BY <1>2 DEF Spawn, LinesEnd, LinesWait, Resume, BodyStatus, BodyWait, Wait,
                    LinesErr, BodyErr, ErrLine, ErrNone, ErrWait, ErrEnd
    <2> QED BY <2>1 DEF pvars
<1>3. CASE BodyDone
    BY <1>3 DEF BodyDone
<1> QED BY <1>1, <1>2, <1>3 DEF Parent

LEMMA NextStatusInv == StatusInv /\ [ENext]_evars => StatusInv'
<1> SUFFICES ASSUME StatusInv, [ENext]_evars PROVE StatusInv'
    OBVIOUS
<1>1. ASSUME UNCHANGED <<proc, current_status, thrown, wpc>>, epc' = "init" <=> epc = "init"
      PROVE  StatusInv'
    BY <1>1 DEF StatusInv, StatusOnce, WEXITSTATUS
<1>2. CASE Parent
    <2>1. wpc' = wpc
        BY <1>2, ParentLeavesChild DEF writer
    <2>2. CASE Spawn
        BY <2>1, <2>2 DEF Spawn, StatusInv, StatusOnce
    <2>3. CASE LinesWait \/ BodyStatus \/ ErrWait
        <3>1. ExecWait(FALSE) /\ epc # "init" /\ epc' # "init"
            BY <2>3 DEF LinesWait, BodyStatus, ErrWait
        <3> QED BY <2>1, <3>1, ExecWaitKeepsStatus
    <2>4. CASE BodyWait \/ Wait
        <3>1. ExecWait(TRUE) /\ epc # "init" /\ epc' # "init"
            BY <2>4 DEF BodyWait, Wait
        <3> QED BY <2>1, <3>1, ExecWaitKeepsStatus
    <2>5. CASE SetDirection \/ LinesCall \/ LinesEnd \/ LinesStep \/ Resume \/ BodyDone
        <3>1. UNCHANGED <<proc, current_status, thrown>> /\ epc # "init" /\ epc' # "init"
            BY <2>5 DEF SetDirection, LinesCall, LinesEnd, LinesStep, Resume, BodyDone
        <3> QED BY <1>1, <2>1, <3>1
    <2>6. CASE BodyErr \/ ErrLine \/ ErrNone \/ ErrEnd
        <3>1. UNCHANGED <<proc, current_status, thrown>> /\ epc # "init" /\ epc' # "init"
            BY <2>6 DEF BodyErr, ErrLine, ErrNone, ErrEnd
        <3> QED BY <1>1, <2>1, <3>1
    <2> QED BY <1>2, <2>2, <2>3, <2>4, <2>5, <2>6 DEF Parent, LinesErr
<1>3. CASE Child
    <2>1. CASE ChildWrites
        BY <2>1 DEF ChildWrites, StatusInv, StatusOnce
    <2>2. CASE ChildWritesError
        BY <1>1, <2>2 DEF ChildWritesError, pvars, writer
    <2>3. CASE ChildExits
        BY <2>3 DEF ChildExits, StatusInv, StatusOnce
    <2> QED BY <1>3, <2>1, <2>2, <2>3 DEF Child
<1>4. CASE UNCHANGED evars
    BY <1>1, <1>4 DEF evars, pvars, writer
<1> QED BY <1>2, <1>3, <1>4 DEF ENext, Stopped

LEMMA InitStatusInv == EInit => StatusInv
BY DEF EInit, StatusInv, StatusOnce

(* The status is the one the child exited with, and no call of status() or   *)
(* wait() asks the kernel for a process that it has reaped.                  *)
THEOREM ReapedOnce == ESpec => []StatusOnce
<1>1. StatusInv => StatusOnce
    BY DEF StatusInv
<1> QED BY <1>1, InitStatusInv, NextStatusInv, PTL DEF ESpec

-----------------------------------------------------------------------------
(* The iteration over the other stream.                                      *)

(* Unless the body turned to the errors, the loop over them is reached with  *)
(* the status known.                                                         *)
ErrInv == "err" \notin uses =>
    /\ err_lines = 0
    /\ epc \in {"err", "err_wait", "end", "finished"} => current_status # NoStatus

LEMMA NeverClosed == ~closed
BY DEF closed, is_READ

LEMMA UsesStay == [ENext]_evars => uses' = uses
<1>1. UNCHANGED evars => uses' = uses
    BY DEF evars
<1>2. Parent \/ Child => uses' = uses
    BY DEF Parent, Child
<1> QED BY <1>1, <1>2 DEF ENext, Stopped

LEMMA NextErrInv == StatusInv /\ ErrInv /\ [ENext]_evars => ErrInv'
<1> DEFINE Ended(pc) == pc \in {"err", "err_wait", "end", "finished"}
<1> SUFFICES ASSUME StatusInv, ErrInv, [ENext]_evars, "err" \notin uses
             PROVE  err_lines' = 0 /\ (Ended(epc') => current_status' # NoStatus)
    BY UsesStay DEF ErrInv
<1>1. err_lines = 0 /\ (Ended(epc) => current_status # NoStatus)
    BY DEF ErrInv
<1>2. ASSUME UNCHANGED <<current_status, err_lines>>, Ended(epc') => Ended(epc)
      PROVE  err_lines' = 0 /\ (Ended(epc') => current_status' # NoStatus)
    BY <1>1, <1>2
<1>3. CASE (Spawn \/ SetDirection \/ LinesCall \/ LinesStep \/ Resume \/ BodyDone)
           /\ UNCHANGED err
    <2>1. UNCHANGED <<current_status, err_lines>>
        BY <1>3 DEF Spawn, SetDirection, LinesCall, LinesStep, Resume, BodyDone, err
    <2>2. Ended(epc') => Ended(epc)
        BY <1>3 DEF Spawn, SetDirection, LinesCall, LinesStep, Resume, BodyDone
    <2> QED BY <1>2, <2>1, <2>2
<1>4. CASE LinesEnd /\ UNCHANGED err
    BY <1>1, <1>4, NeverClosed DEF LinesEnd, err
<1>5. CASE (LinesWait \/ BodyStatus \/ BodyWait) /\ UNCHANGED err
    <2>1. epc' = "loop" /\ err_lines' = err_lines
        BY <1>5 DEF LinesWait, BodyStatus, BodyWait, err
    <2> QED BY <1>1, <2>1
<1>6. CASE Parent /\ (ErrWait \/ (Wait /\ UNCHANGED err))
    <2>1. wpc' = wpc
        BY <1>6, ParentLeavesChild DEF writer
    <2>2. PICK BLOCK \in BOOLEAN : ExecWait(BLOCK)
        BY <1>6 DEF ErrWait, Wait
    <2>3. epc \in {"err_wait", "end"} /\ epc' # "init" /\ err_lines' = err_lines
        BY <1>6 DEF ErrWait, Wait, err
    <2>4. current_status # NoStatus => current_status' # NoStatus
        BY <2>1, <2>2, <2>3, ExecWaitKeepsStatus
    <2> QED BY <1>1, <2>3, <2>4
<1>7. CASE BodyErr
    BY <1>7 DEF BodyErr
<1>8. CASE ErrLine \/ ErrNone
    BY <1>1, <1>8 DEF ErrLine, ErrNone, ErrGoesOn
<1>9. CASE ErrEnd
    BY <1>1, <1>9 DEF ErrEnd, ErrGoesOn, err
<1>10. CASE Child
    <2>1. UNCHANGED <<current_status, err_lines, epc>>
        BY <1>10 DEF Child, ChildWrites, ChildWritesError, ChildExits, err
    <2> QED BY <1>2, <2>1
<1>11. CASE UNCHANGED evars
    BY <1>2, <1>11 DEF evars, err
<1> QED BY <1>3, <1>4, <1>5, <1>6, <1>7, <1>8, <1>9, <1>10, <1>11
           DEF ENext, Parent, LinesErr, Stopped

LEMMA InitErrInv == EInit => ErrInv
BY DEF EInit, ErrInv

(* Behind the loop over one stream lines() of the other yields nothing.      *)
THEOREM OtherStreamEnds == ESpec => []SecondStreamUnseen
<1>1. ErrInv => SecondStreamUnseen
    BY DEF ErrInv, SecondStreamUnseen
<1> QED BY <1>1, InitStatusInv, NextStatusInv, InitErrInv, NextErrInv, PTL DEF ESpec

-----------------------------------------------------------------------------
(* The steps of the execution as steps of its pipe.                          *)

(* done(OUT): what is in the kernel pipe goes with its last read end.        *)
Closes == /\ rd_open' = FALSE /\ wr_open' = FALSE
          /\ kernel' = IF rd_open THEN <<>> ELSE kernel
          /\ UNCHANGED <<buffer, writer, rpc, result, lines, out, discarded>>

LEMMA PipeStep ==
    ASSUME [ENext]_evars
    PROVE  UNCHANGED pvars \/ Reader \/ SetDirectionRead \/ Closes \/ Writer(child)
<1>1. CASE LinesCall \/ LinesStep \/ SetDirection
    BY <1>1 DEF LinesCall, LinesStep, SetDirection, Reader
<1>2. CASE Spawn \/ LinesEnd \/ LinesWait \/ Resume \/ BodyStatus \/ BodyWait \/ Wait \/ LinesErr
    BY <1>2 DEF Spawn, LinesEnd, LinesWait, Resume, BodyStatus, BodyWait, Wait,
                LinesErr, BodyErr, ErrLine, ErrNone, ErrWait, ErrEnd
<1>3. CASE BodyDone
    BY <1>3 DEF BodyDone, Closes
<1>4. CASE Child
    BY <1>4 DEF Child, ChildWrites, ChildWritesError, ChildExits
<1>5. CASE UNCHANGED evars
    BY <1>5 DEF evars
<1> QED BY <1>1, <1>2, <1>3, <1>4, <1>5 DEF ENext, Parent, Stopped

LEMMA PipeSame ==
    ASSUME PIInv, UNCHANGED <<buffer, writer, rpc, result, lines, out, discarded>>,
           rd_open' \in BOOLEAN, wr_open' \in BOOLEAN, kernel' \in Seq(Byte),
           ~rd_open' => kernel' = <<>>
    PROVE  PIInv'
<1>1. PTypeOK'
    BY DEF PIInv, PTypeOK, BTypeOK, buffer, writer
<1>2. ReaderInv'
    BY DEF PIInv, ReaderInv, EmptyIsAllFree, has_data, free, buffer
<1>3. WriterInv'
    BY DEF PIInv, WriterInv, TodoIsARest, writer
<1> QED BY <1>1, <1>2, <1>3 DEF PIInv

LEMMA ExecutionPIInv == PIInv /\ [ENext]_evars => PIInv'
<1> SUFFICES ASSUME PIInv, [ENext]_evars PROVE PIInv'
    OBVIOUS
<1>1. CASE UNCHANGED pvars
    BY <1>1, PipeSame DEF pvars, reader, PIInv, PTypeOK, WriterInv
<1>2. CASE Reader \/ SetDirectionRead
    BY <1>2, ReaderPIInv
<1>3. CASE Closes
    BY <1>3, PipeSame, EmptySeq DEF Closes, PIInv, PTypeOK, WriterInv
<1>4. CASE Writer(child)
    BY <1>4, WriterStep, ExecutionAssumption
<1> QED BY <1>1, <1>2, <1>3, <1>4, PipeStep

LEMMA ExecutionAtomicInv == PIInv /\ AtomicInv /\ [ENext]_evars => AtomicInv'
<1> SUFFICES ASSUME PIInv, AtomicInv, [ENext]_evars PROVE AtomicInv'
    OBVIOUS
<1>1. CASE UNCHANGED pvars
    BY <1>1, AtomicInvStays DEF pvars
<1>2. CASE Reader \/ SetDirectionRead
    BY <1>2, ReaderStep, AtomicInvStays
<1>3. CASE Closes
    BY <1>3, AtomicInvStays DEF Closes
<1>4. CASE Writer(child)
    BY <1>4, WriterStep, ExecutionAssumption
<1> QED BY <1>1, <1>2, <1>3, <1>4, PipeStep

-----------------------------------------------------------------------------
(* What was sent is cut where the strings of the script begin, and the pipe  *)
(* holds what follows the lines handed out.                                  *)

Wrote == script[child]

(* B[i] bytes were sent when string i was, and k strings are.                *)
Cut(B, k) ==
    /\ B \in [0..k -> Nat] /\ B[0] = 0 /\ B[k] = Len(sent)
    /\ \A i \in 0..k : B[i] <= Len(sent)
    /\ \A i \in 1..k : /\ B[i] = B[i - 1] + Len(Wrote[i])
                       /\ \A j \in 1..Len(Wrote[i]) : sent[B[i - 1] + j] = Wrote[i][j]

(* The pipe holds what was sent from position b on, and all of it while it   *)
(* is open.                                                                  *)
HoldsFrom(b) ==
    /\ \A i \in 1..Len(InPipe) : InPipe[i] = sent[b + i]
    /\ b + Len(InPipe) <= Len(sent)
    /\ rd_open => b + Len(InPipe) = Len(sent)

(* Or it is closed and empty, and stays so.                                  *)
OverAndDone == ~rd_open /\ InPipe = <<>>

PrefixInv == LineByLine =>
    \E k \in 0..Len(Wrote) : \E B :
       /\ todo[child] = SubSeq(Wrote, k + 1, Len(Wrote))
       /\ Cut(B, k)
       /\ Len(lines) <= k /\ \A i \in 1..Len(lines) : lines[i] = Wrote[i]
       /\ HoldsFrom(B[Len(lines)]) \/ OverAndDone

LEMMA LineByLineIsAtomic == LineByLine => AtomicLines
BY ExecutionAssumption DEF LineByLine, AtomicLines

LEMMA ScriptLines ==
    ASSUME PIInv, LineByLine, NEW i \in 1..Len(Wrote)
    PROVE  /\ Wrote \in Seq(Message) /\ Len(Wrote) \in Nat
           /\ Wrote[i] \in Seq(Byte) /\ Len(Wrote[i]) \in Nat \ {0}
           /\ Wrote[i][Len(Wrote[i])] = NL /\ Wrote[i][1] # NUL
           /\ \A j \in 1..Len(Wrote[i]) - 1 : Wrote[i][j] # NL
<1>1. Wrote \in Seq(Message) /\ DOMAIN Wrote = 1..Len(Wrote) /\ Len(Wrote) \in Nat
    BY ExecutionAssumption, LenProperties DEF PIInv, PTypeOK, Wrote
<1>2. Wrote[i] \in Message /\ Wrote[i] \in Seq(Byte) /\ Wrote[i] # <<>>
    BY <1>1, ElementOfSeq DEF Message
<1>3. Len(Wrote[i]) \in Nat \ {0}
    BY <1>2, EmptySeq, LenProperties
<1>4. /\ EndsLine(Wrote[i]) /\ Wrote[i][1] # NUL
      /\ \A j \in 1..Len(Wrote[i]) - 1 : Wrote[i][j] # NL
    BY <1>1 DEF LineByLine, Wrote
<1> QED BY <1>1, <1>2, <1>3, <1>4 DEF EndsLine

LEMMA InitPrefixInv == EInit => PrefixInv
<1> SUFFICES ASSUME EInit, LineByLine PROVE PrefixInv
    BY DEF PrefixInv
<1>1. /\ PIInv /\ InPipe = <<>> /\ sent = <<>> /\ lines = <<>> /\ todo = script
    BY InitPIInv, InitInPipe DEF EInit, PInit
<1>2. Len(<<>>) = 0
    BY EmptySeq
<1>3. Wrote \in Seq(Message) /\ Len(Wrote) \in Nat
    BY <1>1, ExecutionAssumption, LenProperties DEF PIInv, PTypeOK, Wrote
<1>4. todo[child] = SubSeq(Wrote, 0 + 1, Len(Wrote))
    BY <1>1, <1>3, SubSeqFull DEF Wrote
<1> DEFINE B == [i \in 0..0 |-> 0]
<1>5. Cut(B, 0)
    BY <1>1, <1>2 DEF Cut
<1>6. HoldsFrom(B[0])
    BY <1>1, <1>2 DEF HoldsFrom
<1> HIDE DEF B
<1>7. 0 \in 0..Len(Wrote)
    BY <1>3
<1> QED BY <1>1, <1>2, <1>4, <1>5, <1>6, <1>7 DEF PrefixInv

(* The last byte sent ends a line.                                           *)
LEMMA SentEndsLine ==
    ASSUME PIInv, LineByLine, NEW k \in 0..Len(Wrote), NEW B, Cut(B, k), Len(sent) # 0
    PROVE  sent[Len(sent)] = NL
<1>1. k \in 1..k /\ k \in 1..Len(Wrote) /\ k - 1 \in 0..k
    BY ExecutionAssumption, LenProperties DEF Cut, PIInv, PTypeOK, Wrote
<1>2. /\ B[k] = Len(sent) /\ B[k] = B[k - 1] + Len(Wrote[k]) /\ B[k - 1] \in Nat
      /\ \A j \in 1..Len(Wrote[k]) : sent[B[k - 1] + j] = Wrote[k][j]
    BY <1>1 DEF Cut
<1>3. Len(Wrote[k]) \in 1..Len(Wrote[k]) /\ Wrote[k][Len(Wrote[k])] = NL
    BY <1>1, ScriptLines
<1> QED BY <1>2, <1>3

(* A line taken from where string n begins is string n, and no NUL is        *)
(* skipped behind it.                                                        *)
LEMMA TakenIsNext ==
    ASSUME PIInv, LineByLine, NEW k \in 0..Len(Wrote), NEW B, Cut(B, k),
           NEW n \in 0..k, HoldsFrom(B[n]),
           NEW l \in Seq(Byte), NEW skipped \in {<<>>, <<NUL>>}, NEW rest \in Seq(Byte),
           IsLine(l), InPipe = Cat(Cat(l, skipped), rest)
    PROVE  /\ n + 1 \in 1..k /\ l = Wrote[n + 1]
           /\ InPipe = Cat(l, rest) /\ B[n + 1] = B[n] + Len(l)
<1>1. /\ Len(l) \in Nat \ {0} /\ l[Len(l)] = NL /\ \A j \in 1..Len(l) - 1 : l[j] # NL
    BY EmptySeq, LenProperties DEF IsLine, EndsLine
<1>2. /\ skipped \in Seq(Byte)
      /\ skipped = <<>> \/ (Len(skipped) = 1 /\ skipped[1] = NUL)
    <2>1. <<NUL>> \in Seq(Byte) /\ Len(<<NUL>>) = 1 /\ <<NUL>>[1] = NUL
        BY BufferAssumption
    <2> QED BY <2>1, EmptySeq
<1>3. PICK tail \in Seq(Byte) : tail = Cat(skipped, rest) /\ InPipe = Cat(l, tail)
    BY <1>2, CatType, CatAssociative
<1>4. /\ Len(tail) \in Nat /\ Len(InPipe) = Len(l) + Len(tail)
      /\ \A j \in 1..Len(l) : InPipe[j] = l[j]
      /\ \A j \in Len(l) + 1..Len(l) + Len(tail) : InPipe[j] = tail[j - Len(l)]
    <2>1. /\ Len(tail) \in Nat /\ Len(Cat(l, tail)) = Len(l) + Len(tail)
          /\ \A j \in 1..Len(l) : Cat(l, tail)[j] = l[j]
          /\ \A j \in Len(l) + 1..Len(l) + Len(tail) : Cat(l, tail)[j] = tail[j - Len(l)]
        BY CatAt
    <2> QED BY <1>3, <2>1
<1>5. /\ B[n] \in Nat /\ B[k] = Len(sent) /\ Len(sent) \in Nat
      /\ B[n] + Len(InPipe) <= Len(sent)
      /\ \A j \in 1..Len(InPipe) : InPipe[j] = sent[B[n] + j]
    BY LenProperties DEF HoldsFrom, Cut, PIInv, PTypeOK
<1>6. PICK m \in 1..k : m = n + 1 /\ m - 1 = n /\ m \in 0..k /\ m \in 1..Len(Wrote)
    <2>1. n # k
        BY <1>1, <1>4, <1>5
    <2>2. Len(Wrote) \in Nat
        BY ExecutionAssumption, LenProperties DEF PIInv, PTypeOK, Wrote
    <2> QED BY <2>1, <2>2
<1> DEFINE s == Wrote[m]
<1>7. /\ B[m] = B[n] + Len(s) /\ B[m] <= Len(sent) /\ B[m] \in Nat
      /\ \A j \in 1..Len(s) : sent[B[n] + j] = s[j]
    BY <1>6 DEF Cut
<1>8. /\ s \in Seq(Byte) /\ Len(s) \in Nat \ {0} /\ s[Len(s)] = NL
      /\ \A j \in 1..Len(s) - 1 : s[j] # NL
    BY <1>6, ScriptLines
<1> HIDE DEF s
<1>9. \A j \in 1..Len(l) : l[j] = sent[B[n] + j]
    <2>1. \A j \in 1..Len(l) : j \in 1..Len(InPipe)
        BY <1>1, <1>4
    <2> QED BY <1>4, <1>5, <2>1
<1>10. Len(l) = Len(s)
    <2>1. ~(Len(l) < Len(s))
        <3> SUFFICES ASSUME Len(l) < Len(s) PROVE FALSE
            OBVIOUS
        <3>1. Len(l) \in 1..Len(l) /\ Len(l) \in 1..Len(s) /\ Len(l) \in 1..Len(s) - 1
            BY <1>1, <1>8
        <3> QED BY <1>1, <1>7, <1>8, <1>9, <3>1
    <2>2. ~(Len(s) < Len(l))
        <3> SUFFICES ASSUME Len(s) < Len(l) PROVE FALSE
            OBVIOUS
        <3>1. Len(s) \in 1..Len(l) /\ Len(s) \in 1..Len(s) /\ Len(s) \in 1..Len(l) - 1
            BY <1>1, <1>8
        <3> QED BY <1>1, <1>7, <1>8, <1>9, <3>1
    <2> QED BY <1>1, <1>8, <2>1, <2>2
<1>11. l = s
    <2>1. \A j \in 1..Len(l) : l[j] = s[j]
        BY <1>7, <1>9, <1>10
    <2> QED BY <1>8, <1>10, <2>1, SeqEqual
<1>12. skipped = <<>>
    <2> SUFFICES ASSUME Len(skipped) = 1, skipped[1] = NUL PROVE FALSE
        BY <1>2
    <2>1. Len(tail) = 1 + Len(rest) /\ Len(rest) \in Nat /\ tail[1] = NUL
        <3>1. /\ Len(Cat(skipped, rest)) = Len(skipped) + Len(rest) /\ Len(rest) \in Nat
              /\ \A i \in 1..Len(skipped) : Cat(skipped, rest)[i] = skipped[i]
            BY <1>2, CatAt
        <3>2. 1 \in 1..Len(skipped)
            OBVIOUS
        <3> QED BY <1>3, <3>1, <3>2
    <2>2. PICK p \in Len(l) + 1..Len(l) + Len(tail) : p = Len(l) + 1 /\ p - Len(l) = 1
        <3>1. /\ Len(l) + 1 \in Len(l) + 1..Len(l) + Len(tail)
              /\ Len(l) + 1 - Len(l) = 1
            BY <1>1, <2>1
        <3> QED BY <3>1
    <2>3. InPipe[p] = NUL
        BY <1>4, <2>1, <2>2
    <2>4. sent[B[n] + p] = NUL /\ B[n] + p <= Len(sent)
        <3>1. p \in 1..Len(InPipe)
            BY <1>1, <1>4, <2>2
        <3>2. Len(InPipe) \in Nat /\ Len(sent) \in Nat
            BY LenProperties, InPipeType DEF PIInv, PTypeOK
        <3>3. sent[B[n] + p] = NUL
            BY <1>5, <2>3, <3>1
        <3>4. B[n] + p <= Len(sent)
            BY <1>5, <3>1, <3>2, SMTT(30)
        <3> QED BY <3>3, <3>4
    <2>5. B[n] + p = B[m] + 1
        <3>1. B[m] = B[n] + Len(l)
            BY <1>7, <1>10
        <3>2. B[n] \in Nat /\ Len(l) \in Nat /\ p = Len(l) + 1
            BY <1>1, <1>5, <2>2
        <3>3. \A b, e \in Nat : b + (e + 1) = (b + e) + 1
            OBVIOUS
        <3>4. B[n] + (Len(l) + 1) = (B[n] + Len(l)) + 1
            BY <3>2, <3>3
        <3> QED BY <3>1, <3>2, <3>4
    <2>6. PICK q \in 1..k : q - 1 = m /\ q \in 1..Len(Wrote)
        <3>1. m # k
            <4>1. B[m] + 1 <= Len(sent)
                BY <2>4, <2>5
            <4>2. B[m] \in Nat /\ Len(sent) \in Nat /\ B[k] = Len(sent)
                BY <1>5, <1>7
            <4> QED BY <4>1, <4>2
        <3>2. Len(Wrote) \in Nat /\ k \in Nat
            BY ExecutionAssumption, LenProperties DEF PIInv, PTypeOK, Wrote
        <3>3. m + 1 \in 1..k /\ m + 1 \in 1..Len(Wrote) /\ m + 1 - 1 = m
            BY <1>6, <3>1, <3>2
        <3> QED BY <3>3
    <2>7. Wrote[q][1] # NUL /\ 1 \in 1..Len(Wrote[q])
        BY <2>6, ScriptLines
    <2>8. sent[B[m] + 1] = Wrote[q][1]
        BY <2>6, <2>7 DEF Cut
    <2> QED BY <2>4, <2>5, <2>7, <2>8
<1>13. InPipe = Cat(l, rest)
    BY <1>12, CatEmpty
<1>14. B[m] = B[n] + Len(l)
    BY <1>7, <1>10
<1> QED BY <1>6, <1>11, <1>13, <1>14 DEF s

LEMMA ReaderRdOpen ==
    ASSUME PTypeOK, Reader \/ SetDirectionRead
    PROVE  rd_open' => rd_open
BY DEF Reader, Call, PollReadable, PollEmpty, BufferLoad, Unload, SetDirectionRead, PTypeOK

(* A closed and empty pipe stays so; else its contents are what they were,   *)
(* or less of it at the end of what can be read.                             *)
LEMMA ReaderHolds ==
    ASSUME PIInv, LineByLine, Leaves \/ Drops, sent' = sent, rd_open' => rd_open,
           NEW k \in 0..Len(Wrote), NEW B, Cut(B, k),
           NEW b \in Nat, HoldsFrom(b)
    PROVE  HoldsFrom(b)' \/ OverAndDone' \/ (Drops /\ InPipe # <<>> /\ rd_open)
<1>1. CASE Leaves
    BY <1>1 DEF Leaves, HoldsFrom
<1>2. CASE Drops /\ ~rd_open
    <2>1. ~rd_open' /\ InPipe' = <<>>
        BY <1>2 DEF Drops
    <2> QED BY <2>1 DEF OverAndDone
<1>3. CASE Drops /\ InPipe = <<>>
    BY <1>3 DEF Drops, HoldsFrom
<1> QED BY <1>1, <1>2, <1>3

LEMMA DropsNoLine ==
    ASSUME PIInv, LineByLine, Drops, InPipe # <<>>, rd_open,
           NEW k \in 0..Len(Wrote), NEW B, Cut(B, k),
           NEW b \in Nat, HoldsFrom(b)
    PROVE  FALSE
<1>1. /\ InPipe = result /\ result \in Seq(Byte) /\ sent \in Seq(Byte)
      /\ \A i \in 1..Len(result) : result[i] # NL
    BY DEF Drops, PIInv, PTypeOK, ReaderInv
<1>2. /\ Len(result) \in Nat \ {0} /\ Len(sent) \in Nat
    BY <1>1, EmptySeq, LenProperties
<1>3. /\ b + Len(result) = Len(sent) /\ result[Len(result)] = sent[b + Len(result)]
    <2>1. Len(result) \in 1..Len(result)
        BY <1>2
    <2> QED BY <1>1, <2>1 DEF HoldsFrom
<1>4. Len(sent) # 0 /\ Len(result) \in 1..Len(result)
    BY <1>2, <1>3
<1> QED BY <1>1, <1>3, <1>4, SentEndsLine

(* The child sends a whole string or nothing, and nothing into a closed pipe.*)
LEMMA ChildSends ==
    ASSUME PIInv, AtomicInv, LineByLine, Writer(child)
    PROVE  /\ UNCHANGED <<lines, rd_open, script>>
           /\ \/ UNCHANGED <<InPipe, sent, todo>>
              \/ /\ rd_open /\ todo[child] # <<>>
                 /\ InPipe' = Cat(InPipe, Head(todo[child]))
                 /\ sent' = Cat(sent, Head(todo[child]))
                 /\ todo' = [todo EXCEPT ![child] = Tail(todo[child])]
<1>1. child \in Writers /\ ~Interrupted(child) /\ AtomicLines
    BY ExecutionAssumption, LineByLineIsAtomic DEF Interrupted
<1>2. UNCHANGED <<lines, rd_open, script>>
    BY <1>1, WriterStep DEF reader
<1>3. PICK moved \in Seq(Byte) :
         /\ InPipe' = Cat(InPipe, moved) /\ sent' = Cat(sent, moved)
         /\ \/ moved = <<>> /\ todo' = todo
            \/ /\ moved = Head(todo[child]) /\ todo[child] # <<>>
               /\ todo' = [todo EXCEPT ![child] = Tail(todo[child])]
    BY <1>1, WriterEffect
<1>4. InPipe \in Seq(Byte) /\ sent \in Seq(Byte)
    BY InPipeType DEF PIInv, PTypeOK
<1>5. CASE moved = <<>> /\ todo' = todo
    <2>1. InPipe' = InPipe /\ sent' = sent
        BY <1>3, <1>4, <1>5, CatEmpty
    <2> QED BY <1>2, <1>5, <2>1
<1>6. CASE rd_open
    BY <1>2, <1>3, <1>5, <1>6
<1>7. CASE ~rd_open
    BY <1>2, <1>7 DEF Writer, StartWrite, CloseWriter, Write, WriteBroken, InPipe, Content,
                      loaded, buffer, reader
<1> QED BY <1>6, <1>7

(* done(OUT) leaves the beginning of what was in the pipe.                   *)
LEMMA ClosesHolds ==
    ASSUME PIInv, Closes, NEW b \in Nat, HoldsFrom(b)
    PROVE  HoldsFrom(b)'
<1> DEFINE read == Cat(result, Content)
<1>1. read \in Seq(Byte) /\ kernel \in Seq(Byte) /\ kernel' \in Seq(Byte)
    BY InPipeType, EmptySeq DEF PIInv, Closes
<1>2. InPipe = Cat(read, kernel)
    BY DEF InPipe
<1>3. InPipe' = Cat(read, kernel')
    BY BufferSame DEF InPipe, Closes
<1>4. sent' = sent /\ ~rd_open' /\ sent \in Seq(Byte)
    BY DEF Closes, writer, PIInv, PTypeOK
<1>5. kernel' = <<>>
    BY DEF Closes, PIInv, WriterInv
<1> HIDE DEF read
<1>6. InPipe' = read
    BY <1>1, <1>3, <1>5, CatEmpty
<1>7. /\ Len(read) \in Nat /\ Len(kernel) \in Nat /\ Len(InPipe) = Len(read) + Len(kernel)
      /\ \A i \in 1..Len(read) : InPipe[i] = read[i]
    <2>1. /\ Len(read) \in Nat /\ Len(kernel) \in Nat
          /\ Len(Cat(read, kernel)) = Len(read) + Len(kernel)
          /\ \A i \in 1..Len(read) : Cat(read, kernel)[i] = read[i]
        BY <1>1, CatAt
    <2> QED BY <1>2, <2>1
<1>8. /\ b + Len(InPipe) <= Len(sent) /\ Len(sent) \in Nat
      /\ \A i \in 1..Len(InPipe) : InPipe[i] = sent[b + i]
    BY <1>4, LenProperties DEF HoldsFrom
<1>9. \A i \in 1..Len(read) : i \in 1..Len(InPipe)
    BY <1>7
<1>10. b + Len(read) <= Len(sent)
    BY <1>7, <1>8
<1> QED BY <1>4, <1>6, <1>7, <1>8, <1>9, <1>10 DEF HoldsFrom

LEMMA HoldsAfterTake ==
    ASSUME PIInv, NEW b \in Nat, HoldsFrom(b), sent' = sent, rd_open' => rd_open,
           NEW l \in Seq(Byte), NEW rest \in Seq(Byte), InPipe = Cat(l, rest), InPipe' = rest
    PROVE  HoldsFrom(b + Len(l))'
<1>1. /\ Len(l) \in Nat /\ Len(rest) \in Nat /\ Len(InPipe) = Len(l) + Len(rest)
      /\ \A j \in Len(l) + 1..Len(l) + Len(rest) : InPipe[j] = rest[j - Len(l)]
    <2>1. /\ Len(l) \in Nat /\ Len(rest) \in Nat /\ Len(Cat(l, rest)) = Len(l) + Len(rest)
          /\ \A j \in Len(l) + 1..Len(l) + Len(rest) : Cat(l, rest)[j] = rest[j - Len(l)]
        BY CatAt
    <2> QED BY <2>1
<1>2. /\ b + Len(InPipe) <= Len(sent) /\ Len(sent) \in Nat
      /\ \A i \in 1..Len(InPipe) : InPipe[i] = sent[b + i]
      /\ rd_open => b + Len(InPipe) = Len(sent)
    BY LenProperties DEF HoldsFrom, PIInv, PTypeOK
<1>3. PICK c \in Nat : c = b + Len(l)
    BY <1>1
<1>4. c + Len(rest) <= Len(sent) /\ (rd_open => c + Len(rest) = Len(sent))
    BY <1>1, <1>2, <1>3
<1>5. ASSUME NEW i \in 1..Len(rest) PROVE rest[i] = sent[c + i]
    <2>1. PICK j \in Len(l) + 1..Len(l) + Len(rest) : j = Len(l) + i /\ j - Len(l) = i
        <3>1. Len(l) + i \in Len(l) + 1..Len(l) + Len(rest) /\ Len(l) + i - Len(l) = i
            BY <1>1
        <3> QED BY <3>1
    <2>2. InPipe[j] = rest[i]
        BY <1>1, <2>1
    <2>3. j \in 1..Len(InPipe) /\ b + j = c + i
        <3>1. j \in 1..Len(InPipe)
            BY <1>1, <2>1
        <3>2. \A x, y \in Nat : b + (x + y) = (b + x) + y
            OBVIOUS
        <3>3. b + (Len(l) + i) = (b + Len(l)) + i
            BY <1>1, <3>2
        <3> QED BY <1>3, <2>1, <3>1, <3>3
    <2> QED BY <1>2, <2>2, <2>3
<1>6. HoldsFrom(c)'
    BY <1>4, <1>5 DEF HoldsFrom
<1> QED BY <1>3, <1>6

LEMMA HoldsAfterSend ==
    ASSUME PIInv, NEW b \in Nat, HoldsFrom(b), rd_open, NEW s \in Seq(Byte),
           InPipe' = Cat(InPipe, s), sent' = Cat(sent, s)
    PROVE  HoldsFrom(b)'
<1>1. InPipe \in Seq(Byte) /\ sent \in Seq(Byte)
    BY InPipeType DEF PIInv, PTypeOK
<1>2. /\ Len(InPipe) \in Nat /\ Len(s) \in Nat /\ Len(InPipe') = Len(InPipe) + Len(s)
      /\ \A i \in 1..Len(InPipe) : InPipe'[i] = InPipe[i]
      /\ \A i \in Len(InPipe) + 1..Len(InPipe) + Len(s) : InPipe'[i] = s[i - Len(InPipe)]
    BY <1>1, CatAt
<1>3. /\ Len(sent) \in Nat /\ Len(sent') = Len(sent) + Len(s)
      /\ \A i \in 1..Len(sent) : sent'[i] = sent[i]
      /\ \A i \in Len(sent) + 1..Len(sent) + Len(s) : sent'[i] = s[i - Len(sent)]
    BY <1>1, CatAt
<1>4. /\ b + Len(InPipe) = Len(sent)
      /\ \A i \in 1..Len(InPipe) : InPipe[i] = sent[b + i]
    BY DEF HoldsFrom
<1>5. b + Len(InPipe') = Len(sent')
    BY <1>2, <1>3, <1>4
<1>6. ASSUME NEW i \in 1..Len(InPipe') PROVE InPipe'[i] = sent'[b + i]
    <2>1. CASE i <= Len(InPipe)
        <3>1. i \in 1..Len(InPipe) /\ b + i \in 1..Len(sent)
            BY <1>2, <1>4, <2>1
        <3> QED BY <1>2, <1>3, <1>4, <3>1
    <2>2. CASE ~(i <= Len(InPipe))
        <3>1. PICK j \in Len(sent) + 1..Len(sent) + Len(s) :
                 j = b + i /\ j - Len(sent) = i - Len(InPipe)
            <4>1. /\ b + i \in Len(sent) + 1..Len(sent) + Len(s)
                  /\ b + i - Len(sent) = i - Len(InPipe)
                <5>1. /\ i \in Nat /\ Len(InPipe) < i /\ i <= Len(InPipe) + Len(s)
                      /\ Len(InPipe) \in Nat /\ Len(s) \in Nat
                    BY <1>2, <2>2
                <5>2. Len(sent) = b + Len(InPipe)
                    BY <1>4
                <5> QED BY <5>1, <5>2
            <4> QED BY <4>1
        <3>2. i \in Len(InPipe) + 1..Len(InPipe) + Len(s)
            BY <1>2, <2>2
        <3>3. InPipe'[i] = s[i - Len(InPipe)] /\ sent'[j] = s[j - Len(sent)]
            BY <1>2, <1>3, <3>1, <3>2
        <3> QED BY <3>1, <3>3
    <2> QED BY <2>1, <2>2
<1> QED BY <1>5, <1>6 DEF HoldsFrom

(* A string that is sent is one more piece.                                  *)
LEMMA CutGrows ==
    ASSUME PIInv, NEW k \in 0..Len(Wrote) - 1, NEW B, Cut(B, k), NEW s \in Seq(Byte),
           s = Wrote[k + 1], sent' = Cat(sent, s), script' = script
    PROVE  \E C : Cut(C, k + 1)' /\ \A i \in 0..k : C[i] = B[i]
<1>1. Len(Wrote) \in Nat /\ k \in Nat /\ sent \in Seq(Byte)
    BY ExecutionAssumption, LenProperties DEF PIInv, PTypeOK, Wrote
<1>2. PICK m \in Nat : m = k + 1 /\ m - 1 = k
    BY <1>1
<1>0. PICK C : C = [i \in 0..m |-> IF i <= k THEN B[i] ELSE Len(sent) + Len(s)]
    OBVIOUS
<1>3. /\ Len(sent) \in Nat /\ Len(s) \in Nat /\ Len(sent') = Len(sent) + Len(s)
      /\ \A i \in 1..Len(sent) : sent'[i] = sent[i]
      /\ \A i \in Len(sent) + 1..Len(sent) + Len(s) : sent'[i] = s[i - Len(sent)]
    BY <1>1, CatAt
<1>4. /\ B \in [0..k -> Nat] /\ B[0] = 0 /\ B[k] = Len(sent)
      /\ \A i \in 0..k : B[i] <= Len(sent)
    BY DEF Cut
<1>5. \A i \in 0..k : C[i] = B[i] /\ i \in 0..m
    BY <1>0, <1>1, <1>2
<1>6. C[m] = Len(sent) + Len(s) /\ C[k] = Len(sent)
    BY <1>0, <1>1, <1>2, <1>4
<1>7. C \in [0..m -> Nat]
    BY <1>0, <1>1, <1>2, <1>3, <1>4
<1>8. C[0] = 0 /\ C[m] = Len(sent') /\ \A i \in 0..m : C[i] <= Len(sent')
    <2>1. \A i \in 0..m : i \in 0..k \/ i = m
        BY <1>1, <1>2
    <2>2. \A i \in 0..k : C[i] <= Len(sent')
        BY <1>3, <1>4, <1>5
    <2>3. 0 \in 0..k
        BY <1>1
    <2>4. C[0] = 0
        BY <1>4, <1>5, <2>3
    <2>5. C[m] = Len(sent') /\ C[m] <= Len(sent')
        BY <1>3, <1>6
    <2> QED BY <2>1, <2>2, <2>4, <2>5
<1>9. ASSUME NEW i \in 1..m
      PROVE  /\ C[i] = C[i - 1] + Len(Wrote[i])
             /\ \A j \in 1..Len(Wrote[i]) : sent'[C[i - 1] + j] = Wrote[i][j]
    <2>1. CASE i \in 1..k
        <3>1. PICK h \in 0..k : h = i - 1 /\ i \in 0..k
            BY <1>1, <2>1
        <3>2. /\ B[i] = B[h] + Len(Wrote[i]) /\ B[h] \in Nat /\ B[i] <= Len(sent)
              /\ \A j \in 1..Len(Wrote[i]) : sent[B[h] + j] = Wrote[i][j]
            BY <1>4, <2>1, <3>1 DEF Cut
        <3>3. Len(Wrote[i]) \in Nat
            <4>1. Wrote \in Seq(Message) /\ i \in 1..Len(Wrote)
                BY <1>1, <2>1, ExecutionAssumption DEF PIInv, PTypeOK, Wrote
            <4> QED BY <4>1, ElementOfSeq, LenProperties DEF Message
        <3>4. \A j \in 1..Len(Wrote[i]) : B[h] + j \in 1..Len(sent)
            BY <1>3, <3>2, <3>3, SMTT(30)
        <3>5. C[i] = B[i] /\ C[i - 1] = B[h]
            BY <1>5, <3>1
        <3>6. \A j \in 1..Len(Wrote[i]) : sent'[B[h] + j] = Wrote[i][j]
            BY <1>3, <3>2, <3>4
        <3> QED BY <3>2, <3>5, <3>6
    <2>2. CASE i = m
        <3>1. i - 1 = k /\ Wrote[i] = s
            BY <1>2, <2>2
        <3>2. ASSUME NEW j \in 1..Len(s) PROVE sent'[Len(sent) + j] = s[j]
            <4>1. PICK p \in Len(sent) + 1..Len(sent) + Len(s) :
                     p = Len(sent) + j /\ p - Len(sent) = j
                <5>1. /\ Len(sent) + j \in Len(sent) + 1..Len(sent) + Len(s)
                      /\ Len(sent) + j - Len(sent) = j
                    BY <1>3
                <5> QED BY <5>1
            <4> QED BY <1>3, <4>1
        <3> QED BY <1>6, <2>2, <3>1, <3>2
    <2> QED BY <1>1, <1>2, <2>1, <2>2
<1>10. Wrote' = Wrote
    BY DEF Wrote
<1>11. Cut(C, m)'
    BY <1>7, <1>8, <1>9, <1>10 DEF Cut
<1> QED BY <1>2, <1>5, <1>11

LEMMA ScriptStays == PIInv /\ [ENext]_evars => script' = script
<1> SUFFICES ASSUME PIInv, [ENext]_evars PROVE script' = script
    OBVIOUS
<1>1. Reader \/ SetDirectionRead => script' = script
    BY ReaderStep DEF writer
<1>2. Writer(child) => script' = script
    BY ExecutionAssumption, WriterStep
<1> QED BY <1>1, <1>2, PipeStep DEF Closes, pvars, writer

LEMMA NextPrefixInv == PIInv /\ AtomicInv /\ PrefixInv /\ [ENext]_evars => PrefixInv'
<1> SUFFICES ASSUME PIInv, AtomicInv, PrefixInv, [ENext]_evars PROVE PrefixInv'
    OBVIOUS
<1> SUFFICES ASSUME LineByLine PROVE PrefixInv'
    <2>1. LineByLine' <=> LineByLine
        BY ScriptStays DEF LineByLine
    <2> QED BY <2>1 DEF PrefixInv
<1>0. PICK k \in 0..Len(Wrote) : \E B :
         /\ todo[child] = SubSeq(Wrote, k + 1, Len(Wrote))
         /\ Cut(B, k)
         /\ Len(lines) <= k /\ \A i \in 1..Len(lines) : lines[i] = Wrote[i]
         /\ HoldsFrom(B[Len(lines)]) \/ OverAndDone
    BY DEF PrefixInv
<1>1. PICK B :
         /\ todo[child] = SubSeq(Wrote, k + 1, Len(Wrote))
         /\ Cut(B, k)
         /\ Len(lines) <= k /\ \A i \in 1..Len(lines) : lines[i] = Wrote[i]
         /\ HoldsFrom(B[Len(lines)]) \/ OverAndDone
    BY <1>0
<1>2. /\ lines \in Seq(Seq(Byte)) /\ Len(lines) \in Nat /\ InPipe' \in Seq(Byte)
      /\ PTypeOK /\ Wrote \in Seq(Message) /\ Len(Wrote) \in Nat
      /\ Wrote' = Wrote
    BY ExecutionPIInv, InPipeTypeNext, ScriptStays, ExecutionAssumption, LenProperties
       DEF PIInv, PTypeOK, Wrote
<1>3. PICK n \in 0..k : n = Len(lines)
    BY <1>1, <1>2
<1>4. PICK b \in Nat : b = B[n]
    BY <1>1 DEF Cut
(* The steps that neither send nor hand out.                                 *)
<1>5. ASSUME UNCHANGED <<sent, todo, lines>>, HoldsFrom(b)' \/ OverAndDone'
      PROVE  PrefixInv'
    <2>1. Cut(B, k)'
        BY <1>1, <1>2, <1>5 DEF Cut
    <2>2. HoldsFrom(B[Len(lines)])' \/ OverAndDone'
        BY <1>3, <1>4, <1>5
    <2> QED BY <1>1, <1>2, <1>5, <2>1, <2>2 DEF PrefixInv
<1>6. CASE UNCHANGED pvars
    <2>1. UNCHANGED <<InPipe, sent, todo, lines, rd_open>>
        BY <1>6 DEF pvars, buffer, reader, writer, InPipe, Content, loaded
    <2>2. HoldsFrom(b)' \/ OverAndDone'
        BY <1>1, <1>3, <1>4, <2>1 DEF HoldsFrom, OverAndDone
    <2> QED BY <1>5, <2>1, <2>2
<1>7. CASE Reader \/ SetDirectionRead
    <2>1. UNCHANGED <<sent, todo>> /\ (rd_open' => rd_open) /\ (Leaves \/ Drops \/ Takes)
        BY <1>2, <1>7, ReaderStep, ReaderRdOpen DEF writer
    <2>2. CASE Leaves \/ Drops
        <3>1. lines' = lines
            BY <2>2 DEF Leaves, Drops
        <3>2. CASE OverAndDone
            BY <1>5, <2>1, <2>2, <3>1, <3>2 DEF OverAndDone, Leaves, Drops
        <3>3. CASE HoldsFrom(b)
            BY <1>1, <1>5, <2>1, <2>2, <3>1, <3>3, ReaderHolds, DropsNoLine
        <3> QED BY <1>1, <1>3, <1>4, <3>2, <3>3
    <2>3. CASE Takes
        <3>1. PICK l \in Seq(Byte), skipped \in {<<>>, <<NUL>>}, rest \in Seq(Byte) :
                 /\ IsLine(l) /\ lines' = Append(lines, l) /\ rest = InPipe'
                 /\ InPipe = Cat(Cat(l, skipped), rest)
            BY <1>2, <2>3 DEF Takes
        <3>2. ~OverAndDone
            <4>1. l # <<>> /\ skipped \in Seq(Byte)
                <5>1. <<>> \in Seq(Byte) /\ <<NUL>> \in Seq(Byte)
                    BY EmptySeq, BufferAssumption
                <5> QED BY <3>1, <5>1 DEF IsLine, EndsLine
            <4>2. Cat(l, Cat(skipped, rest)) # <<>>
                BY <4>1, CatType, ConcatEqualIffEmpty DEF Cat
            <4>3. InPipe = Cat(l, Cat(skipped, rest))
                BY <3>1, <4>1, CatAssociative
            <4> QED BY <4>2, <4>3 DEF OverAndDone
        <3>3. HoldsFrom(b)
            BY <1>1, <1>3, <1>4, <3>2
        <3>4. PICK m \in 1..k : m = n + 1 /\ l = Wrote[m] /\ InPipe = Cat(l, rest)
                                /\ B[m] = b + Len(l)
            BY <1>1, <1>4, <3>1, <3>3, TakenIsNext, SMTT(30)
        <3>5. HoldsFrom(B[m])'
            <4>1. HoldsFrom(b + Len(l))'
                BY <2>1, <3>1, <3>3, <3>4, HoldsAfterTake
            <4>2. PICK c : c = b + Len(l)
                OBVIOUS
            <4>3. HoldsFrom(c)'
                BY <4>1, <4>2
            <4> QED BY <3>4, <4>2, <4>3
        <3>6. /\ Len(lines') = m /\ lines'[m] = l
              /\ \A i \in 1..Len(lines) : lines'[i] = lines[i]
            BY <1>2, <1>3, <3>1, <3>4, AppendProperties
        <3>7. \A i \in 1..m : i \in 1..Len(lines) \/ i = m
            BY <1>3, <3>4
        <3>8. Len(lines') <= k /\ \A i \in 1..Len(lines') : lines'[i] = Wrote[i]
            BY <1>1, <3>4, <3>6, <3>7
        <3>9. Cut(B, k)'
            BY <1>1, <1>2, <2>1 DEF Cut
        <3> QED BY <1>1, <1>2, <2>1, <3>5, <3>6, <3>8, <3>9 DEF PrefixInv
    <2> QED BY <2>1, <2>2, <2>3
<1>8. CASE Closes
    <2>1. UNCHANGED <<sent, todo, lines>>
        BY <1>8 DEF Closes, writer
    <2>2. CASE HoldsFrom(b)
        BY <1>5, <1>8, <2>1, <2>2, ClosesHolds
    <2>3. CASE OverAndDone
        <3>1. UNCHANGED <<buffer, result, kernel>> /\ ~rd_open'
            BY <1>8, <2>3 DEF Closes, OverAndDone
        <3>2. InPipe' = <<>>
            BY <2>3, <3>1, BufferSame DEF OverAndDone, InPipe
        <3> QED BY <1>5, <2>1, <3>1, <3>2 DEF OverAndDone
    <2> QED BY <1>1, <1>3, <1>4, <2>2, <2>3
<1>9. CASE Writer(child)
    <2>1. UNCHANGED <<lines, rd_open>>
        BY <1>9, ChildSends
    <2>2. CASE UNCHANGED <<InPipe, sent, todo>>
        <3>1. HoldsFrom(b)' \/ OverAndDone'
            BY <1>1, <1>3, <1>4, <2>1, <2>2 DEF HoldsFrom, OverAndDone
        <3> QED BY <1>5, <2>1, <2>2, <3>1
    <2>3. CASE /\ rd_open /\ todo[child] # <<>>
               /\ InPipe' = Cat(InPipe, Head(todo[child]))
               /\ sent' = Cat(sent, Head(todo[child]))
               /\ todo' = [todo EXCEPT ![child] = Tail(todo[child])]
        <3>1. k + 1 \in 1..Len(Wrote) /\ Len(Wrote) \in k + 1..Len(Wrote)
            <4>1. k # Len(Wrote)
                <5> SUFFICES ASSUME k = Len(Wrote) PROVE FALSE
                    OBVIOUS
                <5>1. SubSeq(Wrote, k + 1, Len(Wrote)) = <<>>
                    BY <1>2, SubSeqEmpty
                <5> QED BY <1>1, <2>3, <5>1
            <4> QED BY <1>2, <4>1
        <3>2. PICK s \in Seq(Byte) : s = Wrote[k + 1]
            BY <1>2, <3>1, ElementOfSeq DEF Message
        <3>3. /\ Head(todo[child]) = s
              /\ Tail(todo[child]) = SubSeq(Wrote, k + 1 + 1, Len(Wrote))
            BY <1>1, <1>2, <3>1, <3>2, HeadTailOfSubSeq
        <3>4. PICK C : Cut(C, k + 1)' /\ \A i \in 0..k : C[i] = B[i]
            <4>1. k \in 0..Len(Wrote) - 1
                BY <1>2, <3>1
            <4> QED BY <1>1, <2>3, <3>2, <3>3, <4>1, ScriptStays, CutGrows
        <3>5. HoldsFrom(b)'
            <4>1. HoldsFrom(b)
                BY <1>1, <1>3, <1>4, <2>3 DEF OverAndDone
            <4> QED BY <2>3, <3>2, <3>3, <4>1, HoldsAfterSend
        <3>6. C[Len(lines')] = b
            BY <1>3, <1>4, <2>1, <3>4
        <3>7. todo'[child] = SubSeq(Wrote, k + 1 + 1, Len(Wrote))
            BY <1>2, <2>3, <3>3, ExecutionAssumption DEF PTypeOK
        <3>8. Len(lines') <= k + 1 /\ \A i \in 1..Len(lines') : lines'[i] = Wrote[i]
            BY <1>1, <1>2, <2>1
        <3>9. HoldsFrom(C[Len(lines)])'
            BY <3>5, <3>6
        <3>10. k + 1 \in 0..Len(Wrote)
            BY <3>1
        <3> QED BY <1>2, <3>4, <3>7, <3>8, <3>9, <3>10 DEF PrefixInv
    <2> QED BY <1>9, <2>2, <2>3, ChildSends
<1> QED BY <1>6, <1>7, <1>8, <1>9, PipeStep

(* What the loop body has seen is a prefix of the lines the program wrote,   *)
(* whole and in order, whatever the body does with the object, for any script*)
(* of atomic lines and any sizes of the buffer and of the pipe.              *)
THEOREM LinesSeenAreAPrefix == ESpec => []YieldsAPrefix
<1> DEFINE EIInv == PIInv /\ AtomicInv /\ PrefixInv
<1>1. EInit => EIInv
    BY InitPIInv, InitPrefixInv DEF EInit
<1>2. EIInv /\ [ENext]_evars => EIInv'
    BY ExecutionPIInv, ExecutionAtomicInv, NextPrefixInv
<1>3. EIInv => YieldsAPrefix
    <2> SUFFICES ASSUME PIInv, PrefixInv, LineByLine
                 PROVE  /\ Len(lines) <= Len(Wrote)
                        /\ lines = SubSeq(Wrote, 1, Len(lines))
        BY DEF YieldsAPrefix, Wrote
    <2>1. PICK k \in 0..Len(Wrote) :
             Len(lines) <= k /\ \A i \in 1..Len(lines) : lines[i] = Wrote[i]
        BY DEF PrefixInv
    <2>2. /\ lines \in Seq(Seq(Byte)) /\ Len(lines) \in Nat
          /\ Wrote \in Seq(Message) /\ Len(Wrote) \in Nat
        BY ExecutionAssumption, LenProperties DEF PIInv, PTypeOK, Wrote
    <2>3. Len(lines) <= Len(Wrote)
        BY <2>1, <2>2
    <2>4. \A i \in 1..Len(lines) : i \in 1..Len(Wrote) /\ Wrote[i] \in Seq(Byte)
        BY <2>2, <2>3, ElementOfSeq DEF Message
    <2>5. /\ SubSeq(Wrote, 1, Len(lines)) \in Seq(Seq(Byte))
          /\ Len(SubSeq(Wrote, 1, Len(lines))) = Len(lines)
          /\ \A i \in 1..Len(lines) : SubSeq(Wrote, 1, Len(lines))[i] = Wrote[i]
        BY <2>2, <2>4, SubSeqProperties
    <2>6. lines = SubSeq(Wrote, 1, Len(lines))
        BY <2>1, <2>2, <2>5, SeqEqual
    <2> QED BY <2>3, <2>6
<1> HIDE DEF EIInv
<1> QED BY <1>1, <1>2, <1>3, PTL DEF ESpec
=============================================================================
