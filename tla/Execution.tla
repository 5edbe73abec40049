----------------------------- MODULE Execution -----------------------------
(* vb::execution of src/include/util/execution.hpp with a redirected output: *)
(* the parent executes a program, iterates over lines<OUT>() and waits; the  *)
(* child writes to the pipe and exits.  Every system call of either is one   *)
(* step, and the loop body of the iteration may use the object too.  The     *)
(* error stream is redirected as well: a second pipe, of which only the      *)
(* number of lines matters, read by lines<ERR>() inside the loop or behind   *)
(* it.                                                                       *)
EXTENDS Pipe

CONSTANTS child,      \* the executed program, the pipe's only other writer
          ExitCode,   \* what it passes to exit()
          BodyCalls,  \* what loop bodies may call: "status", "wait", "done", "err"
          Errors,     \* how many lines the program may write to its error stream
          ERR_LINES   \* lines that fit the pipe of the error stream

ASSUME ExecutionAssumption ==
    /\ Writers = {child} /\ VbWriters = {}
    /\ ExitCode \in 1..255
    /\ BodyCalls \subseteq {"status", "wait", "done", "err"}
    /\ Errors \subseteq Nat /\ ERR_LINES \in Nat \ {0}

VARIABLES proc,            \* the child as the kernel sees it
          current_status,  \* -1 while the optional is empty
          epc,             \* where the parent is
          thrown,          \* a waitpid failed with ECHILD and the exception left the object
          uses,            \* which of BodyCalls the loop body does
          errors,          \* error lines the child has still to write
          err_kernel,      \* error lines in their pipe
          err_lines        \* history: error lines lines<ERR>() yielded

err   == <<errors, err_kernel, err_lines>>
evars == <<pvars, proc, current_status, epc, thrown, uses, err>>

NoStatus == -1

EInit == /\ PInit
         /\ proc = "none" /\ current_status = NoStatus
         /\ epc = "init" /\ thrown = FALSE
         /\ uses \in SUBSET BodyCalls
         /\ errors \in Errors /\ err_kernel = 0 /\ err_lines = 0

-----------------------------------------------------------------------------
(* execute: the child starts with the write end on its descriptor 1 and the  *)
(* read end closed; the parent then gives up its write end.                  *)

Spawn == /\ epc = "init"
         /\ proc' = "running"
         /\ epc' = "spawned"
         /\ UNCHANGED <<pvars, current_status, thrown>>

SetDirection == /\ epc = "spawned"
                /\ SetDirectionRead
                /\ epc' = "loop"
                /\ UNCHANGED <<proc, current_status, thrown>>

-----------------------------------------------------------------------------
(* exec_wait<BLOCK>: the kept status, else waitpid, which a signal may       *)
(* interrupt while it blocks.  WEXITSTATUS of a child that a signal killed   *)
(* is 0.                                                                     *)

WEXITSTATUS == IF wpc[child] = "broken" THEN 0 ELSE ExitCode

ExecWaitForgets(BLOCK) ==   \* mutated form: the status is not kept
    /\ proc = "zombie" \/ ~BLOCK
    /\ proc' = IF proc = "zombie" THEN "reaped" ELSE proc
    /\ UNCHANGED <<current_status, thrown>>

ExecWaitAsksAgain(BLOCK) ==   \* mutated form: waitpid even with a kept status
    /\ proc # "running" \/ ~BLOCK
    /\ proc' = IF proc = "zombie" THEN "reaped" ELSE proc
    /\ current_status' = IF proc = "zombie" THEN WEXITSTATUS ELSE NoStatus
    /\ thrown' = (thrown \/ proc = "reaped")

ExecWait(BLOCK) ==
    \/ /\ current_status # NoStatus
       /\ UNCHANGED <<proc, current_status, thrown>>
    \/ /\ current_status = NoStatus
       /\ BLOCK => proc # "running"
       /\ proc' = IF proc = "zombie" THEN "reaped" ELSE proc
       /\ current_status' = IF proc = "zombie" THEN WEXITSTATUS ELSE NoStatus
       /\ thrown' = (thrown \/ proc = "reaped")   \* ECHILD
    \/ /\ BLOCK /\ current_status = NoStatus /\ proc = "running"
       /\ UNCHANGED <<proc, current_status, thrown>>   \* EINTR, thrown too

-----------------------------------------------------------------------------
(* lines<OUT>(): the coroutine.                                              *)

LinesCall == /\ epc = "loop" /\ ~closed /\ current_status = NoStatus
             /\ Call
             /\ epc' = "call"
             /\ UNCHANGED <<proc, current_status, thrown>>

LinesEnd == /\ epc = "loop" /\ (closed \/ current_status # NoStatus)
            /\ epc' = "err"
            /\ UNCHANGED <<pvars, proc, current_status, thrown>>

(* A line is yielded to the loop body, a failed call leads to exec_wait.     *)
LinesStep == /\ epc = "call"
             /\ \/ (PollReadable \/ BufferLoad) /\ UNCHANGED epc
                \/ Unload /\ epc' = IF rpc' = "idle" THEN "body" ELSE "call"
                \/ PollEmpty /\ epc' = "wait"
             /\ UNCHANGED <<proc, current_status, thrown>>

LinesWait == /\ epc = "wait"
             /\ ExecWait(FALSE)
             /\ epc' = "loop"
             /\ UNCHANGED pvars

-----------------------------------------------------------------------------
(* The user of the object: the body of the loop over lines, and wait().      *)

Resume == /\ epc = "body"
          /\ epc' = "loop"
          /\ UNCHANGED <<pvars, proc, current_status, thrown>>

BodyStatus == /\ epc = "body" /\ "status" \in uses
              /\ ExecWait(FALSE)
              /\ epc' = "loop"
              /\ UNCHANGED pvars

(* ... it catches what an interrupted wait() throws and goes on.             *)
BodyWait == /\ epc = "body" /\ "wait" \in uses
            /\ ExecWait(TRUE)
            /\ epc' = "loop"
            /\ UNCHANGED pvars

(* done(OUT): close_all, and the kernel drops what nobody can read any more. *)
BodyDone == /\ epc = "body" /\ "done" \in uses
            /\ rd_open' = FALSE /\ wr_open' = FALSE
            /\ kernel' = IF rd_open THEN <<>> ELSE kernel
            /\ epc' = "loop"
            /\ UNCHANGED <<buffer, writer, rpc, result, lines, out, discarded,
                           proc, current_status, thrown>>

(* lines<ERR>(): the same loop on the other pipe, run to its end by the body *)
(* of the first one or behind it.                                            *)
BodyErr == /\ epc = "body" /\ "err" \in uses
           /\ epc' = "err"
           /\ UNCHANGED <<pvars, proc, current_status, thrown, err>>

ErrGoesOnUnasked ==   \* mutated form: the loop does not ask for the status
    err_kernel # 0

ErrGoesOn == current_status = NoStatus

ErrLine == /\ epc = "err" /\ ErrGoesOn /\ err_kernel # 0
           /\ err_kernel' = err_kernel - 1
           /\ err_lines' = err_lines + 1
           /\ UNCHANGED <<pvars, proc, current_status, epc, thrown, errors>>

ErrNone == /\ epc = "err" /\ ErrGoesOn /\ err_kernel = 0
           /\ epc' = "err_wait"
           /\ UNCHANGED <<pvars, proc, current_status, thrown, err>>

ErrWait == /\ epc = "err_wait"
           /\ ExecWait(FALSE)
           /\ epc' = "err"
           /\ UNCHANGED <<pvars, err>>

ErrEnd == /\ epc = "err" /\ ~ErrGoesOn
          /\ epc' = "end"
          /\ UNCHANGED <<pvars, proc, current_status, thrown, err>>

LinesErr == BodyErr \/ ErrLine \/ ErrNone \/ ErrWait \/ ErrEnd

(* wait(), again when it was interrupted.                                    *)
Wait == /\ epc = "end"
        /\ ExecWait(TRUE)
        /\ epc' = IF current_status' = NoStatus THEN "end" ELSE "finished"
        /\ UNCHANGED pvars

Parent == /\ \/ /\ \/ Spawn \/ SetDirection
                   \/ LinesCall \/ LinesEnd \/ LinesStep \/ LinesWait
                   \/ Resume \/ BodyStatus \/ BodyWait \/ BodyDone
                   \/ Wait
                /\ UNCHANGED err
             \/ LinesErr
          /\ UNCHANGED uses

-----------------------------------------------------------------------------
(* The child: writes, closes its descriptors by exiting or dying of SIGPIPE, *)
(* and is a zombie from then on.                                             *)

ChildWrites == /\ proc = "running"
               /\ Writer(child)
               /\ UNCHANGED <<proc, current_status, epc, thrown, err>>

ChildWritesError == /\ proc = "running" /\ wpc[child] \in {"ready", "closed"}
                    /\ errors # 0 /\ err_kernel < ERR_LINES
                    /\ errors' = errors - 1
                    /\ err_kernel' = err_kernel + 1
                    /\ UNCHANGED <<pvars, proc, current_status, epc, thrown, err_lines>>

ChildExits == /\ proc = "running"
              /\ wpc[child] = "broken" \/ (wpc[child] = "closed" /\ errors = 0)
              /\ proc' = "zombie"
              /\ UNCHANGED <<pvars, current_status, epc, thrown, err>>

Child == (ChildWrites \/ ChildWritesError \/ ChildExits) /\ UNCHANGED uses

Stopped == epc = "finished" /\ UNCHANGED evars

ENext == Parent \/ Child \/ Stopped

ESpec == EInit /\ [][ENext]_evars

(* Both processes are scheduled; the loop body comes to an end.              *)
EFairSpec == ESpec /\ WF_evars(Parent) /\ WF_evars(Child)

-----------------------------------------------------------------------------
(* Every write call of the program writes one line and is atomic, and no     *)
(* line begins with a NUL, which unload_line would drop.                     *)
LineByLine == \A i \in DOMAIN script[child] :
    LET s == script[child][i] IN
    /\ EndsLine(s) /\ \A k \in 1..Len(s) - 1 : s[k] # NL
    /\ Len(s) <= PIPE_BUF
    /\ s[1] # NUL

(* What the loop body has seen is a prefix of the lines the program wrote,   *)
(* whole and in order, however the race with its exit ends.                  *)
YieldsAPrefix == LineByLine => /\ Len(lines) <= Len(script[child])
                               /\ lines = SubSeq(script[child], 1, Len(lines))

(* The status reported is the one the child exited with and the child is     *)
(* reaped for it exactly once: no later call of status() or wait() asks the  *)
(* kernel for a process that is gone.                                        *)
StatusOnce == /\ ~thrown
              /\ current_status # NoStatus <=> proc = "reaped"
              /\ current_status # NoStatus => current_status = WEXITSTATUS

(* The iteration ends and wait() returns once the program is over, also when *)
(* the body asks for the status, closes the pipe under the coroutine or      *)
(* iterates over the errors, as long as what is not read meanwhile fits its  *)
(* pipe: the loops poll, but they never look at each other's pipe.           *)
Finishes == errors <= ERR_LINES => <>(epc = "finished")

(* Every iteration ends by the status and so ends the others: behind the     *)
(* loop over one stream lines() of the other yields nothing, whatever is in  *)
(* its pipe.                                                                 *)
SecondStreamUnseen == "err" \notin uses => err_lines = 0

(* A child that is over before a call of the iteration has its whole output  *)
(* seen if the body leaves the object alone: only an exit between a failed   *)
(* poll and the exec_wait that follows it can cost lines.                    *)
ExitBeforeCallLosesNothing ==
    LineByLine => (epc = "loop" /\ proc = "zombie" /\ uses = {}
                      ~> epc = "finished" /\ lines = script[child])

(* Iterating over lines() sees all the program wrote.                        *)
AllOutputSeen == epc = "finished" /\ uses = {} => lines = script[child]
=============================================================================
