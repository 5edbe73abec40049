------------------------------ MODULE Reaping ------------------------------
(* Several vb::execution objects (src/include/util/execution.hpp) of one     *)
(* process and the process table behind sys::wait_pid and sys::status_pid    *)
(* (src/include/util/system.hpp): which child a process id names changes     *)
(* over time, since the kernel reuses the id of a child that was reaped, and *)
(* waitpid(-1) takes any child.  Objects may be used from threads of their   *)
(* own: a blocking wait is a step that is not enabled yet.                   *)
EXTENDS Integers

CONSTANTS Executions,  \* the execution objects
          Pids,        \* the process ids the kernel hands out
          Codes        \* exit codes, as WEXITSTATUS delivers them

ASSUME ReapingAssumption ==
    /\ Executions # {}
    /\ Pids \subseteq Nat \ {0}
    /\ Codes \subseteq 0..255 /\ Codes # {}

NoPid    == -1   \* pid_t pid{ -1 }
NoStatus == -1   \* an empty status_type

VARIABLES pid,             \* member of each object
          current_status,  \* member of each object
          state,           \* of each process id: "free", "running", "zombie"
          owner,           \* history: the object whose program last had the id
          code,            \* what the program that last had the id exited with
          exited,          \* history: the exit code of the last program an object
                           \* executed before its status was kept
          thrown,          \* objects told by waitpid that they have no child (ECHILD)
          tookAny,         \* history: an object was waited for before its execute
          again            \* history: objects that executed more than one program

rvars == <<pid, current_status, state, owner, code, exited, thrown, tookAny, again>>

RTypeOK == /\ pid \in [Executions -> Pids \union {NoPid}]
           /\ current_status \in [Executions -> Codes \union {NoStatus}]
           /\ state \in [Pids -> {"free", "running", "zombie"}]
           /\ owner \in [Pids -> Executions]
           /\ code \in [Pids -> Codes]
           /\ exited \in [Executions -> Codes \union {NoStatus}]
           /\ thrown \subseteq Executions
           /\ tookAny \in BOOLEAN
           /\ again \subseteq Executions

RInit == /\ pid = [e \in Executions |-> NoPid]
         /\ current_status = [e \in Executions |-> NoStatus]
         /\ state = [p \in Pids |-> "free"]
         /\ owner \in [Pids -> {CHOOSE e \in Executions : TRUE}]
         /\ code \in [Pids -> {CHOOSE c \in Codes : TRUE}]
         /\ exited = [e \in Executions |-> NoStatus]
         /\ thrown = {} /\ tookAny = FALSE /\ again = {}

-----------------------------------------------------------------------------
(* execute: the new id overwrites the old one, the status stays as it is.    *)
execute(e) ==
    /\ again' = IF pid[e] # NoPid THEN again \union {e} ELSE again
    /\ \E p \in Pids :
          /\ state[p] = "free"
          /\ pid' = [pid EXCEPT ![e] = p]
          /\ state' = [state EXCEPT ![p] = "running"]
          /\ owner' = [owner EXCEPT ![p] = e]
    /\ exited' = IF current_status[e] = NoStatus
                 THEN [exited EXCEPT ![e] = NoStatus] ELSE exited
    /\ UNCHANGED <<current_status, code, thrown, tookAny>>

(* A program ends; its id stays taken until it is reaped.                    *)
ProgramExit(p) ==
    /\ state[p] = "running"
    /\ \E c \in Codes :
          /\ code' = [code EXCEPT ![p] = c]
          /\ exited' = IF pid[owner[p]] = p /\ current_status[owner[p]] = NoStatus
                       THEN [exited EXCEPT ![owner[p]] = c] ELSE exited
    /\ state' = [state EXCEPT ![p] = "zombie"]
    /\ UNCHANGED <<pid, current_status, owner, thrown, tookAny, again>>

-----------------------------------------------------------------------------
(* waitpid(pid, &status, option): the ids it may wait for.                   *)
Candidates(e) == IF pid[e] = NoPid THEN Pids ELSE {pid[e]}

Reap(p) == state' = [state EXCEPT ![p] = "free"]

(* A child has ended.  wait_pid keeps its status only if waitpid returned    *)
(* the id it was given, which it never does when that was -1.                *)
wait_pid_any(e) ==   \* mutated form: keeps the status of whatever was reaped
    \E p \in Pids :
       /\ state[p] = "zombie"
       /\ Reap(p)
       /\ current_status' = [current_status EXCEPT ![e] = code[p]]

wait_pid_drops(e) ==   \* mutated form: the comparison of the ids is the wrong way round
    \E p \in Candidates(e) :
       /\ state[p] = "zombie"
       /\ Reap(p)
       /\ UNCHANGED current_status

wait_pid_raw(e) ==   \* mutated form: WEXITSTATUS is missing
    \E p \in Candidates(e) :
       /\ state[p] = "zombie"
       /\ Reap(p)
       /\ current_status' = [current_status EXCEPT ![e] = 256 * code[p]]

wait_pid_peeks(e) ==   \* mutated form: waits with WNOWAIT
    \E p \in Candidates(e) :
       /\ state[p] = "zombie"
       /\ UNCHANGED state
       /\ IF pid[e] = p
          THEN current_status' = [current_status EXCEPT ![e] = code[p]]
          ELSE UNCHANGED current_status

wait_pid(e) ==
    \E p \in Candidates(e) :
       /\ state[p] = "zombie"
       /\ Reap(p)
       /\ IF pid[e] = p
          THEN current_status' = [current_status EXCEPT ![e] = code[p]]
          ELSE UNCHANGED current_status

exec_wait_uncached(e) ==   \* mutated form: asks the kernel every time
    /\ tookAny' = (tookAny \/ pid[e] = NoPid)
    /\ \/ wait_pid(e) /\ UNCHANGED thrown
       \/ /\ \A p \in Candidates(e) : state[p] = "free"
          /\ thrown' = thrown \union {e}
          /\ UNCHANGED <<current_status, state>>
    /\ UNCHANGED <<pid, owner, code, exited, again>>

(* exec_wait<BLOCK>: the kept status; a child that ended; only running ones, *)
(* which WNOHANG reports as no status and a blocking call waits for, unless  *)
(* a signal interrupts it and it throws (EINTR) with everything as it was;   *)
(* or no child at all (ECHILD), which throws.                                *)
exec_wait(e) ==
    /\ tookAny' = (tookAny \/ pid[e] = NoPid)
    /\ \/ /\ current_status[e] # NoStatus
          /\ UNCHANGED <<current_status, state, thrown>>
       \/ /\ current_status[e] = NoStatus
          /\ wait_pid(e)
          /\ UNCHANGED thrown
       \/ /\ current_status[e] = NoStatus
          /\ \E p \in Candidates(e) : state[p] = "running"
          /\ \A p \in Candidates(e) : state[p] # "zombie"
          /\ UNCHANGED <<current_status, state, thrown>>
       \/ /\ current_status[e] = NoStatus
          /\ \A p \in Candidates(e) : state[p] = "free"
          /\ thrown' = thrown \union {e}
          /\ UNCHANGED <<current_status, state>>
    /\ UNCHANGED <<pid, owner, code, exited, again>>

wait(e)   == exec_wait(e)
status(e) == exec_wait(e)

RNext == \/ \E e \in Executions : execute(e) \/ wait(e) \/ status(e)
         \/ \E p \in Pids : ProgramExit(p)

RSpec == RInit /\ [][RNext]_rvars

(* Every object is waited for, and again after a wait that threw.            *)
RFairSpec == RSpec /\ \A e \in Executions : WF_rvars(wait(e))

-----------------------------------------------------------------------------
(* As long as no object was waited for before its execute: what an object    *)
(* reports is the exit code of the last program it executed before it got    *)
(* the status, though the process id may since have named the programs of    *)
(* other objects, and though the object may execute programs again, whose    *)
(* statuses it never reports.                                                *)
OwnCode == ~tookAny => \A e \in Executions :
              current_status[e] # NoStatus => current_status[e] = exited[e]

(* A wait before execute, which takes any child of the process, never makes  *)
(* up a status.                                                              *)
NoStatusBeforeExecute == \A e \in Executions :
                            pid[e] = NoPid => current_status[e] = NoStatus

(* An object reports the status of its own program or none: both of these.   *)
OwnStatus == OwnCode /\ NoStatusBeforeExecute

(* With waits after execute only, waitpid never fails with ECHILD: no object *)
(* is asked to wait for a child that another call has reaped, an object that *)
(* executed again included.                                                  *)
NoEchild == ~tookAny => thrown = {}

(* A child of the process, running or ended, is one that its object waits    *)
(* for and has no status of: none is forgotten, but by an object that        *)
(* executes again before or after it has its status.  Waits before execute,  *)
(* which reap children of other objects, forget none.                        *)
NoZombieLeft == \A p \in Pids :
    state[p] # "free" => \/ pid[owner[p]] = p /\ current_status[owner[p]] = NoStatus
                         \/ owner[p] \in again

(* A program that ended is reaped for its own object and its status kept,    *)
(* unless the object executes another one first or some object was waited    *)
(* for before its execute.                                                   *)
EventuallyReaped == \A e \in Executions :
    exited[e] # NoStatus ~> current_status[e] # NoStatus \/ exited[e] = NoStatus \/ tookAny
=============================================================================
