------------------------------ MODULE PipeFds ------------------------------
(* The descriptor side of vb::pipe_base (src/include/util/pipe.hpp): objects *)
(* that hold the numbers of pipe ends in the descriptor table of the         *)
(* process, close them, redirect them onto standard streams and move them.   *)
EXTENDS Integers, FiniteSets

CONSTANTS Objects,      \* pipe objects
          MaxFd,        \* bound: the descriptor table has MaxFd + 1 entries
          Inherited,    \* descriptors open when the program starts
          Targets,      \* standard streams pipes are redirected onto
          MaxRedirects  \* bound: redirections in a run that give an end a new number

ASSUME PipeFdsAssumption ==
    /\ MaxFd \in Nat
    /\ Inherited \subseteq 0..MaxFd
    /\ Targets \subseteq (0..2) \cap (0..MaxFd)
    /\ MaxRedirects \in Nat

READ  == "READ"
WRITE == "WRITE"
Ends  == {READ, WRITE}
Fds   == 0..MaxFd
NoFd  == -1

VARIABLES table,      \* what each descriptor of the process refers to
          fds,        \* file_descriptors of each object
          life,       \* of each object: "unborn", "alive", "gone"
          holds,      \* history: the kernel pipe whose ends the object was given
          redirects,  \* redirections so far that gave an end a new number
          taken       \* history: numbers a redirection took while another end held
                      \* them, and numbers redirected from those

vars == <<table, fds, life, holds, redirects, taken>>

(* A descriptor is free, inherited, or one end of the kernel pipe that the   *)
(* construction of an object made.                                           *)
Free   == [kind |-> "free"]
Other  == [kind |-> "other"]
PipeEnd(o, end) == [kind |-> "pipe", of |-> o, end |-> end]
Entries == {Free, Other} \union {PipeEnd(o, end) : o \in Objects, end \in Ends}

TypeOK == /\ table \in [Fds -> Entries]
          /\ fds \in [Objects -> [Ends -> Fds \union {NoFd}]]
          /\ life \in [Objects -> {"unborn", "alive", "gone"}]
          /\ holds \in [Objects -> Objects]
          /\ redirects \in 0..MaxRedirects
          /\ taken \subseteq Fds
          /\ \A o \in Objects : life[o] # "alive" => fds[o] = [end \in Ends |-> NoFd]

Init == /\ table = [n \in Fds |-> IF n \in Inherited THEN Other ELSE Free]
        /\ fds = [o \in Objects |-> [end \in Ends |-> NoFd]]
        /\ life = [o \in Objects |-> "unborn"]
        /\ holds = [o \in Objects |-> o]
        /\ redirects = 0
        /\ taken = {}

-----------------------------------------------------------------------------
(* direction() tests for a number above 0.                                   *)
get_fd(o, end) == fds[o][end]

direction(o) == {end \in Ends : get_fd(o, end) > 0}

(* operator not of io_direction, on the set of ends it stands for.           *)
Not(dir) == Ends \ dir

Open(o) == {end \in Ends : fds[o][end] # NoFd}

(* The numbers of these ends of an object are descriptors: closing them or   *)
(* copying them does not fail with EBADF.                                    *)
Valid(o, ends) == \A end \in ends : fds[o][end] # NoFd /\ table[fds[o][end]] # Free

-----------------------------------------------------------------------------
(* pipe_base(): pipe() takes the two lowest free descriptors.                *)
Lowest(n, others) == table[n] = Free /\ \A m \in Fds \ others : table[m] = Free => n <= m

Construct(o) ==
    /\ life[o] = "unborn"
    /\ \E r \in Fds, w \in Fds :
          /\ r # w /\ Lowest(r, {}) /\ Lowest(w, {r})
          /\ table' = [table EXCEPT ![r] = PipeEnd(o, READ), ![w] = PipeEnd(o, WRITE)]
          /\ fds' = [fds EXCEPT ![o] = [end \in Ends |-> IF end = READ THEN r ELSE w]]
    /\ life' = [life EXCEPT ![o] = "alive"]
    /\ holds' = [holds EXCEPT ![o] = o]
    /\ UNCHANGED <<redirects, taken>>

(* Closing some ends of an object: the numbers are released and forgotten.   *)
CloseKeepsNumber(o, ends) ==   \* mutated form: fd = -1 is missing
    /\ table' = [n \in Fds |-> IF \E end \in ends : fds[o][end] = n THEN Free ELSE table[n]]
    /\ UNCHANGED fds

CloseForgetsOnly(o, ends) ==   \* mutated form: the call of close is missing
    /\ fds' = [fds EXCEPT ![o] = [end \in Ends |-> IF end \in ends THEN NoFd ELSE @[end]]]
    /\ UNCHANGED table

CloseEnds(o, ends) ==
    /\ table' = [n \in Fds |-> IF \E end \in ends : fds[o][end] = n THEN Free ELSE table[n]]
    /\ fds' = [fds EXCEPT ![o] = [end \in Ends |-> IF end \in ends THEN NoFd ELSE @[end]]]

(* close(dir): NONE does nothing, BOTH closes what is open and forgets both  *)
(* numbers, one end that is not open throws (EBADF) and changes nothing: a   *)
(* number somebody else has closed is kept.                                  *)
Close(o, dir) ==
    /\ life[o] = "alive"
    /\ IF Valid(o, dir) \/ dir = Ends
       THEN CloseEnds(o, dir) ELSE UNCHANGED <<table, fds>>
    /\ UNCHANGED <<life, holds, redirects, taken>>

set_direction(o, dir) == Close(o, Not(dir))

DestroyOnly(o) ==   \* mutated form: a destructor that does not close
    /\ life[o] = "alive"
    /\ life' = [life EXCEPT ![o] = "gone"]
    /\ UNCHANGED <<table, fds, holds, redirects, taken>>

Destroy(o) ==
    /\ life[o] = "alive"
    /\ CloseEnds(o, Ends)
    /\ life' = [life EXCEPT ![o] = "gone"]
    /\ UNCHANGED <<holds, redirects, taken>>

(* pipe_base(pipe_base&&): the descriptors change hands, the buffer does not *)
(* come along, and the source keeps an object without descriptors.           *)
Move(o, other) ==
    /\ life[other] = "alive" /\ life[o] = "unborn"
    /\ fds' = [fds EXCEPT ![o] = fds[other], ![other] = [end \in Ends |-> NoFd]]
    /\ life' = [life EXCEPT ![o] = "alive"]
    /\ holds' = [holds EXCEPT ![o] = holds[other]]
    /\ UNCHANGED <<table, redirects, taken>>

(* redirect<DIR>(fd): dup2 makes the target refer to the end, the object     *)
(* keeps the target's number, and the old number stays open and unheld.      *)
(* Nothing asks whether the target is the number of another end: dup2 closes *)
(* what it referred to, and both ends hold it then.  A number that is no     *)
(* descriptor throws (EBADF); the target itself is left as it is.            *)
HeldByAnother(o, end, n) == \E p \in Objects, d \in Ends : fds[p][d] = n /\ <<p, d>> # <<o, end>>

redirect(o, end, target) ==
    /\ life[o] = "alive" /\ redirects < MaxRedirects
    /\ \/ /\ fds[o][end] # target /\ Valid(o, {end})
          /\ table' = [table EXCEPT ![target] = table[fds[o][end]]]
          /\ fds' = [fds EXCEPT ![o][end] = target]
          /\ redirects' = redirects + 1
          /\ taken' = IF HeldByAnother(o, end, target) \/ fds[o][end] \in taken
                      THEN taken \union {target} ELSE taken
       \/ /\ fds[o][end] = target \/ ~Valid(o, {end})
          /\ UNCHANGED <<table, fds, redirects, taken>>
    /\ UNCHANGED <<life, holds>>

redirect_in(o)  == 0 \in Targets /\ redirect(o, READ, 0)
redirect_out(o) == 1 \in Targets /\ redirect(o, WRITE, 1)
redirect_err(o) == 2 \in Targets /\ redirect(o, WRITE, 2)

Next == \E o \in Objects :
           \/ Construct(o)
           \/ \E dir \in SUBSET Ends : Close(o, dir) \/ set_direction(o, dir)
           \/ Destroy(o)
           \/ \E other \in Objects : Move(o, other)
           \/ redirect_in(o) \/ redirect_out(o) \/ redirect_err(o)

Spec == Init /\ [][Next]_vars

-----------------------------------------------------------------------------
(* A number an object holds refers to an end of the kernel pipe it was made  *)
(* with or moved from: it never closes or uses a descriptor that was closed  *)
(* and handed out again.  The exceptions are the numbers a redirection took  *)
(* from another end, and what is redirected from those: redirecting onto a   *)
(* held number spoils no other number, whatever is closed, constructed or    *)
(* moved afterwards.                                                         *)
OwnEnds == \A o \in Objects, end \in Ends :
              fds[o][end] \notin taken \union {NoFd} => table[fds[o][end]] = PipeEnd(holds[o], end)

(* No descriptor is held twice, so none is closed twice, with the same       *)
(* exceptions.                                                               *)
HeldOnce == \A o \in Objects, p \in Objects, d \in Ends, end \in Ends :
               fds[o][d] \notin taken \union {NoFd} /\ fds[o][d] = fds[p][end] => o = p /\ d = end

(* An open pipe end belongs to an object that will close it, but for one end *)
(* that each redirection to a new number may have left behind.               *)
Unheld == {n \in Fds : /\ table[n].kind = "pipe"
                       /\ \A o \in Objects, end \in Ends : fds[o][end] # n}

NoLeak == Cardinality(Unheld) <= redirects

(* direction() names the ends that are open.                                 *)
DirectionIsOpenEnds == \A o \in Objects : direction(o) = Open(o)
=============================================================================
