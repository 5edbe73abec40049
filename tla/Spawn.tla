------------------------------- MODULE Spawn -------------------------------
(* Descriptors of executed programs: the pipes vb::execution makes           *)
(* (src/include/util/execution.hpp), the file actions it hands to sys::spawn *)
(* (src/include/util/system.hpp), what posix_spawn does with them in the     *)
(* child, and when a program that reads its input to the end can be over.    *)
(* Nothing the library opens is close-on-exec, so a program starts with a    *)
(* copy of the parent's table, pipes of other objects included.              *)
EXTENDS Integers, Sequences, FiniteSetsExt, SequencesExt

CONSTANTS Objects,      \* execution objects
          Redirections, \* sets of streams an object is built to redirect
          Missing,      \* sets of streams the process may lack from its start
          MaxFd,        \* bound: descriptors of a process are 0..MaxFd
          MaxExecutes,  \* bound: calls of execute on an object
          Filters,      \* objects whose program reads its input to the end
          None          \* no object

ASSUME SpawnAssumption == /\ MaxFd \in Nat /\ MaxFd >= 2
                          /\ Redirections \subseteq (SUBSET (0..2)) \ {{}}
                          /\ Missing \subseteq SUBSET (0..2)
                          /\ MaxExecutes \in Nat
                          /\ Filters \subseteq Objects
                          /\ None \notin Objects

In  == 0   \* std_io: the numbers are those of the streams
Out == 1
Err == 2
Io  == {In, Out, Err}

(* io_set: a number with one bit for each stream, combined by operator| and  *)
(* asked for a stream by operator&.                                          *)
to_set(io) == CASE io = In -> 1 [] io = Out -> 2 [] io = Err -> 4

Has(set, io) == (set \div to_set(io)) % 2 = 1

With(set, io) == IF Has(set, io) THEN set ELSE set + to_set(io)

io_set(ios) == FoldSet(LAMBDA io, set : With(set, io), 0, ios)

Ends == {"READ", "WRITE"}
Fds  == 0..MaxFd
NoFd == -1

(* What a descriptor refers to.                                              *)
Free == [kind |-> "free"]
Stream(n) == [kind |-> "stream", number |-> n]
PipeEnd(o, io, end) == [kind |-> "pipe", of |-> o, io |-> io, end |-> end]

VARIABLES table,        \* descriptors of the parent
          pipes,        \* of each object and stream, the numbers of the two ends
          actions,      \* file_actions of each object's spawner
          life,         \* of each object: "unborn", "alive", "gone"
          program,      \* of each object's program: "none", "running", "over"
          started,      \* descriptors each program started with
          waiting,      \* the object whose wait() the parent is in
          nested,       \* whether objects are used one inside the other, see MayWait
          missing,      \* streams that the process started without
          redirections, \* streams each object has a pipe for, open or not
          asked,        \* history: streams each object was asked to redirect
          outcomes,     \* history: what came of each call of execute
          order         \* history: objects in the order their programs started

vars == <<table, pipes, actions, life, program, started, waiting, nested,
          missing, redirections, asked, outcomes, order>>

NoPipe == [end \in Ends |-> NoFd]

Init == /\ missing \in Missing
        /\ table = [n \in Fds |-> IF n \in Io \ missing THEN Stream(n) ELSE Free]
        /\ pipes = [o \in Objects |-> [io \in Io |-> NoPipe]]
        /\ actions = [o \in Objects |-> <<>>]
        /\ life = [o \in Objects |-> "unborn"]
        /\ program = [o \in Objects |-> "none"]
        /\ started = [o \in Objects |-> [n \in Fds |-> Free]]
        /\ waiting = None
        /\ nested \in BOOLEAN
        /\ redirections = [o \in Objects |-> {}]
        /\ asked = [o \in Objects |-> {}]
        /\ outcomes = [o \in Objects |-> <<>>]
        /\ order = <<>>

-----------------------------------------------------------------------------
(* The end the program gets of each pipe, and the one left to the parent.    *)
direction(io) == IF io = In THEN "READ" ELSE "WRITE"
Not(dir) == IF dir = "READ" THEN "WRITE" ELSE "READ"

Before(n, ns) == Cardinality({m \in ns : m < n})
InOrder(ns) == [k \in 1..Cardinality(ns) |-> CHOOSE n \in ns : Before(n, ns) = k - 1]

(* Every other object has been executed, or tried, before the next is built. *)
MayBuild(o) == nested => \A p \in Objects \ {o} : life[p] = "alive" => outcomes[p] # <<>>

redirected(set) == {io \in Io : Has(set, io)}

(* execution(redirections): pipe() gives the lowest free numbers, for the    *)
(* standard streams in their order.  Without enough of them the constructor  *)
(* throws and leaves nothing behind.                                         *)
Construct(o, streams) ==
    LET ios == redirected(io_set(streams))
        free == {n \in Fds : table[n] = Free}
        number(io, end) ==
            InOrder(free)[2 * Before(io, ios) + IF end = "READ" THEN 1 ELSE 2]
        holder(n) == {p \in ios \X Ends : number(p[1], p[2]) = n}
    IN /\ life[o] = "unborn" /\ MayBuild(o)
       /\ Cardinality(free) >= 2 * Cardinality(ios)
       /\ pipes' = [pipes EXCEPT ![o] = [io \in Io |->
              IF io \in ios THEN [end \in Ends |-> number(io, end)] ELSE NoPipe]]
       /\ table' = [n \in Fds |-> IF holder(n) = {} THEN table[n]
                                  ELSE LET p == CHOOSE p \in holder(n) : TRUE
                                       IN PipeEnd(o, p[1], p[2])]
       /\ life' = [life EXCEPT ![o] = "alive"]
       /\ redirections' = [redirections EXCEPT ![o] = ios]
       /\ asked' = [asked EXCEPT ![o] = streams]
       /\ UNCHANGED <<actions, program, started, waiting, outcomes, order, nested, missing>>

-----------------------------------------------------------------------------
(* The file actions of a pipe, added to those its spawner has already.    *)
add_close(fd) == [op |-> "close", fd |-> fd]
setup_dup2(from, to) == [op |-> "dup2", fd |-> from, to |-> to]

FileActionsKeepOwn(o, io) ==   \* mutated form: the end behind the stream stays
    LET fd(end) == pipes[o][io][end] IN
    <<add_close(fd(Not(direction(io)))), setup_dup2(fd(direction(io)), io)>>

FileActionsKeepOther(o, io) ==   \* mutated form: the parent's end stays
    LET fd(end) == pipes[o][io][end] IN
    <<setup_dup2(fd(direction(io)), io), add_close(fd(direction(io)))>>

FileActions(o, io) == LET fd(end) == pipes[o][io][end] IN
    <<add_close(fd(Not(direction(io)))),
      setup_dup2(fd(direction(io)), io),
      add_close(fd(direction(io)))>>

(* for_each_pipe: the streams in their order.                                *)
Requested(o) ==
    LET ForPipe(io) == IF io \in redirections[o] THEN FileActions(o, io) ELSE <<>>
    IN ForPipe(In) \o ForPipe(Out) \o ForPipe(Err)

(* posix_spawn_file_actions_add... refuse a negative descriptor, and the     *)
(* exception leaves the actions before it in the spawner.                    *)
Refused(acts) == {k \in DOMAIN acts : acts[k].fd < 0}

AddedOnce(o) ==   \* mutated form: nothing is added to what is there
    IF actions[o] = <<>> THEN Requested(o) ELSE actions[o]

Added(o) == LET acts == Requested(o) IN
    actions[o] \o IF Refused(acts) = {} THEN acts
                  ELSE SubSeq(acts, 1, Min(Refused(acts)) - 1)

(* The child applies them to its copy of the table.  A close never fails, a  *)
(* dup2 of a descriptor that is not open does and ends the child.            *)
Perform(child, action) ==
    IF action.op = "close" THEN [child EXCEPT !.fds[action.fd] = Free]
    ELSE IF child.fds[action.fd] = Free THEN [child EXCEPT !.ok = FALSE]
    ELSE [child EXCEPT !.fds[action.to] = child.fds[action.fd]]

posix_spawn(acts) == FoldLeft(Perform, [ok |-> TRUE, fds |-> table], acts)

-----------------------------------------------------------------------------
Release(fds) == table' = [n \in Fds |-> IF n \in fds THEN Free ELSE table[n]]

Held(o, ios, ends) == {pipes[o][io][end] : io \in ios, end \in ends} \ {NoFd}

CanExecute(o) == /\ life[o] = "alive" /\ waiting = None
                 /\ Len(outcomes[o]) < MaxExecutes

Outcome(o, what) == outcomes' = [outcomes EXCEPT ![o] = Append(@, what)]

(* set_direction(!direction(io)) of every pipe closes the program's end.     *)
set_direction_unnegated(o) ==   \* mutated form: closes the parent's end
    /\ Release({pipes[o][io][Not(direction(io))] : io \in redirections[o]})
    /\ pipes' = [pipes EXCEPT ![o] = [io \in Io |->
                    [pipes[o][io] EXCEPT ![Not(direction(io))] = NoFd]]]

set_direction(o) ==
    /\ Release({pipes[o][io][direction(io)] : io \in redirections[o]})
    /\ pipes' = [pipes EXCEPT ![o] = [io \in Io |->
                    [pipes[o][io] EXCEPT ![direction(io)] = NoFd]]]

(* execute: the program runs and each pipe gives up the end that went to it. *)
Execute(o) ==
    /\ CanExecute(o)
    /\ Refused(Requested(o)) = {}
    /\ posix_spawn(Added(o)).ok
    /\ actions' = [actions EXCEPT ![o] = Added(o)]
    /\ started' = [started EXCEPT ![o] = posix_spawn(Added(o)).fds]
    /\ program' = [program EXCEPT ![o] = "running"]
    /\ order' = Append(order, o)
    /\ Outcome(o, "ran")
    /\ set_direction(o)
    /\ UNCHANGED <<life, waiting, redirections, asked, nested, missing>>

(* execute throws: a file action was refused, at_dir found no directory, or  *)
(* posix_spawn found no program or met an action that fails.                 *)
ExecuteFails(o) ==
    /\ CanExecute(o)
    /\ actions' = [actions EXCEPT ![o] = Added(o)]
    /\ Outcome(o, "failed")
    /\ UNCHANGED <<table, pipes, life, program, started, waiting, redirections, asked, order, nested, missing>>

done(o, io) ==
    /\ life[o] = "alive" /\ waiting = None
    /\ Release(Held(o, {io}, Ends))
    /\ pipes' = [pipes EXCEPT ![o][io] = NoPipe]
    /\ UNCHANGED <<actions, life, program, started, waiting, redirections, asked, outcomes, order, nested, missing>>

Destroy(o) ==
    /\ life[o] = "alive" /\ waiting = None
    /\ Release(Held(o, Io, Ends))
    /\ pipes' = [pipes EXCEPT ![o] = [io \in Io |-> NoPipe]]
    /\ life' = [life EXCEPT ![o] = "gone"]
    /\ UNCHANGED <<actions, program, started, waiting, redirections, asked, outcomes, order, nested, missing>>

-----------------------------------------------------------------------------
(* Whether the parent or a running program has a pipe end.                   *)
IsHeld(entry) == \/ \E n \in Fds : table[n] = entry
                 \/ \E p \in Objects, n \in Fds :
                       program[p] = "running" /\ started[p][n] = entry

(* A program that reads its input to the end finds the end of a pipe when    *)
(* nobody has the other end of it any more.                                  *)
InputOver(o) == LET input == started[o][In] IN
    input.kind = "pipe" /\ input.end = "READ" => ~IsHeld([input EXCEPT !.end = "WRITE"])

Exit(o) ==
    /\ program[o] = "running"
    /\ o \in Filters => InputOver(o)
    /\ program' = [program EXCEPT ![o] = "over"]
    /\ UNCHANGED <<table, pipes, actions, life, started, waiting, redirections, asked, outcomes, order, nested, missing>>

(* Nested use gives a program all its input, and waits for programs started  *)
(* later, before it waits for the program.                                   *)
MayWait(o) == nested => /\ pipes[o][In] = NoPipe
                        /\ \A i, j \in DOMAIN order : order[i] = o /\ i < j
                                                      => program[order[j]] = "over"

Wait(o) ==
    /\ life[o] = "alive" /\ waiting = None
    /\ program[o] # "none" /\ MayWait(o)
    /\ waiting' = o
    /\ UNCHANGED <<table, pipes, actions, life, program, started, redirections, asked, outcomes, order, nested, missing>>

Return ==
    /\ waiting # None
    /\ program[waiting] = "over"
    /\ waiting' = None
    /\ UNCHANGED <<table, pipes, actions, life, program, started, redirections, asked, outcomes, order, nested, missing>>

Next == \/ \E o \in Objects :
              \/ \E streams \in Redirections : Construct(o, streams)
              \/ Execute(o) \/ ExecuteFails(o)
              \/ \E io \in Io : done(o, io)
              \/ Destroy(o) \/ Exit(o) \/ Wait(o)
        \/ Return

(* A program that can be over is over some day, and wait returns then.       *)
Spec == /\ Init /\ [][Next]_vars
        /\ \A o \in Objects : WF_vars(Exit(o))
        /\ WF_vars(Return)

-----------------------------------------------------------------------------
(* A program starts with its end of its own pipe as each redirected stream   *)
(* and with the parent's stream as each other one, whatever numbers the      *)
(* pipes have and whatever else is open; and with no other descriptor of its *)
(* own pipes: one more end of its input would keep it from ever seeing the   *)
(* end of it.  A stream that the process itself lacks is another matter: the *)
(* pipe may have taken its number, which the close behind dup2 takes away    *)
(* again, so a program redirected there may find nothing, but nothing else.  *)
ExactlyOwnEnds == \A o \in Objects : program[o] # "none" =>
    /\ \A io \in asked[o] : \/ started[o][io] = PipeEnd(o, io, direction(io))
                            \/ io \in missing /\ started[o][io] = Free
    /\ \A io \in Io \ (asked[o] \union missing) : started[o][io] = Stream(io)
    /\ \A n \in Fds, io \in Io, end \in Ends :
          started[o][n] = PipeEnd(o, io, end) => n = io /\ end = direction(io)

(* An object with redirected streams runs one program, with its first call   *)
(* of execute or never: after a call that failed the spawner repeats the     *)
(* actions of that call before the new ones, after one that succeeded the    *)
(* descriptors are gone.                                                     *)
OnlyFirstExecute == \A o \in Objects : \A k \in DOMAIN outcomes[o] :
    k > 1 => outcomes[o][k] = "failed"

(* Used nested, the output of a program that is over has an end: nobody has  *)
(* the other end of it, so lines() is not kept waiting by another program.   *)
OutputEnds == \A o \in Objects, io \in {Out, Err} :
    nested /\ program[o] = "over" => ~IsHeld(PipeEnd(o, io, "WRITE"))

(* Used nested, wait() for a program that reads all its input returns once   *)
(* the input is done.  Not so when the process lacks its standard input: a   *)
(* program without an input of its own then gets another object's pipe for   *)
(* it, of which it may have the write end itself.                            *)
WaitReturns == \A o \in Objects : nested /\ missing = {} /\ waiting = o ~> waiting = None
=============================================================================
