------------------------------- MODULE Launch -------------------------------
(* How the threads of a process start programs: sys::spawn, sys::exec and    *)
(* sys::Args (src/include/util/system.hpp), and what execution::execute      *)
(* (src/include/util/execution.hpp) hands them.  A call is a sequence of     *)
(* system calls on the one working directory that at_dir objects of other    *)
(* threads, and of the program itself, change too.  Failures of posix_spawn  *)
(* are reported through throw_on_error and the errno of the thread.          *)
EXTENDS AtDir

CONSTANTS Threads,   \* threads that start programs; each names its do_spawn's at_dir
          Requests,  \* what they ask for: records as execute and spawn read them
          Strings,   \* names of executables and arguments
          Programs,  \* the files that are there to be executed, see File
          Absolute,  \* those among the executables that are absolute paths
          Bare,      \* those that are names without a slash
          Codes      \* error numbers

Default == "current_path()"   \* execute's default argument cwd
None    == "nullopt"          \* execute's default argument environment
NoVariables == "{}"           \* an environment without variables
Null    == "nullptr"
environ == "environ"          \* the environment of the process itself
Nothing == [of |-> "nothing"] \* no call, no outcome

ASSUME LaunchAssumption ==
    /\ Threads \subseteq Guards
    /\ Codes \subseteq Nat \ {0} /\ Codes # {}
    /\ \A r \in Requests : /\ r.exe \in Strings /\ r.args \in Seq(Strings)
                          /\ (r.of = "execute" => r.env # Null)
                          /\ (r.of = "spawn" => r.env # None)

VARIABLES pc,       \* of each thread: "idle", "called" (in do_spawn), "leaving" (it)
          ask,      \* what its call was asked for
          outcome,  \* what came of posix_spawn: a program or an error
          errno,    \* of each thread; nothing ever sets it to 0
          failures, \* history: the errors that failed calls of each thread put in errno
          image     \* the program that exec has put in the place of this one

vars_run == <<pc, ask, outcome, errno, failures, image>>
vars == <<vars_dir, vars_run>>

Init == /\ DirInit
        /\ pc = [t \in Threads |-> "idle"]
        /\ ask = [t \in Threads |-> Nothing]
        /\ outcome = [t \in Threads |-> Nothing]
        /\ errno = [t \in Threads |-> 0]
        /\ failures = [t \in Threads |-> {}]
        /\ image = Nothing

-----------------------------------------------------------------------------
(* sys::Args: strings, and pointers to them that update_c ends with a null.  *)
update_c(strings) == Append(strings, Null)
Args(strings)     == [data_source |-> strings, c_data |-> update_c(strings)]
ArgsOf(exe, args) == Args(<<exe>> \o args)

push_front_stale(a, value) ==   \* mutated form: the pointers stay those of before
    [data_source |-> <<value>> \o a.data_source, c_data |-> a.c_data]

push_front(a, value) ==
    LET strings == <<value>> \o a.data_source
    IN [data_source |-> strings, c_data |-> update_c(strings)]

(* What the program finds in argv: the pointers up to the null.              *)
Argv(a) == SubSeq(a.c_data, 1, Len(a.c_data) - 1)

(* execute: the executable comes first, and is looked up along the PATH      *)
(* unless it is absolute; no environment is an empty one.                    *)
make_args(exec, arguments) == <<exec>> \o arguments

LookupOf(exe) == IF exe \in Absolute THEN "NO_LOOKUP" ELSE "PATH"

(* The file that a path names, in the directory the child is in, and along   *)
(* the PATH when it has no slash.                                            *)
File(lookup, exe, dir) ==
    IF exe \in Absolute \/ (exe \in Bare /\ lookup = "PATH") THEN <<exe>> ELSE <<dir, exe>>

-----------------------------------------------------------------------------
(* A call of execute with a directory or the working directory of the moment *)
(* (fs::current_path() throws when that was removed).                        *)
execute(t) ==
    \E r \in Requests :
       /\ r.of = "execute"
       /\ alive /\ image = Nothing /\ pc[t] = "idle"
       /\ r.cwd = Default => current \in exists
       /\ pc' = [pc EXCEPT ![t] = "called"]
       /\ ask' = [ask EXCEPT ![t] =
             [work_directory |-> IF r.cwd = Default THEN current ELSE r.cwd,
              lookup         |-> LookupOf(r.exe),
              c_args         |-> Args(make_args(r.exe, r.args)),
              env            |-> IF r.env = None THEN NoVariables ELSE r.env,
              request        |-> r]]
       /\ UNCHANGED <<vars_dir, outcome, errno, failures, image>>

(* sys::spawn::operator() with an executable, its directory "." or one set   *)
(* by cwd(); without an environment the program gets that of the process.    *)
spawn(t) ==
    \E r \in Requests :
       /\ r.of = "spawn"
       /\ alive /\ image = Nothing /\ pc[t] = "idle"
       /\ pc' = [pc EXCEPT ![t] = "called"]
       /\ ask' = [ask EXCEPT ![t] =
             [work_directory |-> r.cwd,
              lookup         |-> r.lookup,
              c_args         |-> ArgsOf(r.exe, r.args),
              env            |-> IF r.env = Null THEN environ ELSE r.env,
              request        |-> r]]
       /\ UNCHANGED <<vars_dir, outcome, errno, failures, image>>

(* do_spawn: the constructor of change, whose failures end the call.         *)
ReadDirectory(t)   == pc[t] = "called" /\ ReadCurrent(t) /\ UNCHANGED vars_run
ChangeDirectory(t) == pc[t] = "called" /\ Enter(t, ask[t].work_directory) /\ UNCHANGED vars_run

EndCall(t) == /\ pc' = [pc EXCEPT ![t] = "idle"]
              /\ ask' = [ask EXCEPT ![t] = Nothing]
              /\ outcome' = [outcome EXCEPT ![t] = Nothing]

(* A system call of a thread fails with an error and puts it in errno.       *)
FailsWith(t, e) == /\ errno' = [errno EXCEPT ![t] = e]
                   /\ failures' = [failures EXCEPT ![t] = @ \union {e}]

Fails(t) == \E e \in Codes : FailsWith(t, e)

NoDirectory(t) == /\ pc[t] = "called"
                  /\ \/ CannotRead(t) /\ UNCHANGED vars_dir
                     \/ CannotEnter(t, ask[t].work_directory)
                  /\ Fails(t) /\ EndCall(t)
                  /\ UNCHANGED image

-----------------------------------------------------------------------------
(* throw_on_error<SPAWN>: errno when it is not 0, and else the result; what  *)
(* posix_spawn returned is not what errno holds unless it sets it.           *)
throw_on_error_zero(result, err) == err   \* mutated form: SPAWN is taken for ERRNO

throw_on_error(result, err) == IF err = 0 THEN result ELSE err

(* posix_spawn starts the program in the working directory of the moment.    *)
posix_spawn(t) ==
    LET file == File(ask[t].lookup, Argv(ask[t].c_args)[1], current)
    IN /\ file \in Programs
       /\ outcome' = [outcome EXCEPT ![t] =
             [of |-> "program", file |-> file, dir |-> current,
              argv |-> Argv(ask[t].c_args), env |-> ask[t].env]]
       /\ UNCHANGED <<errno, failures>>

(* ... or returns an error, which it may for many reasons, and leaves errno  *)
(* alone or sets it.                                                         *)
posix_spawn_fails(t) ==
    \E e \in Codes :
       /\ FailsWith(t, e) \/ UNCHANGED <<errno, failures>>
       /\ outcome' = [outcome EXCEPT ![t] =
             [of |-> "error", cause |-> e, thrown |-> throw_on_error(e, errno'[t])]]

do_spawn(t) == /\ alive /\ image = Nothing /\ pc[t] = "called" /\ made[t] = "live"
               /\ pc' = [pc EXCEPT ![t] = "leaving"]
               /\ posix_spawn(t) \/ posix_spawn_fails(t)
               /\ Uses(t)
               /\ UNCHANGED <<current, exists, old_current, made, alive, inside, stack>>
               /\ UNCHANGED <<ask, image>>

(* The end of do_spawn, by return or exception: ~at_dir of change.           *)
Return(t) == /\ pc[t] = "leaving"
             /\ Leave(t)
             /\ IF alive' THEN EndCall(t) ELSE UNCHANGED <<pc, ask, outcome>>
             /\ UNCHANGED <<errno, failures, image>>

(* sys::exec: no at_dir; execv leaves nothing of this program or fails.      *)
exec(t) ==
    \E r \in Requests :
       LET args_arr == push_front(Args(r.args), r.exe)
           file     == File("NO_LOOKUP", r.exe, current)
       IN /\ r.of = "exec"
          /\ alive /\ image = Nothing /\ pc[t] = "idle"
          /\ \/ /\ file \in Programs
                /\ image' = [of |-> "program", file |-> file, dir |-> current, argv |-> Argv(args_arr),
                              request |-> r]
                /\ UNCHANGED <<errno, failures>>
             \/ Fails(t) /\ UNCHANGED image
          /\ UNCHANGED <<vars_dir, pc, ask, outcome>>

-----------------------------------------------------------------------------
(* at_dir objects of the program itself, on threads that start nothing.      *)
Own == Guards \ Threads

UseGuard(g) == \/ ReadCurrent(g)
               \/ \E path \in Dirs \union {Here} : Enter(g, path) \/ CannotEnter(g, path)
               \/ \E h \in Own : MoveTo(g, h)
               \/ Leave(g)

GuardStep == /\ image = Nothing
             /\ \/ \E g \in Own : UseGuard(g)
                \/ \E d \in Dirs : RemoveDirectory(d)
             /\ UNCHANGED vars_run

Step(t) == \/ execute(t) \/ spawn(t) \/ exec(t)
           \/ image = Nothing /\ (ReadDirectory(t) \/ ChangeDirectory(t) \/ NoDirectory(t))
           \/ do_spawn(t)
           \/ image = Nothing /\ Return(t)

Next == GuardStep \/ \E t \in Threads : Step(t)

Spec == Init /\ [][Next]_vars

-----------------------------------------------------------------------------
(* What a program was asked to be: in the directory of the call, or the one  *)
(* that its at_dir found for ".", with the executable before its arguments,  *)
(* and with no environment at all if execute was given none.                 *)
Where(t) == IF ask[t].work_directory = Here THEN old_current[t] ELSE ask[t].work_directory

IsAsAsked(t, p) ==
    LET r == ask[t].request IN
    /\ p.dir = Where(t)
    /\ p.file = File(ask[t].lookup, r.exe, Where(t))
    /\ p.argv = <<r.exe>> \o r.args
    /\ p.env = CASE r.env = None -> NoVariables
                 [] r.env = Null -> environ
                 [] OTHER -> r.env

(* A program starts as it was asked for unless at_dir objects of different   *)
(* threads crossed: a relative path is looked for in the requested directory *)
(* and not in the caller's.                                                  *)
StartsAsAsked ==
    /\ ~crossed => \A t \in Threads :
          pc[t] = "leaving" /\ outcome[t].of = "program" => IsAsAsked(t, outcome[t])
    /\ image # Nothing => /\ image.argv = <<image.request.exe>> \o image.request.args
                          /\ ~crossed /\ stack = <<>> => image.dir = Home

(* A launch that posix_spawn refused throws the error it was refused with,   *)
(* or one that an earlier call of the same thread failed with, since what is *)
(* left in errno comes first: its own cause if no call of the thread failed  *)
(* before, never the error of another thread's call, and never success.      *)
ThrowsOwnFailure ==
    \A t \in Threads : pc[t] = "leaving" /\ outcome[t].of = "error" =>
        outcome[t].thrown \in {outcome[t].cause} \union failures[t]
=============================================================================
