------------------------------- MODULE AtDir --------------------------------
(* sys::at_dir (src/include/util/system.hpp): an object that is in another   *)
(* directory while it lives.  The working directory belongs to the process,  *)
(* so all objects of all threads change the same one; its constructor reads  *)
(* the directory and changes it in two system calls.                         *)
EXTENDS Integers, Sequences

CONSTANTS Guards,  \* at_dir objects, those inside do_spawn included
          Dirs,    \* directories
          Home,    \* the one the process starts in
          MaxLive  \* bound: objects that live at a time

Here  == "."   \* the relative path that names the working directory
Empty == ""    \* the old_current of an object that was moved from

ASSUME AtDirAssumption == /\ Home \in Dirs /\ Here \notin Dirs /\ Empty \notin Dirs
                          /\ MaxLive \in Nat

VARIABLES current,      \* the working directory of the process
          exists,       \* directories that have not been removed
          old_current,  \* member of each object
          made,         \* of each object: "no", "read" (half constructed), "live"
          alive,        \* FALSE when std::terminate was called
          inside,       \* history: the directory that each live object is in
          stack,        \* history: objects that will restore a directory, as made
          crossed       \* history: an object was used while a younger one lived

vars_dir == <<current, exists, old_current, made, alive, inside, stack, crossed>>

DirTypeOK == /\ current \in Dirs
             /\ exists \subseteq Dirs
             /\ old_current \in [Guards -> Dirs \union {Empty}]
             /\ made \in [Guards -> {"no", "read", "live"}]
             /\ alive \in BOOLEAN /\ crossed \in BOOLEAN
             /\ inside \in [Guards -> Dirs]
             /\ stack \in Seq(Guards)

DirInit == /\ current = Home
           /\ exists = Dirs
           /\ old_current = [g \in Guards |-> Empty]
           /\ made = [g \in Guards |-> "no"]
           /\ alive = TRUE
           /\ inside = [g \in Guards |-> Home]
           /\ stack = <<>>
           /\ crossed = FALSE

-----------------------------------------------------------------------------
Last(s) == s[Len(s)]

Holds(g) == \E i \in DOMAIN stack : stack[i] = g

(* A step of an object crosses the others if a younger one is not gone yet.  *)
Uses(g) == crossed' = (crossed \/ (Holds(g) /\ Last(stack) # g))

Without(g) == IF ~Holds(g) THEN stack
              ELSE LET at == CHOOSE i \in DOMAIN stack : stack[i] = g
                   IN [i \in 1..(Len(stack) - 1) |-> stack[IF i < at THEN i ELSE i + 1]]

(* old_current{ fs::current_path() }: throws when the directory is removed,  *)
(* and then there is no object.                                              *)
ReadCurrent(g) ==
    /\ alive /\ made[g] = "no" /\ Len(stack) < MaxLive
    /\ current \in exists
    /\ old_current' = [old_current EXCEPT ![g] = current]
    /\ made' = [made EXCEPT ![g] = "read"]
    /\ inside' = [inside EXCEPT ![g] = current]
    /\ stack' = Append(stack, g)
    /\ UNCHANGED <<current, exists, alive, crossed>>

CannotRead(g) == /\ alive /\ made[g] = "no"
                 /\ current \notin exists

(* fs::current_path(new_dir), where it names a directory that exists.        *)
Names(path) == IF path = Here THEN current ELSE path

Enter(g, path) ==
    /\ alive /\ made[g] = "read"
    /\ Names(path) \in exists
    /\ current' = Names(path)
    /\ made' = [made EXCEPT ![g] = "live"]
    /\ inside' = [inside EXCEPT ![g] = Names(path)]
    /\ Uses(g)
    /\ UNCHANGED <<exists, old_current, alive, stack>>

(* ... and where it does not: it throws, no object, no change.               *)
CannotEnter(g, path) ==
    /\ alive /\ made[g] = "read"
    /\ Names(path) \notin exists
    /\ made' = [made EXCEPT ![g] = "no"]
    /\ old_current' = [old_current EXCEPT ![g] = Empty]
    /\ inside' = [inside EXCEPT ![g] = Home]
    /\ stack' = Without(g)
    /\ Uses(g)
    /\ UNCHANGED <<current, exists, alive>>

(* at_dir(at_dir&&): h takes over the duty to restore.                       *)
MoveTo_keeps(g, h) ==   \* mutated form: the source is not emptied
    /\ alive /\ made[g] = "live" /\ made[h] = "no" /\ g # h
    /\ old_current' = [old_current EXCEPT ![h] = old_current[g]]
    /\ made' = [made EXCEPT ![h] = "live"]
    /\ inside' = [inside EXCEPT ![h] = inside[g], ![g] = Home]
    /\ stack' = [i \in DOMAIN stack |-> IF stack[i] = g THEN h ELSE stack[i]]
    /\ UNCHANGED <<current, exists, alive, crossed>>

MoveTo(g, h) ==
    /\ alive /\ made[g] = "live" /\ made[h] = "no" /\ g # h
    /\ old_current' = [old_current EXCEPT ![h] = old_current[g], ![g] = Empty]
    /\ made' = [made EXCEPT ![h] = "live"]
    /\ inside' = [inside EXCEPT ![h] = inside[g], ![g] = Home]
    /\ stack' = [i \in DOMAIN stack |-> IF stack[i] = g THEN h ELSE stack[i]]
    /\ UNCHANGED <<current, exists, alive, crossed>>

(* ~at_dir: nothing to do after a move; back to the old directory; or, when  *)
(* that was removed, an exception out of a destructor, which terminates.     *)
LeaveEmpty(g) ==
    /\ alive /\ made[g] = "live" /\ old_current[g] = Empty
    /\ made' = [made EXCEPT ![g] = "no"]
    /\ UNCHANGED <<current, exists, old_current, alive, inside, stack, crossed>>

LeaveBack(g) ==
    /\ alive /\ made[g] = "live" /\ old_current[g] \in exists
    /\ current' = old_current[g]
    /\ made' = [made EXCEPT ![g] = "no"]
    /\ old_current' = [old_current EXCEPT ![g] = Empty]
    /\ inside' = [inside EXCEPT ![g] = Home]
    /\ stack' = Without(g)
    /\ Uses(g)
    /\ UNCHANGED <<exists, alive>>

LeaveTerminates(g) ==
    /\ alive /\ made[g] = "live" /\ old_current[g] \in Dirs \ exists
    /\ alive' = FALSE
    /\ UNCHANGED <<current, exists, old_current, made, inside, stack, crossed>>

Leave(g) == LeaveEmpty(g) \/ LeaveBack(g) \/ LeaveTerminates(g)

(* Somebody removes a directory, which may be the working directory.         *)
RemoveDirectory(d) == /\ alive /\ d \in exists
                      /\ exists' = exists \ {d}
                      /\ UNCHANGED <<current, old_current, made, alive, inside, stack, crossed>>

-----------------------------------------------------------------------------
(* As long as no object is used while a younger one lives, moved ones        *)
(* included, the process is in the directory of the youngest, and back in    *)
(* the one it started in when there is none, though constructors threw and   *)
(* directories disappeared on the way.                                       *)
DirectoryRestored ==
    ~crossed => current = IF stack = <<>> THEN Home ELSE inside[Last(stack)]
=============================================================================
