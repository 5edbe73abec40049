------------------------------ MODULE MCLaunch ------------------------------
(* Two threads that start programs, two at_dir objects of the program, and a *)
(* program under a relative path in one of the two directories.              *)
EXTENDS Launch, TLC

CONSTANTS home, a

MCPrograms == {<<"/bin/ls">>, <<"ls">>, <<a, "./run">>}

MCRequests ==
    {[of |-> "execute", cwd |-> Default, exe |-> "./run", args |-> <<"x">>, env |-> None],
     [of |-> "spawn", cwd |-> Here, exe |-> "ls", lookup |-> "PATH", args |-> <<>>,
      env |-> Null],
     [of |-> "exec", exe |-> "/bin/ls", args |-> <<"x">>]}

Symmetric == Permutations(Threads) \union Permutations(Own)
=============================================================================
