# Verification of basic_prj

TLA+ models of the `vb` utility library (`src/include/util`), the TLC runs that
check them and the TLAPS proofs about them. The library is header-only C++: line
buffers, pipes, child processes with redirected streams, coroutine generators,
environments and option parsing. Its hard part is the stack

    execution::lines()  -- coroutine, one line per resumption
        pipe::operator()()  -- poll, read, gather until '\n'
            buffer_type  -- linear storage with a used range
        exec_wait  -- waitpid on a process id, status kept once known

with the child at the other end of the kernel pipe, and most modules are about
it.

## Inventory

| Part | State | Operations | What makes it hard | What makes it correct |
|---|---|---|---|---|
| `buffer_type` (buffer.hpp) | storage, `used_begin`, `used_end` | `load`, `unload_line` | index arithmetic across partly consumed ranges, a full storage, a NUL behind a newline | nothing lost, duplicated or reordered; lines come out as lines; an empty buffer is all free |
| `pipe_base` as a stream (pipe.hpp) | buffer, two descriptors | `operator()()`, `operator()(data...)`, `set_direction` | every system call may interleave with other writers or be interrupted; partial writes; end of file is "zero bytes read" | bytes in order, whole lines, the read end closed at end of file only, calls return |
| `pipe_base` as a holder of descriptors | two numbers | construct, `close`, `set_direction`, `redirect_*`, move, destroy | the kernel reuses numbers | a number held is an own end; an end is left behind by a redirection only |
| `execution` (execution.hpp) | pipes, `pid`, `current_status`, spawner | `execute`, `lines`, `status`, `wait`, `done` | races between output, exit and `waitpid`; use of the object, a second iteration included, from the loop body | lines are a prefix of the output; iteration ends; the status is right and asked for once |
| `wait_pid` (system.hpp) with several objects | the process table | `exec_wait<BLOCK>` | ids are reused; `waitpid(-1)` takes any child | own status, no ECHILD, no child forgotten |
| `spawn`: file actions (system.hpp) | file actions | `setup_dup2`, `add_close`, call | inheritance of other objects' descriptors; a second attempt after a failure | the child has exactly its own ends |
| `spawn`, `exec`, `Args`: launching (system.hpp), `make_args` (execution.hpp) | arguments, `errno`, the working directory of the process | `do_spawn`, `execute`, `exec`, `throw_on_error` | threads share the working directory that a launch changes for its own time; two ways to report an error | a program starts in the directory, with the file, arguments and environment asked for; a failure throws its cause or an earlier failure of its own thread |
| `at_dir` (system.hpp) | the directory to go back to | construct, move, destroy | overlapping lifetimes, moved objects, directories that disappear | the directory before is restored |
| `generator` (generator.hpp) | coroutine handle, `current` | `begin`, `++`, end test | iterators share one value | every value yielded is seen once, in order |
| `environment` (environment.hpp) | definitions in order; the system's variables | `set`, `import`, `add`, queries, `update_system` | names and definitions share a representation | one definition per name, the latest; answers are what the program sees |
| options (options.hpp, option/), preferences (preferences.hpp), string lists (string_list.hpp), static strings (string.hpp) | none | locating keys, `parse`, `split_string`, `substr` | boundaries of views; two parsers of one notation | agreement with what the text says, and with each other |
| filesystem | a mode | calls into std::filesystem | -- | -- |
| expected, converters, typeset, arrays, bounded_array, xml, option/group, arguments, debug | none or compile time | -- | -- | -- |

The interactions: an `execution` owns up to three pipes and one spawner; the
coroutine of `lines` keeps a reference to a pipe and runs only inside the
iteration of its consumer, so the consumer's calls on the same object happen
between two lines; the child and the kernel run concurrently with all of it;
several objects share the descriptor table, the process table, the working
directory and the environment of the process.

## Modules

| Module | Models | Checked by |
|---|---|---|
| `LineQueue` | abstract: bytes in at one end, lines out at the other | refined by `LineBuffer`, `LinePipe` |
| `Buffer` | `buffer_type`, operation by operation | `LineBuffer`, `Pipe` |
| `LineBuffer` | a buffer and any user of it | `MCLineBuffer` |
| `Pipe` | `operator()()`, `operator()(data...)`, the kernel pipe | `LinePipe`, `Execution` |
| `LinePipe` | a pipe, its writers, a reader that keeps calling | `MCLinePipe` |
| `Execution` | parent, coroutine, loop body, child, a second stream | `MCExecution` (two configurations) |
| `Reaping` | several executions and the process table | `MCReaping` |
| `PipeFds` | pipe objects over the descriptor table | `MCPipeFds` (two configurations) |
| `Spawn` | the pipes of executions, file actions, `posix_spawn`, descriptors of every program | `MCSpawn` |
| `AtDir` | `at_dir` objects and the working directory of the process | `Launch` |
| `Launch` | threads that call `execute`, `spawn` and `exec`, step by step, over the same directory | `MCLaunch` |
| `Generator` | loops over copies of one generator | `MCGenerator` |
| `EnvMap` | abstract: names and the values the executed program finds | refined by `Environment` |
| `Environment` | `variable_name`, `variable`, `environment` and the process's own variables | `MCEnvironment` |
| `Text` | positions and searches in a text; `static_string` | `Parsing` |
| `StringList` | `count_parts`, `split_string`, `splited` | `Parsing` |
| `Options` | `basic`, `basic_option`, `default_option` | `Parsing` |
| `Preferences` | `vb::argument`, the second parser of definitions | `Parsing` |
| `Parsing` | every text up to a length, given to all of these | `MCParsing` |
| `LinePipeProofs` (of `LineBuffer` too), `ExecutionProofs`, `EnvironmentProofs`, `GeneratorProofs`, `PipeFdsProofs`, `SpawnProofs` (of `Reaping` too), `LaunchProofs`, `ParsingProofs` | theorems | tlapm |

### How the state corresponds to the code

* **Buffer.** Iterators are indices from 0; `data` is the array. `load` takes the
  bytes the reader stores as its argument, at most `free`; `unload_line` is one
  step: the search, the line, the NUL, the reset of the range. The definitions
  have the names of the members.
* **Pipe.** `rpc` is the place in `operator()()`: before the poll, between poll
  and read, before `unload_line`, or out of it ("idle"); `result` is its local.
  `wpc`, `unwritten` and `todo` do the same for each writer's
  `operator()(data...)`; a writer outside `VbWriters` is any program and writes its
  strings as they are. What they write is one of `Scripts`, chosen at the start. A write
  that waits for room may be `Interrupted`: with nothing transferred it throws, else it
  returns a count that `operator()(data...)` does not look at. An interrupted poll throws
  where an empty one returns an error, and both drop what the call had gathered
  (`PollEmpty`). `Move`, in `LinePipe`, goes on with an object that has the descriptors
  and an empty buffer, in the behaviours where `moves` was chosen. `kernel` is the pipe in the kernel, with a capacity and the
  rule that writes of at most `PIPE_BUF` bytes are atomic. `PollInAtEof` says whether
  poll reports POLLIN at end of file: POSIX leaves it open and Linux reports
  POLLHUP alone, so the runs use both values. `sent`, `lines`, `out` and
  `discarded` are histories.
* **Execution.** `epc` is the place of the parent: in `execute`, in the coroutine
  ("loop", "call", "wait"), in the loop body, behind the loop. `uses`, any part of
  `BodyCalls`, is what the loop body of a behaviour does with the object. `closed()` is modelled as it is written: it
  asks for an end that is there and is not, so it is false and only a status ends
  the iteration. A child killed by SIGPIPE reports 0, which is what WEXITSTATUS
  delivers. The error stream is a second pipe whose lines are only counted, iterated
  over inside the loop body or behind the loop; that iteration asks for the same status.
  A signal may interrupt a blocking `waitpid`, which throws: the loop body catches that and goes
  on, and behind the loop `wait()` is called again.
* **Reaping.** A process id is free, running or a zombie; `owner` and `exited` are
  histories that say whose program it was and what the last one of an object ended with
  before its status was kept. The objects may also be waited for before `execute`, when
  `waitpid(-1)` takes any child, or execute a second program; the histories `tookAny` and
  `again` say that one was. An interrupted wait throws and changes nothing.
* **PipeFds.** `table` maps a descriptor to what it refers to; `pipe()` takes the
  lowest free numbers; `dup2` overwrites the target, whoever holds it. A redirection onto a
  number that another end holds makes it held twice; the history `taken` has these numbers
  and what is redirected from them, and the ends there may be closed by either holder, or
  refer to what was opened since. Closing or copying a number that is no descriptor throws
  (`Valid`). `Unheld` are the open ends that no object will close.
* **Spawn.** `table` is the parent's descriptor table and `started` the one each program
  began with; `actions` is what the spawner has gathered, which no call ever clears.
  A set of streams is the number `io_set` makes of it, a bit for each, and what
  `redirected` reads out of that number is what gets a pipe.
  A constructor that finds too few free numbers throws, which leaves nothing behind.
  `FileActions` are the three of each redirected stream, `Perform` is what the child does
  with one of them. A call of `execute` succeeds with everything it does (`Execute`)
  or throws behind the file actions (`ExecuteFails`), as for a missing directory or
  program. Nothing is close-on-exec, so `started` has the ends of other objects'
  pipes too. A program in `Filters` ends only when nobody has the other end of its
  input. `nested`, chosen at the start, is a way to use several objects: each is built
  when the others have been executed, and waited for when its input is done and
  later programs are over. Without it every order of calls is allowed. `missing`, chosen
  at the start too, are standard streams the process itself lacks, whose numbers its
  pipes then take.
* **Generator.** `at` counts the values yielded and stands for the place of the
  coroutine; `current` is the member of each copy, `promised` the one in the
  promise, which outlives the last yield. The coroutine may return or throw anywhere,
  and yields at most `Length` values. `begin`, `Continue` and the exception path
  share `Increment`; a loop may be left by `Break` and begun again.
* **Environment.** A text is the sequence of its pieces between `=` characters, so
  the positions the code computes are heads and tails; `definitions` is the vector,
  `system` what `getenv` finds. A caller may name a variable by a name or by a whole
  definition (`Raws`), because a `variable_name` is a view of either: importing by a
  definition keeps what is behind its `=` in front of the imported value.
  `update_system` passes a whole definition to `setenv`, which refuses it. The queries
  are operators on the list.
* **AtDir and Launch.** `current` is the working directory of the process, `old_current`
  the member of each guard and `made` how far its constructor is, which reads the
  directory and changes it in two system calls, each of which throws if a directory was
  removed. A thread of `Launch` is also the guard that its `do_spawn` creates: `pc` is
  "called" from the call to `posix_spawn` and "leaving" until the guard is destroyed.
  A destructor that finds its directory gone throws and so terminates (`alive`). `stack`,
  `inside` and `crossed` are histories: `crossed` says that a guard was used while a
  younger one lived, which single-threaded scopes never do. `ask` is what a call hands to `do_spawn`; `Requests`
  are the calls. `errno` is what earlier calls of the thread left, and the history `failures`
  all the errors that failed calls of it put there. The other guards are on threads that start
  nothing.
* **Parsing.** Texts are sequences of character codes and grow by a character in each
  step, so every text of the alphabet is a state; positions count from 1 and the
  end is the position after the text. The parsers are operators, and the invariants
  compare them with operators that say what is meant (`Carries`, `CarriedValue`, `Join`)
  or with each other. The keys of an option are those it finds in its definition, which are
  not always the ones written there: `Cut` and `FirstLetter` say which.
  `locate_description` is given a view whose beginning is the end of the definition, read as
  a C string, so its argument `behind` is what stands there up to a NUL. The NUL that ends the array of a literal is part of it where the
  code sees it. What throws returns a tagged `OutOfRange`.

## Runs

| Run | Question | Bounds and why they are enough |
|---|---|---|
| `line_buffer` | do the indices implement a line queue? | storage of 3 bytes, 5 bytes stored, four byte values (newline, NUL, two others): every position of a newline and a NUL relative to both ends of the range and of the storage, and at least one reset |
| `line_pipe` | do bytes stay in order, whole lines whole, and does everything arrive? | buffer of 2 below the longest line of 3, pipe of 4: a line needs several loads, and a writer waits for room; the object is moved between any two calls, or never; one script of atomic whole lines, one with a string split and interrupted after every byte, a NUL behind a newline and a last line without one |
| `execution` | does iteration end with the right lines and status, whatever the body does, and is the whole output seen when the child is over before a call? | three lines of six bytes through a pipe that holds four: the child waits for the parent, but once the first line is read the rest fits, so the body may wait as well as ask for the status, close the pipe or iterate over the errors, of which there are none, one, or more than fit their pipe |
| `exit_race` | is the whole output always seen? | finding, see below |
| `reaping` | own status, no ECHILD, no child forgotten; and what is left of that after a wait before execute or a second execute | two objects on two ids: an id is reused by the other object and by the same one |
| `pipe_fds` | own ends only, and no more left behind than redirections? | three objects (two and one to move into), eight descriptors, two redirections onto any of the standard streams, another object's included; objects are symmetric |
| `redirect_in` | does `direction()` name the open ends? | finding, see below |
| `spawn` | what does a program start with, when can execute succeed, and does nested use keep anybody waiting? | two objects with input and output or error redirected, in every order of calls, two calls of execute each: one program inherits the other's pipes in every state they can be in; the process has all its streams or lacks its input; programs read their input to the end |
| `launch` | does a program start as asked, and is the directory restored? | two threads and two guards of the program, at most two alive at a time; two directories that may disappear, one call by path (`exec`), one by name (`spawn`), one relative to a directory (`execute`); threads and guards are symmetric; 1.9 million states |
| `generator` | what do alternating loops see, and who gets the exception? | three loops, up to four values: a value may be held by two others when the coroutine ends |
| `environment` | is the list of definitions a map for the program, and does it answer what the program sees? | two names, named by themselves and by a definition, two values and the empty one |
| `parsing` | which arguments do options take, do the two parsers agree, do lists and slices lose nothing? | all texts of up to five characters over eight that stand for the classes the code tells apart: 37 449 texts; five characters are a long argument with key and value, a definition with a character behind its key, and a list of six parts |

Bounds the code does not have, each named in a guard: `MaxStored` (bytes stored in a
run of `LineBuffer`), `MaxRedirects` and `MaxFd` (`PipeFds`), `MaxExecutes` and `MaxFd`
(`Spawn`), `MaxLive` (guards at a time in `Launch`), `Length` (values of `Generator`) and
`LENGTH` (of a text). The other models are finite because what is written is.

**Fairness.** Both processes are scheduled (`WF` of the parent's and the child's
next step); a blocked system call is a disabled step. `LinePipe` assumes in
addition that the reader keeps calling and that its object gives up its own
write end, which `execute` does. A loop body ends. `Spawn` assumes that a
program that can be over is over some day and that `waitpid` then returns, `Reaping`
that every object that executed is waited for. Nothing else is assumed: in
particular no fairness of a choice between interleavings, and none of an interruption.

**Findings.**

1. `exit_race`: `lines()` may end with output unread. The loop tests
   `current_status` before it reads again, so a child that writes and exits
   between a failed poll and the `exec_wait<false>` behind it loses its output.
   `test/execution.cpp:82` expects the output of such a child. `ExitBeforeCallLosesNothing` shows
   the window is exactly that: a child that is over before a call of the
   iteration loses nothing.
2. `redirect_in`: `direction()` counts an end only when its number is above 0, and
   `redirect_in` makes it 0.

Also seen while modelling, and not stated by the repository otherwise:

* A last line without newline is never delivered by `operator()()` (it is dropped with
  "No data available"). An interrupted poll throws and loses the part of a line gathered so
  far; the branch for EINTR behind it is never taken. `operator()(data...)` does not look
  at the count that `write` returns, so an interrupted write loses the rest of the string.
* Every redirection leaves the old number open. Redirecting onto a number that another end
  holds leaves both objects with it, and closing either closes it for both. A move leaves what was buffered in the
  object moved from, so the next line may lack its beginning.
* In a process without a standard stream a pipe may take its number: the program redirected
  there starts without the stream, and a program of another object may get the pipe for its
  own input and, holding its write end too, never see the end of it.
* `wait()` inside the loop body blocks for ever when the remaining output does not fit
  the kernel pipe. Of two streams only the first one iterated over is read: the loop over
  it ends by the status, which ends the second before its first line (`SecondStreamUnseen`).
* An object whose `execute` failed can never execute (`OnlyFirstExecute`): the actions of
  the failed call are repeated and their `dup2` finds a closed descriptor. Used otherwise
  than nested, programs keep each other waiting: two filters whose objects were both built
  before either was executed hold the write ends of each other's input and never end.
* The status of a second program is never reported when the first one's is kept.
* `execute` without an environment starts the program with an empty one, `spawn` with
  that of the process. Launches on two threads, or a launch while another thread has a
  guard, may start a program in the wrong directory and leave the process there: `StartsAsAsked` and
  `DirectoryRestored` are stated for guards that do not cross. `throw_on_error` of a
  `posix_spawn` that does not set `errno` throws what an earlier call left there.
* `update_system` never changes the system; importing a name the system has no variable
  for defines it as empty.
* A definition with its long key first takes the first letter of that key for its short
  one, whatever stands behind the comma; for the definitions at `options.hpp:109` and
  `option/description.hpp:132` the two coincide. A long key is cut at its first `-`, though
  `is_word` counts it as part of a word: the option of `--all-files, -f:` takes `--all` and
  `-a`, and not `-f` (`TakesItsArguments`).
* `locate_description` is empty for a view with a `:` or at the end of a literal, whatever
  the description; for another one it reads what is behind the view.
* `parse` of an argument of fewer
  than two characters throws `out_of_range`. `isalpha` of preferences.hpp has no upper
  bound in its second range, so the two parsers of definitions stop at different
  characters (`LongKeysAgree`).

## Proofs

Every theorem holds for all values of the constants that satisfy the assumptions the
modules state about them, and from nothing else. The proofs build on one another as the
code does: `LinePipeProofs` has the theorems of the buffer first and uses them for the pipe,
and `ExecutionProofs` extends it, so what an `unload_line` or a `BufferLoad` does is
proved once.

`LinePipeProofs` proves of `LineBuffer`, for every storage size, alphabet and bound:

* `BufferTypeCorrect`. The type invariant is inductive; the work is that the end of the
  line found stays within the used range.
* `EmptyBufferIsAllFree`. Inductive once it says that an empty range is at index 0.
* `NoByteLost`. What was handed out and what is in the range are what was stored, NULs
  aside. `WithoutNuls` filters a sequence with a recursive function, about which its lemmas
  (that it exists, and that it distributes over `\o`) need an induction: a set of numbers
  that has 0 and with each number the next is all of `Nat` (`InductionOnNat`, from the
  least member of a set), and the set in question is named at each use, so no theorem with
  an operator for a parameter is needed.
* `BufferImplementsQueue`. The refinement mapping is `queue <- Content`, the bytes of
  the used range. A load appends to it, `unload_line` takes its first line, and
  a reset of the range is invisible. The lemmas relate the search in the array
  (`FindNL`) to the first newline of the sequence.

It proves of `LinePipe`, for any writers, scripts, capacities and sizes, with splits,
interruptions and moves: `PipeTypeCorrect`, `BytesKeepTheirOrder`, `ReadEndClosesAtEof`
and `PipeImplementsLines`. `InPipe` is what was sent and is under way: the local of the
call, the buffer, the kernel's pipe. The steps are described once by their effect on it:
most of the reader's leave it alone (`Leaves`), a line or piece leaves at its front
(`Takes`), a failed call drops the local when nothing else is there (`Drops`), a transfer
adds behind. From these the invariants follow, none of which is inductive alone:

* `ReaderInv`: between poll and read the buffer is empty, so all of it is free; the local
  has no newline. It makes a read of zero bytes end of file.
* `WriterInv` and `AtomicInv`: what a writer has left is a rest of its script, and with
  atomic whole lines it is never in the middle of a string.
* `BytesInv`: what was consumed and `InPipe` are what was sent, NULs aside. `RestInv` says
  that `InPipe` is an end of what was sent, NULs included.
* `LinesInv`: every stretch of what was sent that ends a line, from anywhere in the line,
  is the end of a line that some writer writes, and so is every line returned. A line taken
  behind a move, whose beginning is gone, is such a stretch because `InPipe` is an end of
  what was sent.

The refinement maps each transfer to a `Put` of whole lines, each last piece of a line to a `Take`, and
everything else to a stutter, a call that fails included: with atomic lines what it drops
is empty (`NothingToDrop`).

`ExecutionProofs` proves for any child, loop body and sizes:

* `ReapedOnce`. `StatusOnce` is inductive with the values `proc` can have and with `proc`
  telling what the child's own state is, since the status of a child that died of SIGPIPE
  is read when it is reaped, maybe long after.
* `OtherStreamEnds`. Needs that behind the first loop the status is known (`ErrInv`).
* `LinesSeenAreAPrefix`. Uses the invariants of the pipe (`PIInv`, `AtomicInv`) and
  `PrefixInv`: there are positions that cut what was sent into the strings of the program, the
  lines seen are the first of those strings, and `InPipe` starts behind them, unless the
  loop body has closed the pipe and it is empty.

`EnvironmentProofs` proves for any names, values and ways to name them that a name
is defined at most once and that the queries answer what the program sees
(`AnswersAgree`), and that the list of definitions implements `EnvMap` (`EnvironmentImplementsMap`). The argument is that the
definitions left when one is erased are all the others, in order and once each
(`OthersAre`), so a search by name finds the new definition for its name and the old
one for every other (`Added`). `TypeOK` and `OneDefinition` together are inductive.

`GeneratorProofs` proves for any number of loops and values that each sees values in
order and none twice (`SeenInOrderOnce`). The strengthening is that as long as the
coroutine is not over, the value of a loop about to test for the end is new
(`Fresh`): nobody has seen it, it is larger than all the loop has seen, and no other
loop about to test has the same one. `ThrownToOneLoop`, that an exception comes out of one
call, is inductive with the pc of the loops. `ValuesLostOnlyToTheEnd` counts: every unseen
value is held by a loop about to test (`HeldBack`), no loop holds two, and the step that
ends the coroutine adds none. It assumes that there are finitely many loops, as a
count of them needs.

`PipeFdsProofs` proves for any number of objects, descriptors and redirections
`TypeCorrect`, `NumbersAreOwn`, `NumbersAreHeldOnce` and `LeaksOnlyByRedirection`. The
inductive invariant is `TypeOK`, `OwnEnds` and `HeldOnce` together: closing a number frees
its entry, which leaves the ends of others alone only because nobody else holds the
number, and a number held by two objects would refer to two ends. A redirection has two
cases (`RedirectCases`); onto a held number it makes that one `taken`, and the argument is
that it stays the only one excepted: no close, construction, move or further redirection
carries what is wrong with it to a number that is not `taken`. The leak is then a statement
about how each step changes the set `Unheld`: only a redirection adds to it, and one number.

`SpawnProofs` proves for any number of objects, sets of redirected streams, missing streams
and calls, and any size of the descriptor table, `SpawnTypeCorrect`, `StartsWithItsEnds`,
`OneProgramPerObject` and `OutputsEnd`. The folds of the model (the bits of a set of streams,
the file actions) are first shown to be what they are meant to be: `RedirectedIsAsked`,
that a set goes through its number unchanged, and `RunAppend` and `RunConcat`, that a fold over
a sequence takes its elements in their order. The invariant `IInv` says that the numbers of
a pipe and the table agree (`PipesAreHeld`), that the streams the process started with stay
where they are (`StreamsStay`), that a pipe never has the number of a redirected stream before
its own (`PipesOfTheRedirected`: the pipes are made in the order of the streams, from
the lowest numbers up), that the end a program got is gone (`ProgramsEndIsGone`), and what
calls of `execute` leave (`CallsLeave`: either an end is gone or the spawner ends in
all the actions of the object).

* `OneProgramPerObject`. Behind a first call, either a file action is refused for an end that
  is gone, or the actions run twice; the second round's `dup2` of the last redirected stream
  then meets a number that its first round closed and nothing opened again (`TwiceFails`).
* `StartsWithItsEnds`. The child's table has a closed form behind the actions of the
  first so many pipes (`ChildTable`), kept by the three actions of the next one
  (`ChildTableGrows`). A stream can be missing only when `dup2` was onto itself, so its
  number was the pipe's own, so the process started without it.
* `OutputsEnd`. With nested use, of two living objects one has been tried (`OneUntried`), so
  what a program inherits of another object's own ends belongs to an object whose
  `execute` failed, and that will never run (`LentByTheFailed`).

It proves of `Reaping`, for every set of objects, ids and codes, `ReportsOwnStatus`,
`WaitNeverFails` and `LeavesNoZombie`, all from one invariant `RInv`. The first two are
about processes in which waits follow `execute`, which may be called again; the third
holds for calls in any order, of the programs of objects that executed one. None of them is inductive alone:
that an object gets its own status needs that the id it holds is still its own
(`StillOwned`) as long as it has no status, which needs that an id is free only
after its owner has its status (`NotReaped`), and that the code in the process
table is the one recorded for the owner (`CodeRecorded`). `ReapingTypeCorrect`
and the half of `OwnStatus` about objects that have executed nothing hold for calls in any
order too.

`LaunchProofs` proves for any number of threads, guards, directories and requests
`DirectoryIsRestored`, `ProgramsStartAsAsked` and `FailuresAreReported`. The
strengthening has three parts. Without crossing, the guards that will restore a directory are
those on the stack, once each, and each will restore the directory that the one below is
in (`Chain`), so leaving the youngest leads to where the next one is. A thread's own guard
is in the directory it was asked for, and it has handed on the arguments and environment
of its request (`ThreadInv`). The image of `exec` is the same without a guard
(`ImageInv`). What a thread has in `errno` is 0 or an error it failed with (`ErrnoOK`), kept
by every way a call fails (`FailsWithRecords`), so what a refused launch throws is its
cause or one of these (`ErrorIsCaused`), never success.

`ParsingProofs` proves for every text over any alphabet without NUL, whatever its length,
and for all keys that are words, `ParsersAgree`, `OptionsParse` and `ListsSplit`. All a step
does is lengthen the text, so the invariant that carries them is that the text is one
(`ParsingTypeOK`), and each theorem is a fact about the operators for any text:

* Searches. The place `FindIf` returns is the only one with no character of the set before
  it and one at it, or the end (`StopsAt`, `StopsOnce`). So what a parser locates is found by
  naming the place, and two parsers stop at the same character unless that character is in one
  set and not in the other (`StopsDiffer`), which is what `KeysAgree` excepts.
* `OptionsParse`. A definition is put together from its keys, in either order, so where its
  searches stop is known: the long key is cut at its first `-` (`CutIs`, `KeyIsCut`), the
  short key is the one named if it is named first and otherwise the first letter behind the
  dashes (`ShortFirstKeys`, `LongFirstKeys`, `FirstLetterIs`). An argument matches by its first two characters or
  by its key (`LongArgument`, `ShortArgument`), and the rest is its value.
* `ListsSplit`. `Begins`, a recursive function, exists by induction over the number of parts
  (`BeginsExists`). As long as separators are left, each part begins behind the next one, and
  the number left falls by one (`PartsBegin`), so with `count_parts` parts the iterator never
  runs into the end and the last part has no separator unless the maximum cut it short. `Join` is
  a fold: its steps append a separator and a part (`JoinSteps`), and what is joined after `k`
  steps is the text up to the end of part `k + 1` (`PartsJoinAgain`).

`ParsingAssumption` says that long keys are any texts of word characters, `-` among them, the
empty one too, and that a short key is not `-`. The numbers the text is cut
at are those of the invariant, up to `LENGTH`.

Only model-checked is every liveness property (`CallReturns`, `AllDelivered`, `Finishes`,
`ExitBeforeCallLosesNothing`, `EventuallyReaped`, `WaitReturns`): liveness under fairness
is outside what the prover does. Every other property of a run that passes is a theorem.

## Not modelled

* *Conversions* (converters.hpp, optional.hpp, concept_helper.hpp; `value` of a variable,
  `from_string`): concepts and calls of iostream operators, no state or algorithm.
* *Filesystem operations*: one call into std::filesystem each, behind a mode that nothing sets.
* *expected.hpp*: a stand-in that compilers with std::expected skip, and those are the ones
  that can compile pipe.hpp.
* *bounded_array.hpp*: its own static assertions read a private member, so no program
  includes it.
* *arguments.hpp, option/group.hpp, xml.hpp*: included by nothing; the first two name types
  that do not exist.
* *typeset.hpp, arrays.hpp*: evaluated and checked by the compiler.
* *Wording* of messages, logs and printed forms; the build.
* Of modelled parts: the move assignment of a pipe, which no program can instantiate; the
  coroutine frame, which nothing destroys; iterators of one generator object, which share its
  `current`, where the loops of the model have a copy each; `set` copies the system's
  value before it overwrites it, and is one step; a list with a maximum of 0 parts. A
  `wait()` that never returns because the child's output does not fit the kernel pipe is
  outside the bounds of `execution`.

## Plan

In this order; each line is a module with its runs, then its theorems.

1. `LineQueue`, `Buffer`, `LineBuffer`, `Pipe`, `LinePipe`, `Execution`, `Reaping`,
   `PipeFds`; theorems of `LineBuffer` and `Reaping`. Done.
2. `Environment` against a map from names to values; the refinement as a theorem; its
   queries and what they agree with. Done.
3. `Spawn`: the file actions of `execute` in the child, inherited ends of other
   executions, a second attempt after a failed one. Done.
4. `Generator`: alternating loops over one coroutine; each value once and in order as
   a theorem. Done.
5. Interrupted system calls, mixed scripts and moves in `LinePipe`; a second stream in
   `Execution`; a process that lacks a stream in `Spawn`. Done.
6. `AtDir` and `Launch`: guards of the working directory and the launches that use them,
   with their theorems. Done.
7. `Text`, `StringList`, `Options`, `Preferences`, `Parsing`: the parsers as operators
   against reference definitions. Done.
8. Theorems of `PipeFds`. Done.
9. Theorems of `LinePipe` (order of bytes, end of file, the refinement of the queue of
   lines), `Execution` (`StatusOnce`, `SecondStreamUnseen`, `YieldsAPrefix`), `NothingLost`
   of the buffer and the counts of the generator. Done.
10. Theorems of `Spawn`: what a program starts with, the one call that runs it, and the end
   of its output in nested use. Done.
11. Theorems of `Parsing`: agreement of the parsers, what options take, lists joined
   again. Done.

A new question is a property of a run that exists where it can be one: variants of
use are chosen in the initial state or recorded by a history (`nested`, `uses`,
`script`, `moves`, `missing`, `tookAny`, `again`, `taken`, `failures`, `crossed`) rather than by a constant and a configuration of their own.
