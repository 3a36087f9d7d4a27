# Verification of MARTe2-community-components

TLA+ models, TLC runs and TLAPS proofs about the components of this repository:
the plug-ins for the MARTe2 real-time framework under `src/Source/Components`
and the small library they share under `src/Source/Core`.

## 1. The system

MARTe2 itself (its scheduler, brokers, `LoggerService`, HTTP service) is not part
of the repository; it is modelled only from how the components use it.

| Part | State it keeps | Operations | Meets |
|---|---|---|---|
| `JSONLogger` | `flusher_t` (stream, log path, `idle`, mutex), the stdio buffer | constructor, `Initialise`, `ConsumeLogMessage`, the `flush` thread, destructor | called by the LoggerService thread; creates flusher threads; shares the log file with other programs |
| `OnChangeLoggerDataSource`, `OnChangeBroker` | the copy table, the previous values, the ignore mask, the output counter, the period | `SetConfiguredDatabase`, `GetOutputBrokers`, `Init`, `Execute` | called once per real-time cycle; writes log lines, which reach `JSONLogger` |
| `LuaGAM` | the Lua stack and globals, the signal tables, internal state variables | `Initialise`, `Setup`, `Execute`, the `push_*` and `get_*` helpers | called once per cycle by a real-time thread; runs a Lua program; `Verifier` checks the program before |
| Lua parser, AST, `Verifier` | two positions in a line, the token list, the syntax tree | `linearize`, `scan`, the rules behind `generate_ast`, `Check`, `validate_*`, `check_*` | `LuaGAM` and the command line checker; nodes held by `Rc` |
| `HttpDynamicMessageInterface` | none between requests; a database and its cursor while one is served | `GetAsStructuredData`, `GetAsText`, `SendDynamicMessage` | called by the threads of the HTTP service; sends MARTe messages |
| `Rc<T>` | reference counter, weak counter, handles | copy, assignment, `%=`, `~`, `+`, destructor | the syntax tree, `Vec` |
| `Vec<T>`, `Str` | buffer, size, capacity | `append`, `remove`, `reduce`, `find`, concatenation, `substr` | the parser |
| `Option<T>`, `Result<T,E>` | tag and payload | copy, `val`, `operator=` | the parser |
| `Helpers` | the signal and parameter definitions | `validate_signals`, `validate_parameters` | the components' `Initialise` |

LuaJIT (`src/Source/Components/GAMs/LuaGAM/luajit`) is vendored third-party code, nine tenths of the lines in the
repository: only the stack functions that `LuaGAM` calls are modelled. The build files, the Docker and editor
files, the examples and the tests are not.

### What is hard, and what makes each part correct

* **JSONLogger** is the concurrent part: a flag is tested under a mutex and
  cleared outside it, threads are created and never joined, the file is closed and
  opened again behind the consumer's back, `fopen` and `pthread_create` fail, the log
  file is deleted, moved or replaced at any time, and the object can be destroyed while
  a flusher sleeps. It is correct when every message reaches the log once and in
  order, is flushed in the end, and no thread works on a stream or object that is gone.
* **OnChangeBroker** relates three tables that are indexed differently (the
  copies, the signals, the bytes of the previous values). It is correct when a line is
  written exactly when a signal that is watched has changed.
* **LuaGAM** keeps a stack that every helper pushes to and pops from, in C
  calls with their own failure paths, over an unbounded number of cycles. It is correct
  when a cycle leaves the stack as it found it and outputs depend on this cycle's inputs.
* **Rc** counts strong and weak references; correct when an object is deleted
  once, after its last strong handle, and counters after the last handle of any kind.
* **Vec, Str, Option, Result** own buffers and cells; correct when they act like the
  sequence, the text or the value they stand for, whatever was there before, and no cell is shared, leaked or
  written behind.
* **Helpers** walk through a configuration with two indices; correct when a configuration is accepted exactly
  when all that is mandatory is in its place.
* **HttpDynamicMessageInterface** makes many calls that may fail and looks at the results of some; correct when
  what is sent is what was asked for and the answer tells the truth.
* **Parser and Verifier** recurse over a token list and try alternatives in turn; correct when they end on every
  input, lose nothing, and answer what the code means.

All hazards, with their lines, are in `PROJECT.json`.

## 2. The modules

| Module | Models | Used by |
|---|---|---|
| `JSONLogger` | `JSONLogger.cpp`: object, consumer call, flusher threads, destructor, the log file | `MCJSONLogger`, `JSONLogger_proofs` |
| `LogSink` | what a logger promises, without threads or files | `JSONLogger` (refinement `Sink`), `JSONLogger_proofs` |
| `JSONSanitize` | the pure functions that escape a message (`JSONLogger.cpp`) | `MCInputs`, `JSONLogger_proofs` |
| `OnChangeBroker` | `OnChangeLoggerDataSource.cpp`, `OnChangeBroker.cpp` | `MCOnChangeBroker`, `OnChangeBroker_proofs` |
| `ChangeLog` | what a watched signal promises: one line per change | `OnChangeBroker` (refinement `Log`) |
| `Rc` | `Core/Types/Rc.h`, handles in variables | `MCRc`, `Rc_proofs` |
| `RcGraph` | `Core/Types/Rc.h`, handles inside objects | `MCRc`, `Rc_proofs` |
| `LuaGAM` | `LuaGAM.cpp`: `Initialise`, `Setup`, `Execute` and the helpers on the Lua stack | `MCLuaGAM`, `LuaGAM_proofs` |
| `Vec` | `Core/Types/Vec.h` with its iterator | `MCCore`, `Vec_proofs` |
| `OptionResult` | `Core/Types/Option.h`, `Result.h` | `MCCore`, `Core_proofs` |
| `Str` | `Core/Types/Str.cpp` | `MCCore`, `Core_proofs` |
| `Helpers` | `Core/Helpers/Helpers.cpp` | `MCInputs`, `Helpers_proofs` |
| `HttpDynamicMessageInterface` | `HttpDynamicMessageInterface.cpp` | `MCHttp`, `HttpDynamicMessageInterface_proofs` |
| `LuaScanner` | `LuaParser.cpp`: `linearize`, `scan` | `MCInputs` |
| `LuaSyntax` | `AST.cpp`, `Verifier.cpp` | `MCInputs` |

`MCCore`, `MCRc` and `MCInputs` check several modules in one run: these share no variable, a
behaviour belongs to one of them, and every property is the module's own.
`MC*` modules hold the values of the constants; `*_proofs` hold theorems. The
lines behind each definition are under `map` in `PROJECT.json`.

### JSONLogger and LogSink

| Variables | Code |
|---|---|
| `life` | constructed, ready or failed, being destroyed, freed |
| `stream`, `inode` | `info.file` (the log, a standard stream, closed or null) and the file the log stream writes to |
| `buf`, `stored` | lines in the stdio buffer, lines that reached a file |
| `idle`, `mutex` | `info.idle`, `info.mutex` |
| `cpc`, `fpc` | where `ConsumeLogMessage` and each `flush` thread are |
| `calls`, `displaced` | counters for the bounds |
| `atPath`, `created`, `moved` | the files outside the program: at the path, made so far, moved from the path at some time |

Each statement that another thread can see between is an action. The consumer:
`ConsumerLock`, `PrintLine`, `TestIdle` (which unlocks), `SetBusy`, `Spawn`; a flusher:
`FlusherLock`, `Flush`, `Check` (`stat`), `Reopen`, `SetIdle`, `FlusherUnlock`; `Destroy`
starts the destructor. `Dangle` is a flusher that wakes up in an object that is
gone. `Displace`, `Recreate` and `MoveBack` are other programs moving the log file, creating
another one at its path, or moving one that was there before back to it, the open one perhaps, between any two
statements of the flusher. `fopen` fails or not as it
likes. `pthread_create` fails when no thread is left: a flusher is neither joined nor detached, so it keeps its slot.

`LogSink` has a sequence of accepted lines and a number of delivered ones. It is
implemented with `accepted <- stored \o buf`; closing the sink is freeing the object.

### JSONSanitize

A message grows by a character of a small alphabet: one that needs no
escape, a newline, a tab, a double quote, the letter an escaped newline ends in, a backslash, and one for the other control
characters (`\r`, `\b`, ESC and so on), which the code does not look for. The
operators are the two scans of the code, the count for the buffer and the copy into it.

### OnChangeBroker and ChangeLog

`SetConfiguredDatabase` makes the data source, `BrokerInit` and `SetMask` are
`GetOutputBrokers` with the broker's `Init`, `GamExecute` (external) is the function that writes its
signals, and `Compare`, `LogEvent`, `LogCopy` are `Execute` — one action per decision, because the
tables of copies, ignore flags and previous bytes are each indexed in their own way. A
broker's memory is what the code allocates, so that a write beyond it can be seen.
`ChangeLog` knows no tables: a function publishes signals, and an event
is logged exactly when a signal that is not ignored has changed since the last look.

### Rc and RcGraph

The state is a table of handles and a table of memory blocks (object, its two
counters), with an allocator that uses addresses again. Each constructor,
assignment, `%=`, `~`, `+` and destructor is one action, built from the halves of the
code (let go of the old object, take the new one). Reading or
writing a freed block sets `fault`. `CarefulNext` leaves out one operation, the copy of
a weak handle whose object is deleted (`CopyExpired`), which breaks the
counters; `Next` has it.

In `RcGraph` each object holds a handle, as the nodes of the syntax tree do. `delete pointer_` stands in the middle
of `dereferenciate`, and there the destructor of that handle runs, which may delete the next object. So the function
is two sequences of memories: the `Calls` that begin within each other, down to the one that deletes nothing (`Depth`), and
what they leave when they return (`Returns`), the one inside them all first. There are no more calls than objects, since an
object that is being deleted has no hard handle left. Actions are what the program does with its variables and with the handles
it reaches through them. An expression such as `~other` makes a temporary that lives until after the assignment.
`KeptBy(h)` is defined without counters, as the least set of the objects all of whose hard handles are `h` or inside
the set; `DeletesWhatItAloneKept` says that letting go of `h` deletes exactly that. `OnlyCirclesAreForgotten`: an object that
the program cannot come to any more, and that is still there, has its owners among such objects. `list = list->next` (`Rc.h:179`)
uses a freed handle when `list` was the last handle of the first node: the property has this
as the only case in which that may happen.

### LuaGAM

The Lua state is a stack and the globals that the signals use. A cycle is `Execute` (the
framework has filled the input memory), then the pushes, the call of the function, which sets the
output variables to anything, and the reads of the outputs, element by element. `Initialise`, the
verifier's answer and the failure of any Lua call are choices. The
abstractions:

* output memory is there and zero at `Setup`; tables are made anew in each
  cycle; a chunk that runs without an error leaves no value;
* numbers are counted in halves, so that a conversion can lose something: an integer output gets its number without the
  fraction (`lua_tointegerx`), a `float32` what the constant `Float32` makes of it. A string that reads as a number counts as
  that number. NaN, infinities and numbers beyond 2^63 are not among the numbers;
* `int` and `uint` stand for the types of 32 bits or less, `Word` for 2^64 and `LuaMax`
  for 2^53 - 1, scaled down so that numbers beyond `LuaMax` exist. 64-bit inputs may have any of them.

Two history variables are read by no action: `clean`, whether the stack was empty when `GAM()` last returned, and `newest`,
of each input the newest value that Lua can be given. With them the properties say of every configuration and cycle,
those included in which the code goes wrong, what still holds:

* `CrashesAreKnown`: the three ways to a crash are chunks that run with no Lua state, names deleted before they were
  copied, and the second element of an array of unsigned outputs, which is read on an empty stack;
* `StackIsEmpty`: the stack is as the first cycle found it, but after a cycle that ended at an element that is no number,
  which leaves the element and its table, and in a GAM without outputs, which nothing cleans of the table of an array that
  is out of range. The stack then grows with each such cycle; `StackLimit` is where the model stops;
* `InputsReachTheCode`: the function sees the newest value it can be given, whole. A value out of range is not pushed and
  the result of the push ignored, so that an older one is seen; of a `uint64` no value is ever pushed;
* `OutputsFollowUnlessStale`: each output has its variable's number, truncated or narrowed, or true for a `bool`, except the
  later elements of the first output after something was found on the stack. `OutputsFollowVariables` has no exception and
  is the property that fails;
* `ValidOutputsAreRead`: a cycle fails only at a value that its type does not have, at a Lua boolean, or at such an element.

### Vec, OptionResult and Str

The state of a vector is its length, the size it counts and the buffer, cell by cell, in which a cell that was
never written is `Fresh`. Each operation computes the new size as the code does, which is not the same in
`append`, `set`, `operator=` and `reduce`. An iterator is a position and the vector it belongs to. The abstract
list is the part of the buffer below the length; `ActsLikeAList` says of every step, whichever it is, that the lists
of all vectors change as the operation on lists would change them.

Options and results own cells of a heap with a finite number of cells, so that a leak or a double deletion is
seen as a cell without an owner or with two; `misused` says that a cell was read or deleted that is not allocated. A
cell is deleted as a type, and `mistyped` says that the last operation deleted one as what it was not made as.
`Result::operator=` takes over `ok` before it deletes, so it does that in every assignment between a success and a
failure, as `ResultTest.cpp:52` makes: `ActsLikeAValue` says that these are the only ones, and what becomes of them. What
the wrong destructor does to the memory is undefined and not looked into: the cell is free afterwards.

A string is a length and a buffer that some operations read up to the length and others up to the NUL.
`find`, the comparisons, `Vec::find` and `at` are operators, compared with their definitions in every state.
`Search` is the loop of `Str::find`, as a function from the character it comes to to its `m` and `i`; `Matched` is a turn of it.

### Helpers

`ValidateSignals` and `ValidateParameters` begin a call with any children and definitions; one action is a turn of the
loop. `i` and `j` are the code's indices of definitions and of children. What is promised is stated without
indices: `SignalsInTheirPlaces` gives for a list of definitions and a list of children whether they match, and
which child each definition gets.

### HttpDynamicMessageInterface

`Receive` begins a request, `CreateParameters`, `Address`, `Choose`, `Skip` and `AddParameter` build the database,
one command at a time in any order, `BuildMessage` and `SendMessage` send, `Answer` and `Return` end. Every
call on the protocol, the database, the message and the stream fails or not, and the cursor of the database stays
where a failed call leaves it. `fate` is what became of the message, which the code does not know. `unseen`, which no
action reads, is the entries whose reading or writing failed without `ok` noticing: the message is sent all the same, with
an empty destination or function, or without mode or timeout, and `SentIsRequested` allows that of these entries only.
Requests in several threads share the object as a sender and nothing else, so one request at a time is enough.

### LuaScanner

A code is a sequence of kinds of characters: `a` for letters, `1` for digits, a quote, a backslash, a blank, an
end of line, `=`, `-`, `[`, `]`. `Step` is one turn of the inner loop of `scan` with its two positions `pos` (`line_pos`)
and `word` (`char_pos`); `LongBracket` is `get_long_bracket_token`; `FindText` is `Str::find`, with its false starts.
The code grows by a piece at a time, so that all codes up to the bound are scanned.
`NothingIsLost` is about the codes that the scanner is made for; section 6 lists what it makes of others.

### LuaSyntax

A rule of `AST.cpp` is an operator on the tokens and a position; its result is the position where it leaves the
iterator, `ok`, the nodes, and `bad`: that it read a null iterator, or that it never returns. Alternatives
that are tried in turn (assignment or call; parentheses, call or variable) begin at the same position with
the nodes given back. The verifier's questions are operators on the tree.
Codes are written by actions that know what they mean (`Assign`, `DeclareLocal`, `Call`, `Enclose`, `Define`...): the
sets of names used, assigned and declared, and the kind of each statement at the top. Names of fields and methods are apart
(`fields`, `setFields`), and signals may have such names: the verifier takes them for variables (section 6).
`VerdictsAreMeant` compares the verifier's answers with these sets; that, and a `break` before `GAM` that is read out of range, are the two places
where it takes the code's answer for its own. `DamagedCodeEnds` cuts the code at every token and takes out every token.

## 3. The runs

Every run is complete: TLC visits all states of the instance.

| Run | Bounds | Shows |
|---|---|---|
| `json_logger` | 3 flushers, 3 messages, 1 displacement | at most one flusher is pending; the flag is never written by two threads at once; nothing is printed to a closed stream; no line is lost or reordered; a buffered line has a flush ahead of it; a file is left only if it was moved away, and when it is back by the time of `fclose` it is the one that is opened again, if any. With fairness: every buffered line is stored, the consumer is never stuck, a vanished file is created again; `LogSink` is implemented |
| `on_change` | 2 functions, 2 signals, 2 values, 2 events, both orders of the signals | no change of a watched signal is missed, a line shows the value before and the value after, `ChangeLog` is implemented |
| `rc` | 4 handles, 2 blocks, 2 addresses; 2 variables, 3 objects with a handle each | no use after free, an object lives exactly as long as it has an owner, the counters as long as they have a handle, a handle that is not null refers to a living object, assignment makes a handle refer to the other's object unless one is expired and the addresses meet; with handles inside objects, counters are exact and a handle deletes what it alone kept |
| `lua_gam` | inputs: two `int64` in an array, a `uint64`; outputs: two `int` in an array, a `uint`; 3 numbers, 2 samples | the causes of crashes and of what stays on the stack, the code sees the newest inputs it can be given, outputs are this cycle's variables as far as the stack was empty, valid outputs are not refused |
| `core_library` | 2 vectors of up to 2 items and an iterator; 2 options, 2 results, 4 cells; 2 strings of up to 3 characters, buffers in steps of 2 | no write behind a buffer, no cell shared or leaked, each acts like the list, value or text it stands for |
| `http` | 2 parameters and 4 other commands, any call failing | what is sent was asked for, entry by entry, but for those on which an unchecked call failed; the answer is true |
| `inputs` | 3 definitions, 2 parameters; messages of up to 5 characters; codes of up to 5 characters and of up to 9 tokens | see the previous section: what is accepted is what should be, nothing is lost on the way from text to tokens, names mean what they were written for |

The instances are the smallest in which the interesting cases meet:

* **3 flushers and messages**: one that sleeps, one that is at work on the file and one
  that is made by the message in between. `MCJSONLogger` assumes that there are as many
  threads as messages, so that the run shows the protocol, not the thread limit. One
  displacement, with another file made, the old one moved back before or after `stat`, or neither, gives every answer of `stat`
  and every file for `fopen`.
* **5 characters** hold every pair of special characters with one on each side, a string with an escaped quote,
  and a long bracket with its end; **9 tokens** hold the main function around an assignment, or two short
  statements in a block.
* **steps of 2** in the buffers of strings and vectors (16 in the code) let each operation meet a full buffer, an almost
  full one and one that is larger than needed; 4 cells are as many as two options and two results
  own between two operations.
* **2 functions and 2 signals** are the least in which indices of copies, signals and
  bytes differ; 2 values make a change; after the bound of 2 events a function stops
  being called, and two are enough for a change and a change back.
* **4 handles, 2 blocks**: assignment involves two objects, each with an owner
  and an observer; 2 addresses force memory to be used again. 3 objects
  make lists, cycles and a chain of destructors with an object that is kept by a second handle.
* **the signals of `lua_gam`**: an array and a scalar in each direction, samples at and beyond what Lua
  represents, results with a fraction below zero and above and one that is out of range; cycles are not bounded, only what they
  leave on the stack (`StackLimit`). No function of the instance returns a Lua boolean (`Flags`), and it has neither
  signals of floating point or `bool` nor arrays of unsigned outputs: for those the theorems stand alone, except
  that `lua_gam_stale` has an array of `float64`.

Runs that end with a violation, each on what documentation, a comment or a
test says:

| Run | Says | Code |
|---|---|---|
| `json_logger_threads` | messages are flushed in the end | `pthread_create` fails, the flag stays cleared, no flusher is made any more |
| `on_change_order` | ignore flags belong to signals | they are applied by the position in the function's list |
| `on_change_array` | arrays can be logged | the buffer of previous values is as large as one element per copy |
| `rc_expired` | a weak handle can be copied | the copy of an expired one is not counted |
| `lua_gam_stale` | outputs are the variables of the same name | a table left on the stack is read by the next cycle |

The lines quoted are under `findings` in `PROJECT.json`.

## 4. Fairness

Only `JSONLogger` and `LogSink` state liveness, and only weak fairness is used: of the
consumer's steps, of each flusher and of the destructor's steps. Threads that
can run are scheduled, and `usleep` ends; the mutex is held for a few
statements and never in a sleep. Weak fairness is enough for the mutex here: the
consumer competes with one flusher at a time, and makes the next only after that one is done
with the flag. Nobody has to log, to destroy the logger, to move the file
or to put it back, so no fairness is assumed for that. Nothing is assumed of `fopen` or of
`pthread_create` either.

The other components are passive: they are called by the framework, which may stop
calling them. They are specified without fairness.

## 5. The proofs

For every value of the constants, from the assumptions named in the modules
(`ConstantsAssumption`, `SignalsAssumption`, `NumbersAssumption`, `OptionResultAssumption`, `StrAssumption`, `GraphAssumption` and the like: types of the
constants, the sentinels that are no values, and that a program has finitely many variables and objects):

* **JSONLogger**: all safety properties of the run. `OneFlusherPending` is not
  inductive: it needs who holds the mutex (`LockInv`), that calls are made only while
  the object is alive (`CallInv`), that between the test of `idle` and `Spawn` no flusher
  exists (`FlusherInv`) and when the stream is open (`StreamInv`). Together they are
  `ProtocolInv`. `LeavesOnlyDisplacedFile` needs `FileInv`: files have distinct numbers, and
  the file of a flusher that opens it again was moved from the path at some time; that it is not there now
  cannot be claimed, since `stat` is over and it may have been moved back.
  `BufferedLineHasFlusher` needs `CoverInv`: when the buffer is not empty and the consumer is not
  about to ask for a flusher, one is pending that has not flushed yet — or no thread was left.
* **LogSink**: `ImplementsSink`, step by step from `ProtocolInv`: printing accepts, flushing and closing
  deliver, everything else stutters.
* **OnChangeBroker**: `MonitoredIsShown` for any number of functions, signals and
  values, by the invariant `ShownInv(f)`, which says for each stage of `Execute`
  which copies have been looked at; `EventShowsPrevious` by `EventInv(f)`, which finds the lines of one event
  of a broker among those of the others; and `ImplementsChangeLog`, the refinement under `WellConfiguredSpec`
  (signals listed in the data source's order, no element of an array beyond the buffer).
* **Rc**: all five properties of the run about handles in variables, `LivesAsReferred` among them, for any
  handles and blocks. The counters
  equal the cardinality of the sets of handles that refer to the block (`CountersAreExact`, which the others rest on);
  the invariant is stated of
  two tables, not of the variables, so that it can be followed through the two halves of an
  assignment, between which the tables are never seen by anyone. `AssignsTheObject` needs that two handles
  with the same pointer refer to the same object, or one of the two is expired: its object is gone and the other's is at the
  same address. An assignment does nothing then (section 6), and is right in all other cases.
* **RcGraph**: `HandlesInsideObjectsHold`, for any variables and objects. The invariant of the counters does not hold in
  the middle of `dereferenciate`, so it is stated of a memory, of the places `D` whose handles were counted down and are
  still there, and of the objects `L` that are being deleted (`Kept(m, D, L)`): `DestroyingKeeps` lets both grow as calls
  begin, `ReleasedKeeps` is the call that deletes nothing, `ResumedKeeps` shrinks both as calls return. `L` is what
  the handle alone kept (`DyingIsKept`): every closed set includes it, since each object came with its last owner, and it is
  closed itself, since the last call would else have gone on. If the place is not in `L`, the rest of the operation finds
  the counters right (`RefersKeeps`, `ClearedKeeps`), and if it is, it finds a freed handle (`AssignedLeaves`). That the
  recursion ends needs no counters that are right (`DestructorsEnd`).
* **LuaGAM**: all six properties of the run for any signals, numbers and configurations. `StackInv` says what may be on
  the stack in each phase and `TableInv` what the elements of an output are read from, which are an own table and, in the first output only,
  what was there before; `VariablesInv` which inputs have been pushed and what the others still have; `GetInv`, `ElementInv`
  and `ReturnInv` what has been read so far; `NamedInv` and `ReadyInv` how far `Setup` came.
* **sanitize**: `SanitizeIsFaithful`, for messages of any length. A message is received a character at a time, which
  makes the induction one over steps: each character adds a piece to the text (`SanitizeAppend`), to the count
  (`CountAppend`) and to what a reader decodes (`DecodeAppend`). The invariant needs that the text ends in an escape when
  the message does, since both passes look at the character before, and that the reader has no escape open.
* **Vec**: its types, `IteratorsShowItems`, `VectorsAreLists` and `VectorsAnswerAsLists` for vectors of any length and
  any step of the buffer. The type invariant carries the load: the length is at most the size counted, which is at most
  the buffer there is, and each lemma says what an operation makes of the list whichever way it computed the size.
* **Option and Result**: `CellsKeepOneOwner` and `ContainersAreValues` for any containers, values and heap. The
  invariant `OwnInv` is stated of tables, not of the variables: an assignment lets go of its cell (`LetsGo`) and takes
  another (`Takes`, `TakesCopy`), and in between the container is as one that does not exist. That options and destructors
  delete what they made, and assignments between results exactly if both are successes or both failures, is
  `OptionsDeleteValues` and `ResultsDeleteBy`.
* **Str**: `StringsStayInTheirBuffers`, `StringsAreTexts` and `StringsAnswerAsTexts` for texts of any length and any
  initial buffer. That the length fits the buffer is not inductive: an operation that copies up to the NUL needs to know where
  that is, and the sum of two strings puts it one cell late. `Sound` says so: a NUL at the length, or a character there and
  the NUL behind it. For `find`, `FoundSoFar` is the invariant of the loop: what has been matched stands right before
  the character the loop has come to, or the pattern is through. `FirstIsFound` says when the loop comes to the first place with nothing
  matched, which is what `TextQueriesAgree` asks about false starts.
* **MCCore**: `PartsAreTheirSpecs`, so that `TypesHold` and `QueriesHold` follow from the theorems about the three.
* **Helpers**: `SignalsAreValidated` and `ParametersAreSet` for definitions and children of any number. The
  invariant says that the answer so far is whether all definitions before `i` are in their places, and where the
  index of children then is.
* **HttpDynamicMessageInterface**: types, `SentAsRequested` and `AnswersAreTrue` for any set of commands:
  `RequestInv` relates the database to the commands looked at so far and to `unseen`, `AnswerInv` the answer to `fate`.

## 6. What is only model-checked, what is left out

Only TLC: `BufferedLineIsStored`, `ConsumerReturns`, `VanishedFileIsReopened` and the fairness of `SinkSpec` (liveness is
out of TLAPS's reach); `NothingIsLost`, `VerdictsAreMeant` and `DamagedCodeEnds`: the operators of
`LuaScanner` and `LuaSyntax` are RECURSIVE, over tokens and texts, and the prover cannot look into such
definitions. Where a loop or a recursion is proved about, its states are a recursive function of one number (`Search`,
`Taken`, `Calls`, `Returns`, the function in `FlattenSeq`), which exists by the least-number principle (`AllNumbers`,
`EveryNumber`).

Left out: the text of lines, time stamps and formatting; LuaJIT and the framework.

Disagreements that were read in the code and have no run:

* `JSONLogger::Initialise` ignores the result of `Object::Initialise` (`JSONLogger.cpp:251`, promised at `JSONLogger.h:91`).
* A log file that is moved and replaced by another one is not noticed: `stat` looks at the path only
  (`JSONLogger.cpp:152`; `Documentation/Interfaces/JSONLogger.md` promises it for a file deleted or moved). Of moved files
  `VanishedFileIsReopened` claims only what is checked: nothing at the path.
* A newline after a backslash is not escaped (`JSONLogger.cpp:94`) and splits the line. Control characters other than
  newline and tab are never escaped (`JSONLogger.cpp:55-57`): the line of a message that has one is no JSON, and
  `SanitizeKeepsText` says that this is the case for no other message without backslashes, while the text can be read back anyhow.
* The destructor closes `stderr` when that is the log, and does not wait for a flusher that sleeps (`JSONLogger.cpp:193`).
* The event number counts per broker, and lines of two brokers can mix (`OnChangeBroker.cpp:189`, `:192`;
  `OnChangeLoggerDataSource.md:41`, `:50`). `OnChangeLoggerDataSource.cpp:81` overwrites the result of `MoveToChild`.
* `Rc`: `operator=` compares pointers (`Rc.h:174`), so it does nothing when one handle is expired and the object of the other was
  made at the address that the first one's had: the two then do not refer to the same object (`AssignRefersToOther` has this as
  the only exception); assignment between a weak and a hard handle of one object leaves the kind of the one assigned to as it was; `list = list->next` through the last handle of a node reads a freed handle (`Rc.h:179`).
* `Option` assigned to itself is empty (`Option.h:124`), which the properties expect; `Result::operator=` takes the new tag before it
  frees the old payload, so that a success assigned to a failure, or the other way round, frees it as what it is not (`Result.h:142`).
* `Vec`: cells that were removed or cleared keep their handles; `reduce` may make the buffer larger.
* `Str`: the sum of two strings has its NUL one cell too far (`Str.cpp:79`), which `operator=` repairs; `substr` with a negative start
  copies from the index it was given (`Str.cpp:241`) and cuts an end beyond the text; `find` misses an occurrence after a false
  start (`Str.cpp:262`), and a corpus of the parser's tests (`luaparser_comm.corpus`) expects what comes of it: two
  block comments merged into one.
* `Helpers`: a size of 1 is accepted whatever the dimensions are; dimensions times elements wrap at 2^32;
  a list without an optional signal that has a mandatory one behind it is refused, as the places no longer fit (`Helpers.cpp:82`);
  parameters that a default stands for are not filtered; the size of a parameter is that of its default (`Helpers.cpp:22`).
* `LuaGAM`: `lua_pop(L, -1)` empties the stack and `lua_pop(L, -2)` cuts it to one value; arrays of unsigned outputs with two or more
  elements read below the stack; numbers given to a `bool` output all become true, and a Lua boolean is refused; a `uint64`
  input is always refused (`Documentation/GAMs/LuaGAM.md:24`, `:44`, `:75`); the default of
  a `uint64` output is pushed as 32 bits; the destructor deletes names that a `Setup` that stopped early never
  set; code of `InternalStates` and `AuxiliaryFunctions` runs with no Lua state when `Code` is missing; `Execute` stops at
  the first output it cannot read (`LuaGAM.cpp:841`); `check_variables_initialisation` is commented out (`:799`).
* `HttpDynamicMessageInterface`: a structured answer is `true` although nothing was sent; results of reading and writing the entries of
  the message are not looked at (`HttpDynamicMessageInterface.cpp:134-147`), so that a destination, function, mode or timeout that was
  requested goes out empty or is left out (`Expected` says which); when writing `Mode` fails
  the reply is not awaited; a command named `Class` replaces the class of the parameters.
* Scanner (`LuaParser.cpp`): a name directly before a string, a comment or a long bracket is dropped (`x = y--c` loses `y`); after a long bracket
  the two positions stay as they were, so that the rest of its last line and the first columns of the next one are lost; an
  escaped quote is only seen at column 0; `"\\"` counts as not closed; `[[` at the very end of a line is two brackets;
  a long bracket that is not closed is accepted without its last line; `[==` at the end of a line runs into an assertion of `Str`;
  long strings become names.
* Syntax and verifier (`AST.cpp`, `Verifier.cpp`): `end`, `else`, `elseif` or `until` at the top never returns; `require` or
  `function a:` at the very end of the code reads a null iterator (`DamagedCodeEnds` makes neither); `(exp)[i]` and `(exp).x` are never
  a variable (`AST.cpp:536`); the name of a field or a method counts as a variable, because only the place of a node in the tree is
  looked at (`AST.cpp:549`, `:566`, `Verifier.cpp:16-19`): `v = f.a` and `f:a()` use a signal `a`, and `x.a = 1` assigns it; of `a[x].y` the use of `x` is not seen; empty expressions are accepted; the example
  of `LuaGAM.md:44` lacks a `then`, which the parser wants (`AST.cpp:316`); `GAM` may have parameters
  (`LuaGAM.md:29`), and `function GAM.x()` counts as it; `check_gam` reads the first node of a `;` or `break` before `GAM`,
  which has none; local functions, loop variables and parameters with the name of a signal are not noticed; a comment
  beside `GAM` counts as code outside it.

## 7. What was done in which order, and what is not modelled

The logger came first, because it is concurrent; the broker feeds it, and `LuaGAM` and `Rc` keep state over
many calls. Then the containers the parser rests on, `Helpers`, the HTTP interface, and the parser. All
components are modelled but for:

* the parser's table of hexadecimal digits and exponents of numbers and its tables of keywords and operators: a number is a
  digit sequence and a token is its type;
* **LuaJIT**, a compiler written by others and kept as it is: a stack with the functions `LuaGAM` calls
  stands for it. It is nine tenths of the lines of the repository, so that the definitions, which stand for most
  of the lines of the components, stand for few of all;
* the composition of two brokers, the pages of the framework's logger and the JSON logger: what lies between them
  is the framework, which is not in the repository, and of the broker's lines the JSON logger sees only their order.

## 8. Running

    tlc -config MCJSONLogger.cfg MCJSONLogger.tla
    tlapm JSONLogger_proofs.tla

and so for the other runs (module and configuration in `PROJECT.json`, `runs`) and proof modules.
The largest run takes about a minute and a half.
