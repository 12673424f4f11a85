# Tenshi: models, checks and proofs

TLA+ models of the Tenshi repository: the lock-free job scheduler and the locks
of its Async library, the compiler from source text to the blocks it generates
and the programs it links, the data that the runtime gives to scripts, the file
commands of its plug-in, and the library classes that all of these are written
with. TLC checks small instances; TLAPS proves the results listed under
[What is proved](#what-is-proved) for instances of any size.

Paths below are relative to `src/Code`. Every definition that models code is
listed in `PROJECT.json` with its source lines, and every run, property and
hazard with what it is about.

To repeat a check, run TLC on the module and configuration of a run in
`PROJECT.json`, for example `tlc -config MCSync.cfg MCSync`; to repeat a
proof, `tlapm AsyncProofs.tla`.

## Inventory

Tenshi is a compiler for a language derived from Dark Basic (`Tenshi/Compiler`),
a C library that compiled programs are linked with (`Tenshi/Runtime`), a plug-in
with file commands (`Tenshi/Modules/API.FileSystem`), and the C++ libraries that
the tools are written with (`Libs`). About 63,000 lines, a few of them vendored
(`Libs/System/Detail/vc_dirent.h`, `Libs/System/ax_time.h`).

| Component | State | Operations | Interacts with |
|---|---|---|---|
| Scheduler04: publication (`Libs/Async/Schedulers/Scheduler04.cpp:952-1064`) | per level an array of slots and a count; `m_cSubmittedChains` | `Submit`, `SubmitToPriorityChain`, by any worker | read without a lock by execution |
| Scheduler04: execution (`:189-484`, `:767-801`) | per chain `m_cRemaining`, per job a claim; per worker `m_bIsWorking` | `ExecuteUntilNoWork`, `ExecuteJobs`, `WaitForAllJobs`, `IsWorking` | publishes the dependents of finished chains |
| Scheduler04: frames, sleep, shutdown (`:486-580`, `:704-867`) | per worker `m_FramePhase`; `m_cSleepingWorkers`, a semaphore, quit flags | `EnterFrame`, `LeaveFrame`, `WakeWorkers`, `Fini`; `OnRun`, `Sleep` | clears the arrays publication writes |
| Scheduler04: tree of chains (`:36-213`) | parent, children, siblings, jobs | `AddJobs`, `SetJobKernel`, `SetParent`, `IsDescendant`, `FixForSubmit` | input of a frame |
| Schedulers 01 to 03 | as above, earlier designs | | in no build |
| Async locks (`RWLock.hpp`, `QuickMutex.hpp`, `QuickSemaphore.hpp`, `Barrier.hpp`, `Signal.hpp`) | one or two atomic words; an event or condition variable | acquire, release, try, wait, raise, lower | inlined into their users |
| Async threads, processors, native locks (`Thread.cpp`, `CPU.cpp`, `Mutex.hpp`, `Semaphore.hpp`) | handle, thread id, terminate flag, exit value | `Start`, `SignalStop`, `Stop`, `IsRunning` | the operating system |
| Runtime: start-up, modules (`TenshiRuntime.c:524-770`, `:4674`) | globals, exit handler | `InitModules` with rollback, `FiniModules`, `teInitGlob`, `teFini` | plug-ins, through a table of functions |
| Runtime: object pools (`:770-1007`) | table of objects, capacity, ages | init, allocate, deallocate, look up by number or handle, shut down | plug-ins |
| Runtime: strings, type objects (`:1015-2300`) | headers with capacity and length; reference counts | allocate, copy, cut, search, convert, reclaim | generated code |
| Runtime: arrays (`:2302-2950`) | dimensions, items, current index | dim, redim, insert, delete, queue, stack | generated code |
| Runtime: lists (`:2955-3446`) | doubly linked nodes, ends, count, current node, index cache | insert, delete, move, walk, look up, empty | generated code |
| Runtime: binary tree (`:3452-3803`) | tree and in-order links | find, create, delete | generated code |
| Runtime: memory blocks, maths, random numbers (`:3805-4672`) | bytes and sizes, seeds | make, read, write, copy; draw; round, wrap, limit, mix | plug-ins, scripts |
| Compiler: lexer (`Lexer.cpp`, over `Libs/Parser/Source.cpp`) | the text and the place in it, queues of tokens read ahead and put back | `Lex`, `Unlex` | the parser |
| Compiler: expression, statement, function and type parsers | sequences of statements, trees | parse | nodes and symbols |
| Compiler: scopes and symbols (`Symbol.cpp`, `Program.cpp`) | tree of scopes, stack of current ones, dictionaries | push, pop, add, find | every semantic pass |
| Compiler: types and casts (`TypeInformation.cpp`, `BuiltinType.cpp`, `CodeGen_Cast.cpp`, `CodeGen_Types.cpp`) | tables, layouts | promote, cast, lay out, describe | semantic passes, code generation, the runtime |
| Compiler: code generation of statements (`StmtParser.cpp`, `CodeGen_Labels.cpp`, `CodeGen_Expr.cpp`) | current block, loop points, clean-up scopes | one `CodeGen` per statement | LLVM |
| Compiler: modules and environment (`Module.cpp`) | commands with their overloads, directives, keywords | load the text of a plug-in line by line | symbols, projects |
| Compiler: projects, options, entry point (`Project.cpp`, `Options.cpp`, `Main.cpp`) | current project, its toggles, units and modules | apply a line, compile, link | files, child processes |
| API.FileSystem | pools of files and directories, current search, stack of directories | open, close, read, write, find, walk | object pools, the system |
| Collections, Allocation, Core, Parser | links, tables, cells; counts per tag; blocks of text; source places | | the compiler and the scheduler |
| Console, System, Window, Input, Math, Platform | variables, wrappers | | |

What is hard about them, and what would make each correct:

- **Publication.** Two submitters race for one slot; a slot must be filled
  before the count covers it, nothing may be lost, doubled or misplaced, and no
  array may be indexed past its end though bounds are tested before the race.
- **Execution.** Workers walk arrays that grow underneath them and share the
  jobs of a chain: each job runs once, after those it depends on, exactly one
  worker releases the dependents, and a wait ends when, and only when, the work
  is done.
- **Frames.** Workers acknowledge a phase that the main thread may overwrite,
  sleep at any moment and are told to quit at any moment: arrays may be reset
  only with no worker in them, and nobody may be waited for who sleeps for good.
- **Locks and threads.** Exclusion with counters that refused callers disturb
  for a moment; writers ahead of readers; counters that never pass their bounds;
  a thread object whose thread ends by itself, is stopped, or does not stop.
- **Lists, arrays, pools.** Long sequences of script calls must keep two
  directions of links, the ends, the count, the cache and the current node in
  step; items are ended once; freed numbers must not reach another object.
- **Start-up.** One of several modules failing: those before it, and only they,
  are closed.
- **From text to tree.** Labels, one-line conditions and ends of lines are told
  apart by looking ahead and putting back; the parser must read what was written.
- **Symbols.** A name resolves to the same symbol in every pass.
- **Types.** What an expression is found to be, the cast that was chosen and the
  code that is emitted are worked out in three places and must agree; so must
  the layout in code and the table that the runtime reads.
- **Code generation.** Nested loops, jumps, conditions and temporaries must give
  blocks that LLVM accepts, that run as the program says, and that free each
  temporary string once on every way out.
- **Building.** Several projects, sources that fail, and switches in the middle
  of a file: what is built, linked and reported must be what was asked for.
- **Files.** Numbers, positions, searches and the current directory are kept
  over many calls while others change.
- **Texts.** Encodings, escapes, paths and numbers have bounds of their own at
  every length.

## Modules

| Module | Models | Role |
|---|---|---|
| `PriorityChain` | `MScheduler::Submit`, `SubmitToPriorityChain` | one action per access to shared memory |
| `ChainLog` | what publication promises | levels as logs, appended to one chain at a time |
| `PriorityChainProofs` | | invariants and refinement, proved |
| `JobExecution` | `ExecuteUntilNoWork`, `ExecuteJobs`, `FixForSubmit`, `WaitForAllJobs`, `IsWorking`, `CheckNewWork` | publication is one action, as `PriorityChain` shows it may be |
| `JobExecutionProofs` | | once, in order, and waited for, in every tree of chains, proved |
| `FrameHandshake` | `EnterFrame`, `LeaveFrame`, `WakeWorkers`, `Fini`, `OnRun`, `Sleep`, `CThread::Stop` | executing jobs is one state of a worker |
| `FrameHandshakeProofs` | | resets and shutdown, proved |
| `ChainTree` | `AddJobs`, `SetJobKernel`, `SetParent`, `IsDescendant`, `FixForSubmit` | the input of a frame, against the children each chain was given |
| `RWLock`, `QuickLocks`, `Barrier` | `RWLock.hpp`; `QuickMutex.hpp` and `QuickSemaphore.hpp`; `Barrier.hpp` with `Signal.hpp` | one action per atomic operation |
| `ThreadLife` | `Thread.cpp` | an owner and the threads it starts, on both systems |
| `AsyncProofs`, `Populations` | | the locks, the barrier and the thread object for any number of threads, proved; lemmas that count threads by where they are |
| `MemoryTags` | `Allocator.cpp` | threads that allocate under tags, one action per atomic operation |
| `Collections` | lists, the dictionary and the array of `Libs/Collections` | each against a plain sequence or function |
| `Pointers` | the null pointer | shared by the modules of the runtime and the compiler |
| `RuntimeList`, `ItemSequence` | `TenshiList_t`, and what it promises | one action per call, emptying one per turn; a sequence of items and the current one |
| `RuntimeListProofs` | | one sequence that all links show; the refinement, proved |
| `ObjectPool` | `TenshiObjectPool_t` | one action per call |
| `RuntimeArray` | `TenshiArray_t` of one dimension | one action per command, against a sequence |
| `RuntimeStrings` | string functions of the runtime | operators, over texts that a run enumerates |
| `ModuleStartup` | `teInitGlob`, `InitModules`, `teFini` | modules that start, fail, or exit in the middle |
| `RuntimeProofs` | | ownership and order of an array's items, numbers of objects, modules closed in reverse, proved |
| `ScriptValues` | memory blocks, random numbers and arithmetic of the runtime | addresses that wrap; generators; arithmetic on fractions |
| `FileSystem` | `API.FileSystem`, and `System/FileSystem.cpp` | files by number; parts of paths, directories, searches and the stack of current ones |
| `CoreString`, `TextBuffer` | `Core/String.cpp` | conversions and functions of texts; the block that holds a text |
| `SourceProcessor`, `TokenStream` | `Parser/Source.cpp` and `Lexer.cpp` | what a token is; which tokens the parser sees, and in what order |
| `Syntax` | the parsers | trees and statements from tokens, against those the tokens were written from |
| `Scopes` | `Symbol.cpp`, `Program.cpp`, the passes of `Parser_Compile.cpp` | several sources, one after the other |
| `ScopesProofs` | | what a name leads to, proved |
| `BuiltinTypes`, `ExpressionTypes` | promotion, casts and type patterns, `Semant` and `CodeGen` of expressions | the type that is found against the type that is emitted |
| `CommandFiles` | `Module.cpp` | overloads from the lines of a plug-in |
| `TypeTables` | `UDTParser.cpp`, `CodeGen_Types.cpp` | layouts of user types in the compiler, in LLVM and in the runtime's table |
| `StructuredFlow` | what the parser accepts, and the loops of `TechDocs/CodeGen IR.txt` | the programs up to a size, and a run of one as a sequence of events |
| `CodeGenFlow` | `CodeGen` of statements, short-circuit conditions, blocks, loop points and clean-up scopes | generates the code of a program and runs it beside the program |
| `Projects` | `Project.cpp`, `Options.cpp`, `Main.cpp`, linking | from a command line to what was built and the exit status |
| `MCScheduler`, `MCJobExecution`, `MCSync`, `MCRuntime`, `MCCompiler` | | instances for TLC |

`MCScheduler`, `MCSync`, `MCRuntime` and `MCCompiler` put components that do not interact in
these models into one run: a variable (`object`, `part`) says which one a
behaviour is about, the others stay in their initial state. This is a sum of
their state spaces, not a product, and a component behaves in it as in a run of its
own. The parts of `MCScheduler` are publication and frames; the objects of `MCSync`
rwlock, mutex, semaphore, barrier, lists, dictionary, array, thread, memory, tree and
jobs, the last being `MCJobExecution`; the parts
of `MCRuntime` list, pool, array, start, strings, paths, files, folders, random,
memblocks and maths; those of `MCCompiler` code, scopes, lexer, parser, types,
commands, text, buffer, tables and projects.

### State and actions against the code

*PriorityChain.* `pChains` and `cChains` are the members of a priority chain,
`cSubmittedChains` and `bIsQuitting` those of the scheduler, and `pc`, `todo`, `seen` hold what a submitter's locals do.
A call is given an array of any chains, also of one that was submitted before or
twice, as `ExecuteJobs` may do (`deps_lost`). What the call makes of each entry, a chain
with the index that it reserved, is a *submission*: slots hold submissions, and
what is never lost or doubled is a submission, not a chain.
`Submit` reserves its batch with one atomic addition (:980), then for each chain
the thread reads the count, claims the slot with a compare-and-swap and publishes
it by incrementing the count (:1044-1062). `CasSwapped` chooses between the two
versions of the compare-and-swap in the repository: `Detail/Atomics_MSVC.hpp`
stores the source operand, `Detail/Atomics_GCC.hpp` passes its operands in the
other order.

*JobExecution.* The parts of `ExecuteUntilNoWork` and `ExecuteJobs` are the
values of `executePc`. `cSeen` is the count that the loop over a level read before it
began; `cRemaining`, `claimed` and `bIsWorking` are shared, and `runs` and `done`
record what the properties speak of. `MScheduler::CheckNewWork` and `IsWorking`
read flags one at a time, and so do the actions. `FixForSubmit` goes down a tree and
arms one chain after the other: each is a step (`arming` holds those to come), then each
chain of the array is published by a step of its own (`pending`). A worker scans from
its offset to the end and from the beginning to its offset, past the last job if that is
nearer, as the code does; `RoomAssumption` says that the array has room up to there.

*FrameHandshake.* `phase` is `m_FramePhase`, which both sides write. A worker may
answer as late, and go to sleep whenever, as the code lets it. Two variables are history:
`overtaken`, the workers that had read `Enter` and not answered it when `Leave` was
written, and `late`, those that went to sleep after `m_cSleepingWorkers` was read. The
properties say what holds of the others, and two runs what happens to these.

*ChainTree.* The five links of a chain are five functions. `given` and
`children` say what was put into each chain, and `hanging` that a debug build is
in an `IsDescendant` that does not return.

*Locks, ThreadLife, MemoryTags.* `pc`, or `work`, says where a thread is in a
function; a refused reader, a second writer, a failed acquire, an allocation
between its two counts are states of their own. Threads of the system are
records of `threads`, and `late` is that a `Stop` gave up on one. `swaps` counts how
often a call of the semaphore has changed the counter, which its result should tell.

*RuntimeList, ObjectPool, RuntimeArray, the collections.* Node and object
identities are values that are reused once freed. Beside the structure of the
code each has the sequence, function or set that it should stand for, changed by
one assignment per call: the properties compare the two. Items of arrays know
whether they were made and ended. Where a call of `TArray` loses elements that it
should keep (`Overwritten`: `Insert` moves each from one cell too far), they are in
`lost`, and every other call and element is held to the sequence.

*FileSystem.* `dirs` is the stack of the code; `entered` and `leaves` are the directories
that a script has entered and not left, and where each `LEAVE DIR` went and should have
gone. `finds` are the searches with the files that were there, against `found`.

*Text modules.* A text is a sequence of bytes or units, or, where only tokens
matter (`TokenStream`), of words. They are operators; a run enumerates samples
and compares what one function makes with what another, or the sample itself,
says it should be.

*Syntax.* A program is a tree. `MCCompiler` writes it
out as tokens, the parser reads the tokens one statement at a time, and what it
built is compared with the tree.

*Scopes.* `m_ScopeStack`, `symbols` and `entries` are the compiler's; `pass` and
`bodiesLeft` say how far the passes over a source have come. What a lookup finds
is compared with what the source being compiled has declared around it. A
declaration adds its name, then its members or parameters one by one; when one is
refused, or a type is not there, the source fails and what was added stays.

*StructuredFlow, CodeGenFlow.* A statement is known by the path to it. The
generator is a value `g` that `CodeGen` takes a statement through, in the order
in which the code calls LLVM; the blocks that come out are then run one
instruction at a time while `rest` says what the program has left to do. What an
expression is worth is left open, so that a test comes out either way in both; so is
what the safe loop answers. What a loop does, and where `CONTINUE` goes, is as
`TechDocs/CodeGen IR.txt` has it, also where the code does otherwise: `CONTINUE` in
`FOR`/`TO` and in `REPEAT`, and a safe loop that answers 0, are shapes that the passing run
leaves out by name (`Avoided`). The run `for_continue` lets the first in; the other two fail
in the same way when they are taken out of `Avoided`.

*Projects.* `options` is what the command line left of its options and inputs,
`projects` the projects with the state of their toggles, `building` and `declared`
where the build is, `made` what the units that were built left, `links` what the
linker was given. What the command line and the files mean is
stated apart (`Meaning`, `ReadAsWritten`), and written out in each of the forms
that the options accept.

## Runs

| Run | Shows |
|---|---|
| `scheduler` | two threads, three chains submitted four times in all, the same one again too, two levels of three slots: no counted slot is empty (`NoHole`), what was accepted is in one slot (`NoLostChain`), claims stay in bounds, every call returns, and the whole implements `ChainLog`. Two worker threads, two frames and `Fini`: arrays are reset, and frames left, with no worker in them that `Leave` did not overtake (`ResetAlone`, `OutUnlessOvertaken`); `LeaveFrame` returns unless a worker went to sleep too late to be counted, `Fini` always, giving up on no more threads than did |
| `publish_gcc` | *violation:* with the operands of `Atomics_GCC.hpp` a chain is counted and its slot left empty |
| `wait_early` | *violation:* `WaitForAllJobs` returns though a dependent that was submitted into the lowest of seven levels was not touched |
| `deps_lost` | *violation:* a worker that ran no job of a finished chain submits its dependents again and re-arms their count; theirs are then never submitted |
| `frames_lost_wakeup` | *violation:* a worker that goes to sleep between two reads of `LeaveFrame` is not woken, and `LeaveFrame` spins for ever |
| `frames_late_answer` | *violation:* a worker answers `Enter` over `Leave`; `LeaveFrame` returns while it goes on to the chains (`OutOfFrame`) |
| `sync` | exclusion and writer preference of the reader-writer lock, exclusion of the spin lock, agreement of a barrier's level with its event, that all pass a barrier that was reached, that one thread runs on a thread object (`OneThreadRuns`), that counts of memory are what is held (`CountsAgree`), and that lists, dictionary, array and tree of chains hold what was put into them, but for what a call is known to lose (`CollectionsHold`). Two workers, three chains: each job runs once, dependents after their parents, the wait ends and the roots are done by then |
| `semaphore_answers` | *violation:* the results of `Signal` and `TryWait` do not tell whether the counter was changed |
| `runtime` | links, ends, count and cache of a list agree (`Consistent`) and its calls implement a sequence; emptying ends; numbers lead to their objects (`NumbersLead`); arrays own each item once and keep their order; modules are closed in reverse; parts of strings and paths fit together; files, searches and directories show what is there (`FilesHold`); blocks, random numbers and arithmetic are what they should be (`ValuesAgree`) |
| `list_empty` | *violation:* `LIST MOVE TO FRONT` of an only item leaves a list that cannot be emptied |
| `codegen` | every program of up to four statements gives well-formed blocks that free temporaries once (`CodeSound`) and run as it says (`FlowAgrees`); names are resolved; texts are read as the tokens, and tokens as the program, that was written (`SourceAsWritten`); types, commands and layouts agree (`TypesAgree`); texts, encodings and buffers agree (`TextsAgree`); what is asked for is built, linked and reported (`BuiltAsWritten`) |
| `for_continue` | *violation:* `CONTINUE` in `FOR`/`TO` skips the comparison, against `TechDocs/CodeGen IR.txt:135` |

What the passing runs do not say, because a document says otherwise than the code does, is
stated in formulas of its own. They are false of the code, so that no passing run has them;
TLC finds a counterexample when one is added to the `INVARIANTS` of the configuration:

| Formula | Configuration | What fails, and the text that says so |
|---|---|---|
| `LeavesRetraced` | `MCRuntime.cfg`, with `MaxCommands = 4` | `LEAVE DIR` takes nothing off the stack (`FileSystem.cpp:302`); `TechDocs/File System.txt:93` |
| `FindsAfresh` | `MCRuntime.cfg` | `FIND FIRST` adds to what an earlier one found (`FindFiles.cpp:98`); `File System.txt:509` |
| `Clamps` | `MCRuntime.cfg` | `CLAMP` is never above its lower limit (`TenshiRuntime.c:4176`); `TechDocs/Math System.txt:34` |
| `Floors` | `MCRuntime.cfg` | `FLOOR` takes one from whole numbers below zero of more than three bits, and nothing from fractions of fewer (`TenshiRuntime.c:4105`); `Math System.txt:69` |
| `JoinedAsSaid` | `MCCompiler.cfg` | lines that end in the concatenation symbol are not combined (`Source.cpp:179`); `Source.hpp:111` |
| `LinesAsSaid` | `MCCompiler.cfg` | a place in a last line is reported in the one in front (`Source.cpp:1744`); `Source.hpp:467` |
| `CompilesOnly` | `MCCompiler.cfg` | `--compile` links (`Main.cpp:435`); the help at `Main.cpp:271` |
| `FlowAgrees`, without `"continue REPEAT"` in `Avoided` | `MCCompiler.cfg` | `CONTINUE` in `REPEAT` goes to the condition (`StmtParser.cpp:659`); `CodeGen IR.txt:115` |
| `FlowAgrees`, without `"stopped DO"` in `Avoided` | `MCCompiler.cfg` | a safe loop that answers 0 has `DO` left and the program go on (`StmtParser.cpp:438`); `CodeGen IR.txt:83`, `TechDocs/Plugins.txt:388` |

### Bounds

- `scheduler`, publication: `kMaxChains = 3` with two chains for one level, submitted up to
  `MaxAttempts = 4` times between them, so that a level fills while a submitter is
  between its two reads of the count, calls are refused and repeated, and one chain
  takes several slots. `MaxBatch = 2` makes one call meet another call's chain
  between its own. The proofs have none of these bounds.
- `sync`, jobs: two workers, two levels, chains of one and of two jobs, roots of
  different priority; a dependent is published while the other worker is past
  its level. The two violation runs have the smallest trees that show theirs;
  `wait_early` has all seven levels, since the dependent has to be in the lowest.
- `scheduler`, frames: a main thread with two worker threads (`cWorkers = 3`), so that one sleeps
  while the other works; two frames, since the second begins with what the first left.
  One worker thread and one frame are enough for the two violations.
- `sync`: three threads at a lock: one that holds it, one that waits, one that
  is refused. Words of the semaphore are three bits wide, and hold its maximum and the largest
  count together. The
  targets of barriers are 1 and 2; three links in two lists; arrays of up to
  four cells that grow by two; an owner and two system threads, one change of
  priority; two tags, two threads, two blocks each; four chains, one with three
  jobs.
- `runtime`: four nodes give a node with neighbours on both sides and the ends;
  a pool of four slots grows twice; arrays of two items with one more waiting to
  be made; three modules, so that one has others before and after it; strings
  over two letters up to four, where a search meets itself; the table of
  occurrences has three entries for 512; files of up to four bytes; trees of
  directories three deep for 64, and three commands between which a tree changes
  only by deletion; bytes of two bits and words of four, where positions wrap;
  generators of eight states (`HalfBits = 4` for the seed, two turns, two
  draws).
- `codegen`: four statements are two loops in one another with a jump and a
  condition, or three loops with a jump; a set of them (`Themes`) is used at a
  time, so that every pair of statements that interact meets within the bound.
  Two sources after one another; texts of up to five pieces taken from the
  pairs that begin like one another; expressions of two operators, which is
  what precedence and grouping need; strings that reach past two granules
  (`Granule = 4` for 16); two types of two fields out of four kinds, by
  alignment and by how they are ended; two projects with listed files and
  command lines, each unit failing at loading, at its syntax, or when translated.

### Fairness

Runs of safety properties assume none. `SubmitReturns`, `WaitReturns`,
`LeaveReturns`, `LeaveReturnsUnlessLate`, `FiniEnds` and `ReachedPasses` assume weak fairness of each
thread: it goes on when it can. The code waits in loops that read a variable, or
on semaphores and events that stay set, so that a step that a thread may take
stays possible until it takes it, and a preemptive system runs every thread.
Nothing is assumed of a compare-and-swap but that it does what it does: that a
submitter gets out of its loop is shown, not assumed. `EmptyReturns` needs the
fairness of the one loop it is about.

Nothing is assumed of when a worker answers or goes to sleep. `LeaveReturnsUnlessLate`
lets `LeaveFrame` spin only in a behaviour in which a worker did go to sleep after the
count of sleepers was read; `frames_lost_wakeup` shows that it then does.
`ReachedPasses` is about barriers whose threads were waiting when the level was
reached, as `Signal.hpp` remembers nothing with pthreads.

## What is proved

Each theorem is of the whole specification and of every value of its constants:
finite sets of threads, positive bounds, chains with one parent each
(`TreeAssumption`: a chain has one `m_pParent`).
Where the code is right only if something else holds, the theorem says so as a hypothesis,
which the constants of the passing run meet too, and the opposite is in a run that
finds a violation or in the list of departures below:

| Hypothesis | The code without it |
|---|---|
| `~CasSwapped` | counts slots that are empty (`publish_gcc`) |
| `RoomAssumption` | reads behind the array of jobs, with more than nine workers and few jobs (`Scheduler04.cpp:296`) |
| `OnlyRootsHaveDeps` | arms a count twice, when two workers see one chain finished (`deps_lost`) |
| `~SingleMoves` | loses an end of a list (`list_empty`) |
| `~RedimAfterResize` | redimensions by a dimension that no longer holds |
| `~NamesReused` | finds parameters and fields of an earlier source's functions and types |
| `SemaphoreFits` | counts past the maximum when a sum wraps |
| `[]NoWrap` | a barrier's level or target starts again at 0 |

**Publication** (`PriorityChainProofs`), for any number of threads and chains,
any size of levels, and batches of any chains, also of some that are published already. `TypeCorrect` is the type invariant. `PublishesSafely`,
with compare-and-swaps that store their source (`~CasSwapped`): no claim is out
of bounds, no counted slot is empty (`CountsNoHole` for itself), no submission is in two
slots; `LosesNoChain`: one that was accepted is in a batch or in a slot. A slot is written before
it is counted, so `NoHole` alone is not inductive. What is added to it:
`IndexInv`, the indices of submissions are distinct and below the counter, so that no
more than `kMaxChains` of them want a slot (lemma `RoomLeft`); `BatchInv`, the
submissions of one thread's batch are not another's; `SlotInv`, at most the one slot
at the count is filled, by a thread that has still to count it; `CountInv` and
`SeenInv`, what a thread has read of a count is not above it. `PublishedIsStable`:
a counted slot keeps its submission. `ImplementsLog`: the whole implements `ChainLog`,
with the counted slots of a level as its log; every step leaves the logs alone
but the increment of a count, which appends the submission in the slot that it counts.

**Execution** (`JobExecutionProofs`), for any number of workers, any tree of chains of
any number of jobs, and any levels. None of the properties is inductive; each needs those
before it.

- `RunsOnce`: from `TypeInv`, which says that a job was started as often as it was claimed.
- `TypeCorrect`: `m_cRemaining`, which the code keeps in an unsigned word, never
  passes below zero; `ParentBeforeChild`: a job starts after all jobs of the chain that its
  own depends on. `ClaimInv` says who holds which job. `ShareInv` relates the counter of a
  chain to the jobs whose worker has not yet subtracted its share; a sum over the workers
  would be a recursion, so it says that there is a set of the jobs given back, and one per
  worker of the jobs it ran, of these many members. A worker whose share is all that the
  counter holds then knows that every job has returned, its own or not. `FixInv`: while
  a worker arms a tree chain by chain, those that it is past are armed or were submitted before,
  and none of them is a root.
- `WaitsForRoots`: when `WaitForAllJobs` returns the roots are done. `HandInv`, `VisitInv` and
  `SeenInv` say that the main thread, on its way down the levels, has been through every
  root above it and that what it has been through is claimed; `FlagInv` that a worker whose flag
  it has read as clear since is in no job of a root, as none is left to claim.
- `ReleasesOfRoots`: the dependents of a finished root are published, or in the hands of
  the worker that subtracted the last share (`ReleaseInv`). `ReleasesDependents` says it of
  every chain, in trees of two generations.

**Frames** (`FrameHandshakeProofs`), for any number of workers and frames. `CountsSleepers`:
the count that `WakeWorkers` reads is the threads between its two ends (with the lemmas of
`Populations`), so that no signal is for more threads than there are. `ResetsAlone`:
arrays are reset with no worker among them that `Leave` did not overtake. `PhaseInv` says for
each worker, from the place of the main thread's loop before or behind it, which phases it may
have and whether it may still go to work, unless it was overtaken; `OutAfterLeave` follows.
`ExitsGracefully`: `Fini` gives up on no more threads than went to sleep after it had read
how many sleep. `WakeInv`: those that wait when `Fini` joins are no more than the tokens and
those that were late; none is late twice (`LateInv`), since all have been told to stop
(`ToldInv`); and one is given up only when no token is left (`ForcedInv`). Neither theorem
assumes anything of the times at which workers answer or sleep.

**Locks and threads** (`AsyncProofs`).

- Reader-writer lock, for any set of threads and any `kMaxReaders` above 0.
  `Excludes`: a writer is alone, also with a second writer that adds `kMaxReaders` for
  a moment and readers that were refused. The invariant says what the two words are made of:
  `m_uReaderCount` is `kMaxReaders` times the writers past their addition, plus the readers
  between adding one and taking it back; `m_uWriterFetch` counts the writers that asked.
  `Populations` has the lemmas about such sums when one thread moves. `OneWriterDrains`: at
  most one writer waits for readers to leave. `WritersFirst`: no reader gets in past a
  writer that asked.
- Spin lock, for any finite set of threads: the word is the number of threads between their
  addition and their subtraction, one of which may hold the lock. `MutexExcludes`, and
  `FreeAgain`: with no thread in a call the word is 0.
- Semaphore, for any threads that signal and wait. `StaysInBounds`: the counter stays
  within the maximum. A store may be far from its test, so the invariant is about the
  caller: what it read, and what it is to store, were in bounds; the compare-and-swap carries
  this to the counter. `SemaphoreFits` is what the constructor asserts, and that the sum in
  `Signal` does not wrap, without which `QuickSemaphore.hpp:48` passes its test. What the
  results of the calls say is another matter (`semaphore_answers`).
- Barrier, for any finite set of threads. `EventFollowsLevel`: threads that only raise it
  do not set its event before the level has reached the target, and one thread that uses it in
  any way leaves the event set once the level has reached the target. `RaisedInv` says that a
  thread which saw the target reached has the level behind it; `AloneInv` what the one thread
  has still to do in each place of each call. The hypothesis `[]NoWrap` is on
  the behaviour: the two words are not about to wrap, as `IncreaseTarget` has no limit of its own.
- Thread object, for any number of starts, stops and exit values. `RunsOneThread`: until a
  `Stop` gives up, no second thread runs on the object, a request to stop is not lost to a later
  start, and what the object says of its thread is so. The invariant adds that the
  threads which were asked had been started (`Begun`), and that the handle and the thread
  identifier are of one thread (`Windows`). `PriorityNumbers` are the seven of `EPriority`.

**Lists** (`RuntimeListProofs`), of any number of nodes. `Consistent` compares two walks
along the links, which are recursive and no help in a step; the invariant `ListInv` says
instead that there *is* a sequence of the live nodes, each once, whose neighbours are the
links' and whose length is the count, with the cache at its place and the current node in
it. Each call is a lemma about such a pair of list and sequence: linking, unlinking and
swapping change the sequence by `InsertAt`, `RemoveAt` or an exchange. That the walks, the look-up
from the nearest of both ends or the cache, and the sequence agree goes by induction over
positions, as `LeastElement`: a set of positions that is not empty has a least one
(well-foundedness of finite sets, from the library). `TypeCorrect`: no link leads to a freed
node. `ShowsOneOrder`: `Consistent`. `IsSequence`: a list implements `ItemSequence`, with the walk as
the items.

**Arrays** (`RuntimeProofs`), of any instances. Every command is one operation
on the slots: cut a part out, put new instances in its place, move the rest
(`Spliced`). `SplicedOnce` and `SplicedOrder` say what this does to the members and
their order, `Exchange` what it does to the invariant (`ArrayInv`: the first `cItems`
slots hold the instances that were made and not ended, each once); a lemma per command says
which part it cuts. `OwnsItems`: `ArrayOwns`, for any sequence of commands. `OrderKept`: the action
property, of every step.

**Start-up** (`RuntimeProofs`), of any number of modules. `ClosesInReverse`: at an exit, other
than by an error within a start, those that were started and have an end were closed, once,
in the reverse order, and none that failed or was not reached. The invariant is that there is a
module up to which all were started (`StartedTo`), and that those closed are the ones
from the loop's counter up to it; the order follows as the one sequence ascends and the other
descends.

**Pools** (`RuntimeProofs`), of any objects, growth of the table and width of the ages.
`NumbersLeadToThem`: `NumbersLead`, within the limits that it states. That a live object is
found is said of numbers without safe handles, until the table grows for a second time
(`TenshiRuntime.c:859`). That a stale number is refused is said of safe handles in a pool of
which only one slot was ever used, until the ages come round: with two slots their ages overlap
(957), and it may be accepted. Added to it are: what a slot leads to has the number of that
slot, so that no object is in two (`Located`); every object has its slot until the second
growth; and while all deallocations were in one slot the word of ages is their number,
shifted to that slot, and every number given out is of an age before it (`AgesCount`). That a power of two is
a positive number the provers do not know; `ShiftsAssumption` says it of the shifts that occur.

**Scopes** (`ScopesProofs`), of any names and any number of sources. `ResolvesNames`:
`NamesResolved`, for sources that do not declare a function or a type again (`NamesReused =
FALSE`), since the symbols of such a scope stay in the dictionary. The invariant compares the
dictionary with the declarations key by key, where the property looks through two scopes, and
adds that nothing is under the keys of scopes yet to be made (`UnmadeEmpty`) and that the
current scope is one in use. It has to hold of a source that has failed, too, whose
half-made declarations the next source finds.

Only model-checked: liveness (`SubmitReturns`, `WaitReturns`, `LeaveReturnsUnlessLate`, `FiniEnds`,
`ReachedPasses`, `EmptyReturns`), which is not in reach of the provers; counts of memory, which are sums over
blocks, and the collections; strings, files and numbers
of the runtime; the compiler but for its scopes. `Syntax`, `SourceProcessor`, `CodeGenFlow` and the other
modules over programs and texts are recursive over them, and what they say of every
program would need induction over programs.

## Where the code departs from what it says

Shown by a run, with the text it contradicts quoted under `findings` in
`PROJECT.json`:

- the operands of `Atomics_GCC.hpp:60`; the results of `Signal` and `TryWait`
  (`QuickSemaphore.hpp:55`, 117);
- `WaitForAllJobs` that returns early and dependents that are submitted twice
  (`Scheduler04.cpp:458`, 312); a wake-up that is lost (488); an answer to `Enter` that
  erases `Leave` (538);
- `LIST MOVE TO FRONT` of an only item (`TenshiRuntime.c:3345`);
- `CONTINUE` in `FOR`/`TO` (`StmtParser.cpp:1025`).

Shown by a formula that fails when it is added, as in the table under [Runs](#runs):
`LEAVE DIR`, a second `FIND FIRST`, `CLAMP`, `FLOOR`, lines that are joined, the number of a
last line, `--compile`, `CONTINUE` in `REPEAT`, and `DO` when the safe loop answers 0.

The rest was met while reading, and is modelled as the code has it, or left out
by a constant that names it (`Avoided`, `AvoidedSyntax`, `AvoidedTexts`,
`SingleMoves`, `RedimAfterResize`, `NamesReused`). Of some of it no document says what
should be, and then nothing is claimed: an input with another extension than a
project's is passed over and succeeds (`Main.cpp:347`); `Unquote` keeps the closing
quotation mark (`String.cpp:1837`); threads that clear or reset a barrier while others
raise it take its event and level apart (`Barrier.hpp:30`).

*Scheduler and Async* (`Libs/Async`)

- `Scheduler04.cpp`: `IsDescendant` never advances `pTest` (103); the
  constructor of a chain leaves five links unset (36); the second half of the scan
  goes up to the offset even past `m_cJobs` (296), and past the array with more than
  nine workers; `Fini` deletes a thread that
  did not end within 500 ms (738).
- `RWLock.hpp:63`: readers that retry may keep a writer out. `QuickSemaphore.hpp`:
  the sum that is compared with the maximum may wrap (48), and at 115 the operands
  have the order of the GCC macros' fault. `Barrier.hpp:38`: `Lower` tests the
  level before it was lowered, and a target of 0 wraps. `Signal.hpp:46`: a trigger
  before the wait is lost with pthreads.
- `Thread.cpp:192`: a thread that has returned by itself cannot be started again.

*Runtime* (`Tenshi/Runtime/TenshiRuntime.c`)

- Pools: the second growth (859), ages shifted by one bit per slot (957), an
  explicit number that is in use. The tree links a static node (3613).
- Strings: the round-up adds the size twice (721); code point 0x10000 gets three
  bytes (1494); no more than 512 occurrences are removed.
- Memory blocks: the bound test wraps (3893), and a block that could not be had is
  written (3828). A random bound of 0 divides by it (4520).
- Arrays: a type that has no function to move it is called through a null pointer;
  resizing does not update `uDimensions`; a queue gives back what was put in last.

*Compiler* (`Tenshi/Compiler`)

- Statements: code behind a jump (`Tests/Test01.te:151` says so), a loop that ends
  in a jump (`StmtParser.cpp:437`, 554, 668), `ELSEIF` that is appended twice
  (1452, 1463), nested `AND`/`OR` (`ExprParser.cpp:1371`), temporaries of nested
  expressions. A local variable is ended where it is declared
  (2212); an assignment that fails leaves its scope open (2415); one with a cast
  leaves the string it stored to be freed (2437).
- Lexer and parsers: `THEN` of an `ELSEIF` in a block `IF`, `THEN` at the end of the
  text (`Lexer.cpp:153`); the name after a type is eaten (`Node.cpp:455`); `local
  integer x, y`; a comma at the end of a line of a `TYPE` (`UDTParser.cpp:117`);
  `EXIT` in an `IF` in a `CASE`; `(x).b.c`; the operator `%%=`.
- Types: a store does not cast (`CodeGen.cpp:91`); a function's value can be
  assigned to; literals are 32 bits wide (`ExprParser.cpp:170`); UInt8 to Int16
  keeps the sign (`BuiltinType.cpp:870`); a swizzle stops in an assertion.
- Tables of types: the constant of a missing `Move` has the type of `Fini`
  (`CodeGen_Types.cpp:487`); types without members are counted and not written
  (421, 482); a type may contain itself (`UDTParser.cpp:421`); sizes are not
  rounded, vectors not aligned, and four doubles are laid out as four floats.
- `CodeGen_Main.cpp`: `teStrCmp`, `teCastFloat16ToStr` and `teCastUTF16PtrToStr` are
  declared and nowhere defined (197-212); `EmitDestruct` passes a pointer to the
  pointer (234); `Fini` deletes a function that is in its module (255).
- Symbols stay from one source to the next, and labels in functions are global.
  `Module.cpp`: an overload that fails half-way stays (542-558), and conflicts are
  found by text (530).
- Projects and options: a blank line in front of a command applies it twice; the
  current project, not the one being built, gets the modules; two units both define
  `TenshiMain`; `-c` is not known; `--no-compile` sets it; a second `--` is an input; the command line's project has 32-bit
  pointers, and with no `Target` an empty output; libraries are linked as programs;
  the exit status forgets an unknown option when something else succeeded; `Type` has
  to be in front of `Target`.

*Libraries and plug-in*

- `Source.cpp`: a fraction loses its leading zeros (1461); an unknown character ends the text without an error (1655);
  `??` at an end (115); an escape at the end (1090); `_1` (1341); a comment that is not
  closed (746); a lower-case `remend` (840).
- `String.cpp`: `Unescape` and `Unquote` (1732, 1837) read outside short texts and
  leave the last quotation mark; negative positions count one too many (3350);
  `Replace` goes on for ever when the substitution has in it what is searched for;
  what is appended from a text to itself may have moved; `ToUTF32` has room for all
  code points only when one has several bytes (2590); a text in UTF-8 or UTF-16 does
  not keep the first code points of the next length.
- `Array.hpp` 66, 210, 237, 255, 277, 350: elements of its own, positions at the end,
  elements that are not ended. The dictionary does not know byte 255. A list puts a
  link before itself. `Allocator.cpp`: `VerifyAlloc` compares counts between their
  additions (259), the peak may be lowered (351), numbers are padded with zeros (214).
- `API.FileSystem`: a mode that names a
  disposition is taken for one (`File.hpp:116`); `Close` of a directory closes only the
  outermost (`Directory.cpp:65`).

## Not modelled

- Wording, logging, statistics of execution, names of threads, profiling of
  allocations. Allocation fails in the models where the code goes on after it.
- Orders of memory weaker than that of interleaved steps. The code's atomic
  operations are full barriers; its plain accesses to shared variables are volatile.
- Schedulers 01 to 03, in no build; Console, Window and Input, wrappers of the system;
  the binary tree, whose creation does not link what it makes, so that no sequence of
  calls gets beyond its static node; the tester and the testing runtime, drivers; logs.
- Of code generation: `SELECT` and `GOSUB`, whose `CodeGen` the models take as errors
  or leave out as `CodeGenFlow` says; optimisation and the writing of objects, LLVM's.
- Of types: reference counts of type objects, arrays of several dimensions, and numbers
  of more than the few bits at which a conversion is tested.
- Of the plug-in: attributes and times of files, which are handed through.
- What `partly` leaves out of a component is in its note in `PROJECT.json`.

## Plan

Everything first planned is modelled, and no component with logic of its own is
without a model but those above. Next, in this order:

1. Proofs about the collections, which have the shape of those about lists and arrays; the
   links of `ChainTree`; counts per tag, when the threads that hold blocks are counted one by one.
2. Reference counts of type objects, arrays of several dimensions, `SELECT` and `GOSUB`.
3. Schedulers 01 to 03, if a build comes to use them.
