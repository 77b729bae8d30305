# A verification of suihan

suihan is a specification language. Its compiler `suhc` (C, `src/src`, `src/include`) reads
`.szh` files, checks them and generates TypeScript, SQL, C or x86-64 assembly; the Mongwu
kernel (`src/mongwu`) is a small operating system, partly written by hand in assembly and
partly generated from `src/ordbok/*.szh`. This directory holds TLA+ models of the parts
whose correctness depends on state, order or a combination of passes, TLC instances that
check them, and TLAPS proofs of what matters most for every size of the instance.
Paths below are relative to the repository.

1. [The system](#1-the-system)
2. [Modules](#2-modules)
3. [Runs, bounds and fairness](#3-runs-bounds-and-fairness)
4. [Proofs](#4-proofs)
5. [Disagreements between the code and its documents](#5-disagreements-between-the-code-and-its-documents)
6. [Only model-checked, and not modelled](#6-only-model-checked-and-not-modelled)
7. [Plan](#7-plan)

## 1. The system

### The compiler

    main.c (driver) --> lexer.c --> parser.c --> resolve.c --> checkers --> one emitter --> file
                                        ^            |
                                        +- imports --+            all report into diagnostic.c

| part | state it keeps | operations | what makes it correct |
|---|---|---|---|
| **diagnostics** `diagnostic.c` | a `DiagList`: items, error, warning and per-category counters, limits reached | `diag_emit` with two cascade limits (10 errors per category, 50 in all), `diag_print_all`, `diag_has_errors` | suppression never hides that there was a failure, and what it hides it announces |
| **import resolver** `resolve.c` | cache of loaded modules (64), resolution stack (16), the linked import declarations; one `DiagList` per import | `resolve_imports`, `resolve_one`, cache and stack helpers; the pass sequence on an imported module; merging of its diagnostics | terminates on cycles, parses a module once, links only finished modules, no hole without an error |
| **exhaustiveness checker** `exhaustcheck.c` | covered members (256), pairs of patterns (512) per projection | both axes of a projection, meihua bodies, required fields | accepts only what the generated programs cover; no false alarms; no silent default |
| **emitters** `emit_ts.c`, `emit_sql.c`, `emit_c.c`, `emit_asm.c` | the output file | one program per declaration and target | the targets agree with each other and with the checker |
| **kind checker** `kindcheck.c` | symbol table of names and kinds, filled in declaration order | declare, look up, import shadowing, duplicate ξ | no use before a declaration is accepted; imports shadow as documented |
| **perpendicularity and dimension registry** `perpcheck.c`, `dim_registry.c` | dimensions and members | lookup by exact, plural and singular name | one lookup order in all passes |
| **type registry and type checker** `type_registry.c`, `typecheck.c` | declared types and their fields | first entry of a name, later declarations overwrite its fields; annotations and arity | a call is judged against the declaration it means, as the exhaustiveness checker judges it |
| **semantic checker** `semcheck.c` | none | finds the dimensions of a projection, members of its patterns | finds the same dimension as the other passes |
| **bloat, decidability, literal lints** | none between declarations | single passes that report | |
| **lexer** `lexer.c` | position, stack of indentations (128), DEDENTs owed | `lexer_next` | blocks balance, whatever the indentations |
| **parser** `parser.c` | current token, a copy of the lexer for look-ahead, pending targets, the declarations | one handler per kind of declaration, a Pratt parser for expressions, `synchronize` after an error | an accepted text declares what it seems to; an error costs only its own declaration; trees follow the precedence levels |
| **driver** `main.c` | options; the output, `.suhc_history` and the sources on disk | compile a file; survey a directory with `--lint`, `--map`, `--audit`; `--diff` of two files | the exit status tells what the output is, or what the survey found |
| **watcher** `watcher.c` (`--watch`) | inotify descriptor and buffer, or a table of files with modification times | compile a file when it changes | every change that stays is compiled; an output is never replaced by an older one |
| **convergence** `convergence.c` | `.suhc_history`, `.convergence.json` | count casts and spaces, compare with the last measurement, save the new one | growth of what is not governed is seen, whatever runs were killed in between |
| **drift detection** `drift.c`, `ts_scanner.c`, `py_scanner.c` | declared and scanned definitions | compare each declaration with what was found in the target's code | a clean report means that the target holds what was declared |
| **other tools** `graph.c`, `sql_validate.c`, contrast audit | none | read-only reports | |

The passes share the AST and the diagnostic list. Interaction is by calls: the driver calls
each pass in turn; the resolver calls itself through `resolve_imports` for the imports of an
import, and calls the parser and some of the checkers on every module it loads. The
watcher calls the driver's pipeline for each changed file, concurrently with an editor. Several
runs of `suhc` share the files of a directory without locks.

### The Mongwu kernel

`boot.asm` and `kernel_entry.asm` bring up a single x86-64 processor; `kernel_main` creates
processes (`process_create`), enables interrupts and idles. `timer_handler` (interrupt 32)
preempts and schedules; `syscall_handler` (interrupt 0x80) serves write, getpid, yield and
exit. The state is the process table (PCBs), `current_pid`, `process_count`, the TSS with
*one* kernel stack, and whatever is on that stack. Interrupts interleave with processes at any
instruction of ring 3, with the idle loop, and with the loop of `sys_exit`, the one handler that enables them.

### What is hard here

* *Nested suppression and merging*: an error may be hidden in an import's list and again in
  its importer's.
* *Recursion with fixed-size arrays*: a full stack or cache changes what the resolver does.
* *Five readers of one table of patterns*: the checker and four emitters each decide anew which
  arm covers an input.
* *Names in six tables*: each pass finds the declaration of a name in a table or with a search of
  its own, in its own order of imported and own declarations, exact and inflected names.
* *Interleaving*: timer, system calls and exits over one kernel stack; editor and watcher over
  files, event queue and modification times.
* *Recovery*: after an error the parser goes on from a place it did not expect to be in, between
  tokens that only its lexer balances.
* *Unlocked files*: outputs, history and baseline are truncated and rewritten by runs that go on at
  the same time, may be refused a file, find the disk full or be killed.
* *Eventually*: resolution ends, a change is compiled, every process gets to run.

`PROJECT.json` lists the hazards one by one, each at the line where it bites and with the
properties that would notice it. Those that have no property, or one that covers a part, have a note
that says so: what goes wrong there is what the code does, and section 5 tells it.

## 2. Modules

| module | models | instance |
|---|---|---|
| `DiagLists` | `diag_emit`, the summaries of `diag_print_all`, the lists of nested imports and their merge (`resolve.c` 180-260) | `MCDiagLists` |
| `Resolver` | `resolve_imports`, `resolve_one` and their helpers | `MCResolver` |
| `ResolverGraph` | reachability over the import graph, the reference for two properties of `Resolver` | `MCResolver` |
| `ModuleLoader` | abstract: modules are loaded nested and once | refined by `Resolver` |
| `Projections` | a projection from `parse_projection_cases` through `exhaustcheck.c` and the refusal of `main.c` to the programs of the four emitters | `MCProjections` |
| `Declarations` | the kind checker and what names mean to `typecheck.c`, `perpcheck.c`, `exhaustcheck.c` (meihua bodies), `semcheck.c`, `dim_registry.c` and the registries of the emitters | `MCDeclarations` |
| `MongwuScheduler` | `process_create`, `timer_handler`, `syscall_handler`, the kernel stack quadword by quadword | `MCMongwuScheduler` |
| `RoundRobin` | abstract: the policy of `ordbok/process.szh` | refined by `MongwuScheduler` |
| `CompileFile` | what both watchers share: texts, outputs and the end of `compile_file` | both below |
| `WatcherInotify` | the inotify loop, an editor and the event queue | `MCWatcherInotify` |
| `WatcherPoll` | the polling loop, an editor and the clock | `MCWatcherPoll` |
| `Recompiler` | abstract: an output is replaced by that of a text that is at least as new | refined by both watchers |
| `Lexer` | `lexer_next`: tokens from lines, the stack of indentations | `MCParser` |
| `Parser` | `parser.c`, every handler, on top of `Lexer` | `MCParser` |
| `Drift` | the comparisons of `drift.c`, merged scans | `MCDriver` |
| `Convergence` | the measurements of `convergence.c`, on the declarations of `Drift` | `MCDriver` |
| `Driver` | `main.c`: builds and surveys as processes over one disk, on top of the two | `MCDriver` |
| `*Proofs` | theorems and proofs about the module of that name, in `WatcherProofs` about both watchers | |

Operators whose comment begins with "Mutant of", and those that stand before an operator and have
its name with a word more (`CloseAllTwice` before `CloseAll`), are plausible mistakes in the
operator that follows: one for each checked property, which TLC refutes when the mutant takes the
place of the original. They show that a property depends on the code it is about.

### DiagLists

`lists` is the stack of open `DiagList`s, the driver's first. `Report` is a call of
`diag_emit` by any pass; `OpenImport`, `StartMerge`, `MergeItem` and `CloseImport` are the life
of `import_diags` in `resolve_one`. `Emit` keeps the order of the tests in `diag_emit`: severity,
category limit, total limit. Texts and positions are left out. `reports` and `raised` are
history variables: what the passes reported, whatever became of it.

### Resolver, ModuleLoader

A *program* is one parse of a file, so a module that is parsed twice has two. `frames` is the
C call stack of `resolve_imports`; the last frame is at the first declaration without an
edge. `UseCached`, `ReportCircular`, `ReportMissing`, `LoadModule` are the ways through
`resolve_one` up to the recursive call; `FinishModule` is the rest of it after the call,
`FinishRoot` the driver's. The cache and the stack ignore additions when full, as the code does.
The files' contents are the initial state: any graph, any subset readable. The root is on
neither array, as in the code, so a file that imports the root parses it once more.

### Projections

A *header* says how the declaration names its dimensions and its codomain; an *arm* is a
pattern (a pair, or a single name or `_`) with a kind of body. `ParseArm` appends an arm, `Check`
is `exhaustcheck` on the declaration, `Refuse` and `Emit` are the two ways of `main.c` after it.
The checker's definitions follow `exhaustcheck.c` function by function, with the
capacities of its arrays. A program that an emitter writes is modelled by what it computes
(`resolve`: which arm's body is returned for an invariant and a context, or `Fallback`) and by
whether the target language accepts it (`valid`). So `Chain` is a chain of conditions followed by
the default, `Cascade` one with the default among the conditions, `Switch` a C switch; each
emitter's operator says which arms it takes and in what form.

### Declarations

A program is a sequence of imported declarations, one level deep, and a sequence of its own;
`Visible` is the order of `collect_imported_decls`. `Import` and `Declare` write it, then the
passes run in the order of `main.c`: `StartKinds`, `CheckKind` (one turn of the loop of `kindcheck`, which
enters a declaration into the table and checks it), `EndKinds`, `Typecheck`, `Perpcheck`,
`Exhaustcheck`, `Semcheck`. A name is a stem and a number of letters s at its end, which is what the plural
and singular tries of the searches look at. `RegistryFind`, `DeclarationFind` and `CFind` are the
three searches for a dimension; `KindWalk`, `PerpWalk`, `TypeWalk` and `MeihuaWalk` are the
surroundings of an expression that each pass descends into. `diags` is what was reported, as category and position.

### Lexer, Parser

A text is a sequence of lines, a line the blanks it begins with and its lexemes; `Type` is the table
from lexemes to token types. One action of `Lexer` is one way through a call of `lexer_next`. The
parser reads the tokens that the lexer has given (`out`), which is what the code does too, since
`lexer_next` takes no input from the parser. A state of the parser, `s`, is a record: the index of the
current token (`at`), the pending targets (`tg`) and the errors (`errs`); each handler is an operator
from a state to a result, the new state and an expression or declaration, under the name of the C
function without `parse_`. The handlers recurse through one operator, `Parse`, and through their own
loops. One step (`Declare`) is one turn of the loop of `parser_parse`. The word of
a leaf of a tree is the index of its token, so it can be said of a token that it got lost.
`Restore` models that the look-ahead copies the lexer and the current token but not the pending
targets. The model's declarations and errors were compared with those of the compiled program for
2500 random texts over the same lexemes, without a difference.

### Drift, Convergence, Driver

A declaration is a record of what these passes look at; a scan is what `ts_scan` or `py_scan`
returns, constants, blocks of cases and functions. `CompareProjection` and its siblings are the functions
of `drift.c`, with S as a fraction; `Analyze` is `convergence_analyze`, `Ungoverned` and `Verdict` the
two halves of `convergence_scan_dir`. In `Driver` a run is a record whose `pc` says which file it
touches next: `Compile` (read, check), `OpenOutput` (truncate), `Emit`, `LoadTrend`, `AppendHistory` for a
build; `Survey` or `LoadBaseline`, then `ReadSource`, `ReadCode` in any order of `readdir`, then `Report` or
`OpenBaseline` and `WriteBaseline` for the others. An operation that the system may refuse has an action for
the refusal (`OutputDenied`, `HistoryDenied`, `BaselineDenied`), a full disk cuts a file off (`EmitCutOff`,
`BaselineCutOff`), and `Kill` ends a run anywhere. An output is named with `-o` or by default, so several builds may
open one; of builds that have it open together, any may overwrite parts of another's text, and what is written
is whole or truncated. The checks of a program are reduced to three flags: errors, type errors (only a build
looks for them) and warnings. `sole`, `measured`, `cutOff` and the fields `opened`, `known` and `past` are history variables.

### MongwuScheduler, RoundRobin

A thread is a process and a place in its code (idle loop, ring 3, or inside `sys_exit` or
`sys_yield`), with the depth of its kernel stack. `kernelStack[d]` records *whose* register was
pushed to the d-th quadword below 0x90000, so overwriting a frame is visible: `Resume`
follows `pcbRsp` and finds whichever thread's frame lies there now. `SwitchFrom` is the body of
`timer_handler`, entered by the timer (`Timer`) or by `int 32` from `sys_yield` (`Yield`).
A return through something that is no frame is `cpu.at = "fault"`. The first pass of `.do_exit` is one step
(`Exit`), since the gate disabled interrupts. Each later pass runs with interrupts enabled and is two: `ReadCurrent` reads
`current_pid` into a register of the thread, `Mark` stores TERMINATED, and the timer may come in between.

`RoundRobin` knows whose turn it is, how many processes there are and who is `gone`: marked TERMINATED
when it is not its turn. The turn passes to the next process that is not gone.

### CompileFile, WatcherInotify, WatcherPoll, Recompiler

A text is a number that grows with each write (`Overwrite`), and whether it compiles. `compile_file`
is not one step: the editor may write between the reading of the source and the writing of the output
(`WriteOutput`), which leaves an output alone when the text has errors. In `WatcherInotify`
the queue holds the events of the mask of `inotify_add_watch`, merges an event that repeats the
last unread one, and receives the events of the watcher's own output files too; `batch` is what
one `read` returned. In `WatcherPoll` `todo` is the loop index and then the names left of
`readdir`, and files are compared by modification time in whole seconds, as in the code. The stat that
notes a time (`Changed`, `NewFile`), the reading (`ReadSource`) and the writing (`EndCompile`) are three steps,
and the editor may also delete the file between them; the initial scan notes times without compiling.

Both watchers implement `Recompiler`, with the number of the text on disk for `written` and that of the text
an output was generated from for `output` (`ImplementsRecompiler`). It promises no recompilation, only that
none makes an output older; that nothing is missed is said of each watcher in its own terms, the events of
`PendingHasEvent` and the noted times of `ChangesAreNoticed`.

inotify, the clock and the editor are not in the repository; they are modelled from how
`watcher.c` uses them and are marked external in the map.

## 3. Runs, bounds and fairness

| run | expects | question |
|---|---|---|
| `diag_lists` | pass | do limits and merging ever hide a failure or lose a warning? |
| `resolver` | pass | over every small import graph: termination, exactly the reachable files, each parsed once, no hole or cycle unreported |
| `projections` | pass | do the checker and the four emitters agree on what is covered? |
| `declarations` | pass | do the passes agree on what a name means, whatever the order of declarations? |
| `mongwu` | pass | table, processor, stack and turns agree under every mix of system calls; does every process start? |
| `mongwu_context` | violation | does a dispatch preserve the context? |
| `mongwu_exit` | violation | is a terminated process gone? |
| `inotify` | pass | does every text written in place reach the output, does none make an output older, and does the watcher come to rest? |
| `inotify_rename` | violation | the same for an editor that saves by renaming |
| `poll` | pass | does the polling loop notice and compile every change, creation and re-creation, also between its stat, read and write, without making an output older? |
| `parser` | pass | over whole and broken texts: do blocks balance, is what is accepted complete, what follows an error kept, and do trees follow the precedence? |
| `driver` | pass | what may the reader of an exit status, a trend, a verdict or a report conclude, with two runs at once, edits, kills and refusals? |

Type invariants are no part of the runs: where a module has one it is proved.

**Bounds.** Every bound is a constant of the module.

* `diag_lists`: limits 2 per category and 3 in all (10 and 50), two categories, three nested
  lists, five reports. A category is full before, at and after the total limit, and errors are hidden
  in an import and at its merge. The proofs cover all limits.
* `resolver`: a root and two modules with import lists of length at most two, hence every
  kind of cycle (self, mutual, through the root), diamonds, repeated imports and unreadable
  modules; the arrays have room for all (64 and 16 in the code). `MaxPrograms` stops the endless
  parsing that a full cache or stack allows; in the run it is never reached.
* `projections`: two dimensions of two members, three arms of every shape and body, all ways
  the header can name dimensions. Three arms are enough for a specific arm, a partial wildcard
  and a default in every order; the arrays hold two pairs and two members, so they overflow.
  Model values of a dimension are interchangeable, which the run uses.
* `declarations`: two imported and two own declarations, drawn from one of three vocabularies
  (dimensions with inflected names and what refers to them; values of all kinds that name each
  other; execution layers that call each other), names with up to two final s, two dimensions in
  the C emitter's registry, so that it overflows. Two on either side of the import is what shadowing and the
  order of declarations need; the proofs cover programs of any length.
* `mongwu`: up to four processes of which any subset of calls is made; 64 quadwords of stack,
  of which `KernelStackBounded` shows that 32 are used. Two user processes are what
  `kernel_main` creates, three are enough for the order to matter.
* `inotify`, `poll`: two files, three writes; a buffer of two events, so a batch is split; two
  seconds. A write during compilation, after an event was read and before its turn all occur. The
  polling table has room for both files: a file beyond the table is never compiled, and with `MaxFiles = 1`
  TLC refutes `ChangesAreCompiled`. With `QuickSaves = TRUE` it refutes it too, for the second of two writes in a second.
  In both instances the other two properties hold, and the proofs of them cover any table.
* `parser`: some forty thousand texts: every kind of declaration, whole and cut off in the middle,
  followed by one or two lines of a body at every indentation and by another declaration; all
  pairs of such heads; nestings that exceed the stack (`MaxDepth = 3` for 127) and close half way, with
  tabs, blank and comment lines; all pairs of operators with prefixed operands. An error and the
  declaration that must survive it are at most three lines apart.
* `driver`: two processes, three runs and one edit over two sources, two outputs and two files of the target. The
  initial worlds are all pairs of a declaration and two scanned files (for the comparisons), pairs of
  programs that differ in errors, warnings and casts (for the statuses), and programs with ratios of a
  third, a half, one and none (for builds and for measurements). `MaxLintScans = 2` and `MaxMapScans = 1`, so
  the second is full. Any two builds may go on at once, of one source or with one output. Ratios are compared as
  fractions; the four printed decimals round half up.

**Fairness.** `DiagLists`, `Projections`, `Declarations`, `Parser` and `Driver` have none, only safety. `Resolver` is a sequential
program: `WF(Next)`. The kernel has `WF(GoLive)` (kernel_main gets to its `sti`) and `WF(Timer)`
(the interval timer is periodic and its handler is entered when interrupts are enabled); nothing
is assumed of the processes. The watchers have `WF(Watcher)` and `WF(Poller)`, the loops that run
until they are interrupted; the editor may stop at any time, and the polling model's clock too. The
liveness properties ask therefore about texts that *stay*.

Deadlock checking is off in all runs: the compiler comes to an end, and the bounds on reports,
runs, writes and time let the models do so.

## 4. Proofs

All theorems hold for every value of the constants that satisfies the `ASSUME`s of the
module, further assumptions as stated. An `ASSUME` says that a bound is a number, that a wildcard is not
a member, that `tolower` leaves `_` alone (`DriftAssumption`), or what shape data of the initial states has:
in `DriverAssumption` the sources of a world are programs and the target's files are scans, in the form that
`parser_parse` and `ts_scan` return them. Each is evaluated on its instance by the run.

| module | theorem | states | for |
|---|---|---|---|
| `DiagListsProofs` | `TypeCorrect`, `FailuresAreShown`, `ErrorsReach`, `HiddenAnnounced`, `WarningsStay` | `TypeOK`, `FailureIsShown`, `ErrorsReachTheDriver`, `HiddenIsAnnounced`, `WarningsSurvive` | all limits, categories, nestings |
| `ResolverProofs` | `TypeCorrect`, `LinksFinished`, `HolesReported` | `TypeOK`, `LinksAreFinished`, `HolesAreReported` | all graphs, also with full arrays |
| | `ReachableRead`, `CyclesReported` | `ReadsTheReachable`, `CyclesAreReported` | all graphs, also with full arrays |
| | `NoModuleReentered` | `NoReentry`, part of what the refinement says and true of any cache | at most `MaxDepth` modules |
| | `RefinesModuleLoader` | initial states and steps of `ModuleLoader` | at most `MaxDepth` and `MaxLoaded` modules |
| `ProjectionsProofs` | `TypeCorrect`, `AcceptedIsTotal`, `NoFalseAlarm`, `DefaultsAnnounced`, `EmittersAgree` | `TypeOK` and the four invariants of `projections` | dimensions, arms and rooms of any size |
| `DeclarationsProofs` | `TypeCorrect`, `OneDimensionForAll`, `ConfusionsAreFound`, `PerpendicularsAreFound`, `CallsAreJudgedAlike` | the five invariants of `declarations` | programs of any length, any names and registry size |
| `MongwuSchedulerProofs` | `TableAgrees`, `FollowsThePolicy`, `StackIsBounded` | `TableMatchesCpu`, `RoundRobinOrder`, `KernelStackBounded` | any table, any system calls |
| | `ContextsStayWhole` | `ContextsAreWhole` | any table |
| `WatcherProofs` | `InotifyImplements`, `PollImplements` | `ImplementsRecompiler`, of each watcher | any files, buffer, table, number of writes; quick saves, and saves by renaming, too |
| | `OutputsNeverGoBack` | `NeverOlder` of `Recompiler`, for both watchers | the same |
| | `NoWriteIsLost` | `PendingHasEvent` | any files, buffer, number of writes; a watched directory |
| | `NoChangeIsMissed` | `ChangesAreNoticed` | any files, table, number of writes and seconds |
| `LexerProofs` | `BlocksBalanceCorrect`, `IndentsGrowCorrect`, `LexInvCorrect` | `BlocksBalance`, `IndentsGrow`, the invariant | all texts, any room of the stack |
| `DriverProofs` | `ExitTells` | `ExitTellsTheOutput` | any number of files, programs, runs at once, edits and faults |
| | `GrowthSeen`, `TrendTells` | `GrowthIsSeen`, `TrendTellsDirection` | the same |
| | `LintWitnessed`, `CleanAgrees` | `LintIsWitnessed`, `CleanMeansAgreement` | the same, and any number of scans with any definitions |

The inductive invariants, and why they are needed:

* **DiagLists.** `FailureIsShown` alone is not inductive. `diag_emit` may hide an error when its
  category is full, which is harmless only because a full category implies a counted error
  (`Consistent`); closing an import is harmless only because the merge, when it passed an error
  item, left one in the list below (`MergedErrorsCounted`). For the counts (`CountInv`) it suffices that
  `diag_emit` keeps those of each list in agreement, and that outside a merge no item counts as merged,
  so that a list that becomes the innermost again has all of its warnings. The sum over the categories is the
  size of a set of pairs, about which the library has theorems.
* **Resolver.** A finished module leaves `frames`; it must be there once, hence `FramesNested`
  (frames are in the order of parsing). It is linked under the name its importer asked for, hence
  `FramesWait`. The cache holds only finished modules, `CacheIsFinished`. For the
  refinement, cache and stack together are a list of distinct modules, so with as much room as there
  are modules no push is dropped and the stack equals the names of the frames
  (`StackIsTheFrames`). What is read and which cycles are reported (`GraphInv`) is compared with
  the smallest set closed under imports. A reported cycle exists, because the module of a frame is below those
  of the frames under it (`FramesAreBelow`) and what is on the stack is the module of a frame, even when names
  were dropped (`StackIsBeingLoaded`). An existing one is reported: as long as none was, finished
  modules import finished ones only, so the first module on a cycle to finish would need another that
  had (`FinishedAreAcyclic`). Since files that are read stay read, the end has the closed set.
* **Projections.** The invariant only ties reports and programs to the declaration. What is left is
  an argument over data: a coverage level above 0 is an arm that matches (`CoveredIsMatched`),
  and a chain, a cascade or a switch that has a matching arm selects one (`ChainSelects`,
  `CascadeSelects`, `SwitchOfAllArms`). `NoFalseAlarm` needs the arms to fit the checker's arrays
  (`RoomForMembers`, `RoomForPairs`).
* **Declarations.** A pass reports once and later passes only add, so the invariant says for each
  pass that has run which positions were reported in its categories: exactly those of its
  definition. For the loop of `kindcheck` that is a statement about the table, which is at every turn the
  entries of the declarations up to the current one (imported ones included) with kinds inferred. What
  is left is about searches: the first match is a match (`FirstFound`, by
  well-foundedness of <), and the three searches fall together when one declaration has a form of the name.
* **MongwuScheduler.** The search of `.find_next` ends since the current process was marked READY, and passes over
  a process only when it is gone, since no other one is RUNNING (`FindNextIsFirstReady`, `SwitchKeepsTable`). That is
  `TableMatchesCpu`, inductive with the ranges of the process numbers; a thread in `sys_exit` may have read any
  number. The argument does not depend on the contents of the kernel stack. That the stack is bounded does, since what is
  resumed is whatever thread's frame lies there: every quadword belongs to a thread of depth 0 or 11, so
  registers are saved at depth 20 or 32 and a resumed process finds again such a thread (`StackInv`).
  Without yields and exits all depths are 20, so a switch overwrites the whole frame and resumes the
  thread that was just saved (`CalmInv`).
* **Watchers.** The refinement of `Recompiler` is an order: emitted text <= compiled text <= text on disk
  (`TextsInOrder`, `PollTextsInOrder`). Only a step that writes an output needs it; every other one is a stutter or
  a `Save`. `NeverOlder` is proved of `Recompiler` alone, and both watchers inherit it. That no write is
  lost, and that no change is missed, need the order too, since a compilation of an old text that ends late must not
  count as one of the new text. The polling watcher also needs an order of times: noted <= last write <= clock
  (`TimesInOrder`). Without quick saves a write finds the last one in an earlier second, so the time it sets is none that was
  noted, and `NoticedInv` is kept where it would break: between the stat and the reading, a later write
  either is read, or has a time that is still to be noticed.
* **Lexer.** DEDENTs are given one per call while the stack is cut at once, so the balance holds only with
  an account of every INDENT: closed, owed (`pending`), on the stack, or beyond its room
  (`Accounted`); the search for the level to close to needs that the stack grows (`IndentsGrow`); that nothing is
  owed when EOF is given is `ClosedAtEnd`.
* **Driver.** `ExitTellsTheOutput` looks at the last step of a build only. For it to hold, a build must not have
  opened its output before it is past all errors, and must have left it whole after writing it, if it is its sole
  writer (`OutputOfBuild`). The other builds do not disturb that: one that opens the same output takes it over or
  makes it nobody's, and one that still has it open is either its sole writer or there is none (`WritersKnown`).
  `GrowthIsSeen` needs that the baseline on disk is what was measured last unless somebody saves, or was
  killed or cut off while saving (`BaselineIsMeasured`), and that a run keeps what it read (`RunsMeasure`); the trend,
  that every line of the history is the rounding of a ratio (`HistoryKept`). What is left is
  arithmetic: half a unit of the fourth decimal cannot turn two fractions round whose denominators, multiplied,
  are below 20000. The condition of `TrendTellsDirection` is what that argument uses: programs of up to 141 casts
  on both sides. The reports
  (`SurveyInv`) only add that a finished `--lint` or `--map` has the report and status of what it read.
  What is left is about data of any length: the first of its kind in a concatenation is the first of its kind
  in one of the parts (`FlattenFirst`), so a comparison says of merged scans what it says of one of them
  (`CompareWitnessed`, with a lemma for each kind of declaration); and what is called matched, the scan
  holds (`MatchedHolds`), which for a dimension is an argument about sizes: branches that are all members, as many
  as the members and none twice, are all of them (`MembersAgree`).

The library's induction theorems take an operator as a parameter and cannot be used here. Where an argument goes by
induction over the length of a sequence, the numbers it holds for are a set, and the set has all numbers
since otherwise there was a least one outside (`SetInduction` in `DriverProofs`). That reaches the
folds and recursive functions that the properties of `Driver` rest on.

## 5. Disagreements between the code and its documents

Each of the first three is shown by a run that expects a violation.

* `mongwu_context`: all processes save their frames at the top of the one kernel stack; the
  second preemption overwrites the first (`mongwu/kernel_entry.asm:538`). With calls that are
  answered on the spot a switch still restores one consistent register set (`ContextsAreWhole`), only that
  of another process.
* `mongwu_exit`: `timer_handler` marks the process it leaves READY whatever its state
  (`mongwu/kernel_entry.asm:357`), so a terminated one is scheduled again.
  The same loop of `sys_exit`, resumed for another process, marks whichever process it finds current; when the timer
  comes between its read and its store (`kernel_entry.asm:641`, `:645`), it marks one that is not current any more.
  That one never called exit, and nothing makes it READY again.
* `inotify_rename`: the mask lacks IN_MOVED_TO (`src/watcher.c:150`).

More follow from the same modules when a definition or another constant is put into the cfg of a
passing run:

* `EveryoneGetsATurn` (`MongwuScheduler`), the round robin of `process.szh` said of the code that is executed and not of
  `current_pid`: false even with the calls of the kernel's own processes. Each of them starts (`EveryoneStarts`), but
  after the first round the processor executes the code of the one that started last, whoever is current.
* `NoConfusionAccepted` (`Declarations`): `kindcheck` enters a declaration just before it checks it
  (`src/kindcheck.c:221`), so `ξ a : b` before `ζ b : c` compiles without a diagnostic, and after it is
  an error.
* `StringTablesInAllTargets` (`Projections`): `emit_sql.c` skips arms with a single pattern, so the SQL of a
  string table is `SELECT CASE END` (`src/emit_sql.c:646`).
* `TargetsGoToTheNext` (`Parser`): an `@targets` annotation is for the next declaration
  (`include/parser.h:29`), but a handler that looks for a body reads past the comment, and the
  declaration before it takes the targets (`src/parser.c:1592`).
* `StatusZeroMeansWhole` (`Driver`), the status 0 of a build without the exceptions of `ExitTellsTheOutput`: nothing
  keeps two builds from one output (`src/main.c:2123`), so the text of one may be cut off by the other although both
  exit with 0; and `fprintf` and `fclose` are not checked (`src/main.c:2134`), so a full disk does it to a single build.
* `WatchedFile = f1` in `MCWatcherRename.cfg`: events of a watched *file* carry no name and
  are skipped (`src/watcher.c:173`), while the journal documents `--watch` on a file.
* `MaxDepth = 1` in `MCResolver.cfg`: a module is loaded again while it is being loaded (`NoReentry`), since
  `stack_push` drops a name silently when the stack is full (`src/resolve.c:125`, 16 names). When it imports itself,
  that goes on without end (`Terminates`).

The models show further behaviour that no document contradicts and that a maintainer should know:
the suppression count of an import's list is dropped at the merge (`resolve.c:256`); with more
than 64 modules a module is parsed again for each import (`resolve.c:106`); a process that
yields may never resume (`kernel_entry.asm:656`); of two writes in the same second the polling
watcher may miss the second (`watcher.c:248`); the targets differ when a default arm is not the
last or a body is not a string literal (`emit_ts.c:931`, `emit_sql.c:652`); `(_, ctx)` with an
undeclared context passes for a default (`exhaustcheck.c:59`); two
`perpendicular` declarations that begin with the same dimension are reported as one identity at two
addresses (`kindcheck.c:246`); a type that only an imported module imports is unknown in its
importer (`typecheck.c:344`); a comparison in the condition of an `if` is not seen by `perpcheck`.
A file that imports a changed one is not compiled again (`watcher.c:179`), the overflow of the
inotify queue is skipped like every event without a name (`watcher.c:173`), and the polling watcher knows
128 files (`watcher.c:264`). The C of a projection may repeat a case label or name a default that is no
member (`emit_c.c:762`). `process_create` does not compare with MAX_PROCS
(`kernel_entry.asm:245`; the kernel creates two processes).

Of the parser: the brace of a `match` that is never closed is not reported and swallows the rest of the
text (`parser.c:336`); an error in a journey, program or graphics_rule is reported twice, and the second
`synchronize` may skip the declaration that follows when it begins with a keyword that its list
lacks (`parser.c:740`, `:1553`); `a |> b + c` is read as `(a |> b) + c`; members of an enumeration that are
not names are dropped (`parser.c:628`); the inline body of an execution layer gives way to a block;
targets read by a look-ahead are collected twice; with 127 indentations open a deeper line gives an INDENT without
its DEDENT; the check of forward references that `parser.h` speaks of is not compiled
(`parser.c:133`).

Of the driver and the measurements: an unchanged ratio of 1/3 is called worsening and one
of 2/3 improving (`main.c:2183`); the history is one for all files of a directory; `--audit`
and `--lint` do not check types; `--lint` takes 64 sources and 256 scans, `--map` 64, and no report says that
more were left out; a baseline of 0, or one that was cut off, turns the ratio of `--convergence`
into a share, which reads as converging (`convergence.c:437`); a block that spells a member in two ways hides
that another is missing (`drift.c:361`); an enumeration written `a | b` is never found in the
target (`drift.c:343`); more than 30 percent of the cases suffice where the comment speaks of 50
(`drift.c:181`); with several scans a block that matches may hide one that diverges.

## 6. Only model-checked, and not modelled

Only model-checked:

* all liveness (`Terminates`, `EveryoneStarts`, `RecompilesOnWrite`, `ChangesAreCompiled`, `Settles`, and the
  fairness part of `ImplementsModuleLoader`), which is out of the prover's reach;
* the four invariants of `Parser`, whose handlers are mutually recursive operators: a module that reaches a
  `RECURSIVE` declaration loses the prover's arithmetic. The invariant of the lexer under it is proved.

All other invariants and action properties of the runs are theorems.

Not modelled inside the modelled parts: message texts and the JSON and SARIF printers; the search
paths of the resolver; of projections, patterns longer than a pair, number and string
patterns, arms without an arrow, names of no declared member, the display-title parameter of
TypeScript, and the limits of `emit_c.c` on dimensions (64) and members (256); of the
declarations, expressions nested more than once, the fields and variants of the type registry,
`graphics_rule`, contexts and further arms of a projection in `semcheck.c`, the required fields of
journeys and programs in `exhaustcheck.c`; of the kernel, screen output, paging and the addresses of the processes' own stacks; of the watchers, imports
(a file is not compiled when a module it imports changes), the overflow of the inotify queue, and an output, or a
directory, that cannot be opened.

Inside `Lexer` and `Parser`: the characters of a lexeme, line and column numbers of diagnostics. Inside `Driver`:
the options and their combinations, an `-o` that names a source, several directories, lines of the history or a
baseline that a full disk leaves in part (they are smaller than a block), the layout of the reports, and how the
passes find the errors of a program (that is what the other modules are about).

Not modelled parts: `ts_scanner.c` and `py_scanner.c`, text processing over foreign languages by
`strstr` and character loops; the lints, single passes over one declaration without state; the
layout of generated declarations other than projections; the graph output and `--validate-sql`, read-only
reports; the colour arithmetic of the audits (floating point). They are data transformations, of which an
abstraction over data would say nothing.

## 7. Plan

Done are diagnostics, resolver, scheduler, both watchers, projections, declarations, lexer, parser, drift,
convergence and driver. Left, in the order of importance:

1. **Decidability** (`decidability.c`, `bloatlint.c`), over the expressions of `Declarations`.
2. **Pipeline of an import** (`resolve.c` 180-260): which passes are skipped for imports
   (exhaustiveness, semantics, types), composed with `DiagLists`.
3. **Kernel memory layout**: the first stack pointer of a process lies 32 bytes above the top of its
   stack (`kernel_entry.asm:279`); with stack addresses in `ProcessCreate` one could say when two stacks meet.
