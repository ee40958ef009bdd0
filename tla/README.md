# TLA+ verification of STruC++

STruC++ compiles IEC 61131-3 Structured Text to C++17. The generated code runs
on a header-only C++ runtime, in an interactive runner (REPL), a real-time
cyclic runner, or inside a host (OpenPLC Runtime v4, Arduino). This project
models the parts of that system where time, order, operators and failures
meet. At run time these are the scan, forcing, located variables, the cyclic
runner, the retain store, the globals that tasks on threads share, the standard
timers and counters, and the motion blocks of one axis. In the compiler they
are the checks and orders a wrong result of which shows only in a particular
program: who owns a located slot, which variables are retained, in which order definitions are written, which
library chunks go along, what a FOR statement and a MAX become. In the editor it
is the question whether the diagnostics on the screen are those of the text.

Paths below are relative to the repository (`src/runtime/...`,
`libs/sources/...`).

## 1. Inventory

| Component | State it keeps | Operations | Interacts with | What is hard |
|---|---|---|---|---|
| Variable wrapper, `runtime/include/iec_var.hpp` | value, forced flag, forced value | get, set, assignment, force, unforce, raw/read pointer | programs, debug dispatch, image copies | a value with two writers that do not see each other: the program through the wrapper, the image past it |
| Located variables, `iec_located.hpp` | descriptor table, one byte image per area | copy in, copy out | runners, field devices | rows that overlap; the compiler's slots against the runners' bytes; constants that have a row |
| Debug dispatch, `debug_dispatch.hpp`, `debug_table.hpp` | none of its own | force, unforce, write, read, address in place | wrapper, retain, OPC-UA clients | requests between any two scans or statements; constants behind `void*`; addresses that outlive a force |
| Cyclic runner, `runtime/repl/iec_cyclic.hpp` | cycle count, next tick, scan clock, stop flag | scan, sleep, signal | programs, image, steady clock | late wake-ups, overruns, signals at any moment |
| REPL, `iec_repl.hpp` | the same, plus history and watch list | run, step, force, set, ... | the same | same scan, without the wall clock |
| Retain store, `iec_retain.hpp` | a blob in the target's retain region | pack, unpack | debug dispatch, storage driver, the next program | cut writes, recompiled programs, restored constants |
| Standard blocks, `libs/sources/iec-standard-fb` | per instance: state, previous input, start, outputs | one call | programs, scan clock | histories of calls at any rate, presets that change, power cycles |
| Scan clock, `iec_std_lib.hpp` | `__CURRENT_TIME_NS` | `TIME()` | timers, runners | restarts at zero at power-up |
| Shared globals, `iec_global.hpp` | value and mutex | read, write, with_lock | tasks on threads, emitted accesses | locks taken in the subscript of another access; read-modify-write across two locks, or into a temporary; a fault under a lock |
| Location checking, `semantic/analyzer.ts`, `backend/codegen.ts` | claimed slots per bank | validate, emit rows | located variables | arrays over slots, several instances, one global in several configurations |
| Retain table, `backend/debug-table-gen.ts`, `library/` | arrays of entries, list of retained leaves | walk the globals and instances | library manifests, retain store, debug dispatch | qualifiers of nested blocks; what manifests do not tell |
| Definition order, `backend/codegen.ts`, `semantic/type-registry.ts` | queue and in-degrees, or a search path | sort the blocks, sort the types | the emitted header | cycles, and what the sort does not see |
| Library linking, `library/` | symbol ownership, chunk dependencies | resolve at library build, follow at program build | loaded archives | dependencies across libraries, a library that is not loaded |
| FOR statements, `backend/codegen.ts` | captured bounds, control variable | emit the loop | the variable wrapper | a body that assigns to its own bounds, a bound at the end of the type, a force |
| MIN, MAX and their type, `semantic/type-utils.ts`, `iec_var.hpp` | none | common type, fold | every caller | signs and widths mixed, in any order |
| The rest of the compiler: front end, type rules, code generation, project model, importers | AST, symbol tables, type registry | passes over the AST | one another, in sequence | little beyond the large case tables |
| Motion blocks, `libs/sources/plcopen-softmotion` | sequencer state per block | power, home, move, reset, stop | one control word and one status word per axis | a drive that answers late or faults, several writers of one word |
| Language server, `vscode-extension/server` | documents, analyses, debounce timers | open, edit, close, analyse, reanalyse all | compiler, editor | an analysis of an older text, published or not |
| Editor client, `vscode-extension/client` | force panel, test runs | force, release, rerun | debug adapter, editor | partly failed forces, dropped reruns |
| Test runner, `runtime/test/iec_test.hpp` | clock, mocks, results | run a case | compiled program | reset between cases |

`PROJECT.json` lists every component with its status, and the hazards of the
code at the lines where they bite.

### What makes each part correct

* **Forcing.** Only an operator moves or releases a force; a driver reading
  the storage or the output image of a forced output sees the forced value.
* **Image.** A marker keeps what the program left in it; rows do not disturb
  one another. A constant is moved by nothing but the image, and only if it has
  an address.
* **Runner.** Every program runs once per interval of the scan clock; the scan
  clock does not outrun the wall; a stop request ends the loop promptly.
* **Retain.** A boot finds one save whole or starts cold, never a mixture or
  another program's bytes; an uninterrupted save comes back; the diagnosis is
  true; constants come from the declaration.
* **Shared globals.** Tasks do not wait for one another for ever; what one task
  writes to its part of a structure or an array is not undone by another; a copy of a whole
  global is not torn.
* **Timers and counters.** Outputs follow the history of calls; a count is an
  edge; counts stay in range; a timer does not elapse early on the wall.
* **Motion.** Powering and homing come to an answer whatever the drive does;
  withdrawing Enable takes the axis out of voltage; the mode of a drive changes
  only while it is not enabled.
* **Located declarations.** What is accepted has one owner per slot; what is
  refused has a reason.
* **Retain table.** Every leaf is in it once, with the flags of its declaration;
  what a retained instance loses is reported.
* **Definitions.** Each is written once, after what it needs, unless a cycle
  forbids it; a program gets the chunks it needs and no others.
* **Loops and selections.** A loop makes the passes its bounds asked for at
  entry, and ends; MAX is the largest argument.
* **Diagnostics.** Those of an open document are about its text, or a timer is
  running that will make them so.

## 2. Modules

| Module | Models | Notes |
|---|---|---|
| `IECVar` | `IECVar<T>`: one operator per method | operators on a cell, no variables |
| `LocatedAddress` | a row of `locatedVars[]`, in the compiler's and in the runners' view | `ByteBits` is 8 in the code |
| `ScanCycle` | copy in, programs in table order, copy out, with the debug dispatch beside it | composes the two above |
| `ScanPacing` | what a cyclic runtime promises about time | abstract |
| `CyclicRunner` | `cyclic_run` | implements `ScanPacing` |
| `RetainContract` | what RETAIN promises across power cycles | abstract |
| `Retain` | `pack`, `unpack` and the store | implements `RetainContract` |
| `StdBlocks` | TON, TOF, TP, R_TRIG, F_TRIG, CTU, CTD, CTUD: a function per call | pure operators |
| `StdTimers` | the three timers under every history of calls, clock and power | uses `StdBlocks` |
| `StdCounters` | the three counters under every sequence of calls | uses `StdBlocks` |
| `MotionAxis` | the drive bridge, `MC_Power`, `MC_MoveAbsolute`, `MC_MoveVelocity`, `MC_Home`, `MC_Reset` and the blocks inside them, on one axis with a drive | the drive is external |
| `TimedScan` | a TON inside the cyclic runner | composes `CyclicRunner` and `StdBlocks` |
| `SharedGlobal` | tasks on threads over `GlobalVar`, step by step through the code emitted for their statements | `Body` is a constant: any program of these statements |
| `Locations` | `validateLocatedVariables`, then `pushLocatedDescriptors` | extends `LocatedAddress` |
| `DefinitionOrder` | what the compiler promises of the order of definitions | abstract |
| `BlockOrder` | `topologicalSortFBs` | implements `DefinitionOrder` |
| `TypeOrder` | `getTypesInDependencyOrder` | implements `DefinitionOrder` |
| `ChunkReach` | `computeChunkDeps` and `collectUsedSymbols` | |
| `Selection` | MIN and MAX: the fold of the runtime and the type of the compiler | |
| `ForLoop` | the loop `generateForStatement` emits | uses `IECVar` |
| `RetainTable` | `generateDebugTable`: the leaf walk, the arrays and the retained list | feeds `Retain`, whose `Layout` is such a list |
| `Workspace` | `DocumentManager` and the server's handlers of document events | |
| `MCRuntime`, `MCLibrary`, `MCToolchain` | the components of the host, of the libraries, and of the compiler and editor, side by side: `suite` says which of them runs in a behaviour, the others have a trivial state and stay put | a suite's fairness is that of the component |
| other `MC...` | the constants of the runs | |
| `..._proof` | theorems and their proofs | |

### State and actions against the code

`ScanCycle`. `cell[v]` is the wrapper of `v`, `image[area]` the byte vectors of
`__image_for_area`, bit by bit; a value is the row of bits its storage holds.
`SyncIn` and `SyncOut` are `__sync_located_in` and `__sync_located_out` over
the whole table, `SyncOut` with the clock advance left to `CyclicRunner`.
`Compute` and `Copy` are the two forms of an assignment generated code contains
(`dst = expr`, `dst = src`); compound operators are `Compute`, since each calls
`get` and `set`. A program that is not due in a scan ends without a
statement. `ForceVar`, `UnforceVar`, `WriteVar`, `TakePointer` are `handle_set`,
`handle_write` and `handle_ptr`, with the refusal of constants; a refused
request changes nothing and is a missing step. `MidScan = TRUE` lets them happen
between two statements, which is what a debugger stopped at a breakpoint does;
otherwise they happen between scans, as in the super-loop and the REPL. A
constant may be located: a configuration's `VAR_GLOBAL CONSTANT c AT %MW0` is an
ordinary `GlobalVar` with a row (`codegen.ts:3455-3479`), which programs and
requests leave alone and the copies do not. The
image vectors grow on demand with zeros in the code; here they have their final
size from the start, with zeros.

`CyclicRunner`. `phase` is the place in the loop; one action per stretch of code
between two reads of the clock or of the stop flag. `wall` moves by `Pass` in
every phase, so a scan may take any time and a sleep may end late. `wall` is
counted in an arbitrary unit.

`Retain`. The store is a row of cells: magic, format, layout hash,
`payload_len`, crc, and one cell per payload byte. `Save` writes all of them;
`TornSave(n, cut)` writes the first `n` and, with `cut`, leaves garbage in the
next; what a write does not reach keeps its old content. Writing in place from
the front is how a driver without a second buffer stores the blob. The flags byte
and the order of the fields in the header are kept only as far as the crc covers
them. `Boot` constructs every variable at its declared value and runs `unpack`:
its early returns, in their order, are `Load`. A short read zeroes its leaf
(`Seen`), a refused write skips its leaf (`Unpacked`). That a save reads a forced
variable's forced value is left out: `value` is what a reader sees.

`StdBlocks`. An instance is the record of its persistent variables; a call is a
function of it, its inputs and `TIME()`. `CURRENT_TIME` is assigned before it is
used in every call and is not part of the state. The outputs of the counters
(`Q`, `QU`, `QD`) are functions of `CV` and `PV` and are left out.

`SharedGlobal`. `Emit...` compiles a statement to the row of steps a thread
takes, and `at[t]` is the statement and step `t` is at; any other thread may come
between two steps. `Access` is the nesting code generation produces: the
subscript is rendered inside the lambda given to `with_lock`, so a subscript that
is itself shared locks its global under the outer lock; the right side of an
assignment is hoisted to `__gwv` before the target's lock is taken. A `std::mutex`
is not recursive, so a task may wait for itself. A global is a row of parts
(elements, fields, bits); a scalar is part 0. A bit is written in one of two
ways. A word inside a structure or an array belongs to a composite, whose whole
read-modify-write is under one lock (`EmitSetBit`). A `VAR_EXTERNAL` that is
itself a WORD is no composite (`codegen.ts:3354-3358`), and its bit write comes
out as `word->read() = (word->read() & ..) | ..`: two locked reads and an
assignment to a temporary (`EmitScalarBit`). `Fault` is the exception of an
index out of range: it unwinds the guards, and the task stops. What releases a
task (`Activate`) and what happens to a faulted one is the host's. The debugger's
access to `.value` past the mutex, and a read-modify-write written out in the
program as two statements, are left out. Without threads the mutexes compile out
and `ScanCycle` applies.

`MotionAxis`. A scan is `Bridge` (the program's inputs, the status read, the
control word of the scan before sent), then one action per block in the
program's order, then the drive's turn. A block is one action with one disjunct
per value of its `iState`, and each disjunct writes the bits of the shared word
that state writes. The three levels of a drive stand for ready, switched on and
operation enabled. `TON` inside the blocks counts scans, so that a timeout may
come before, with or after the drive's answer. The drive is not in the
repository: it takes each word whole, falls at once, climbs a level when it
likes, may fault at any time, and ends a motion where it should or with bit 13 of
its status, the following error of a profile and the error of a homing, which
`OpenSML_ProfilePosition` and `OpenSML_Home` leave their state 20 on and
`OpenSML_ProfileVelocity` does not. `Disciplined` is the program the library's
documentation asks for: one motion at a time, started when `MC_Power` shows
Status, and kept executed until it answers.

`Locations`. A project is a row of declarations, those of POUs before those of
configurations, as the analyser visits them. `CheckDeclaration` looks at the
next one: a claim is a range of slots of a bank, compared with the claims before
it; a clash claims nothing, a wrong type or bit number is reported and claims its
slots all the same. `EmitRows` writes the rows of what was accepted, one per
element. `Collected` are the declarations the check sees; a located CONSTANT of a
POU and a placeholder (`AT %I*`) are not among them and get rows nevertheless, a
FUNCTION's variable is and gets none.

`BlockOrder`, `TypeOrder`. The inputs are any graph. `members` and `parent` are
what the sort reads of a function block: the blocks that are the type of a
variable, and the one it extends; `NamesOrExtends` is the same, so instances
inside inline arrays are in neither. Of a type, `fields` are its references as
declared, the ones through inline arrays marked; `uses` are the names
`getTypeDependencies` makes of them, a synthetic one for an inline array;
`RefersTo`, by which the order is judged, are the types themselves, the elements
of inline arrays with them. So an inline array of a user-defined type is a
reference the search does not follow. `ElementTypes` says what inline arrays are
of, and `TypesInOrder` holds when none of it is a user-defined type.
`TakeBlock` is one turn of Kahn's loop, `AppendRest` the branch for a cycle.
`TypeOrder` has the recursion of the search as an explicit `path`. Both refine
`DefinitionOrder`, in which a definition may come before what it needs only when
it is on or behind a cycle.

`ChunkReach`. `Deps` are the dependencies a library resolved when it was
compiled, `Available` the chunks of the archives loaded now, `Follow` one turn of
the queue. The reference is the least set that holds what the program names and
is closed under what its sources name, as far as the loaded libraries go.

`Selection`. A behaviour is one call: each step folds in one argument, in the
C++ type of that step, and `Answer` is the result in the type the compiler gave
the call. Types are a sign and a level (8, 16, 32, 64 bits); the run gives the
levels 2 to 5 bits, which keeps what matters: a level is wide enough for an
unsigned one below it. Every argument has a type of its own: the rule by which
untyped literals take the type of the other arguments when those agree
(`resolveCommonTypeWith`, `type-utils.ts:826-857`) is left out.

`ForLoop`. The control variable is a cell of `IECVar` in a narrow type, so that a
force is part of the loop. `TO` and `BY` that are not constants are read once at
entry, into `endRef` and `stepRef`, and the body may assign to what they were
read from.

`Workspace`. `live` is the text in the editor, `source` the text of the last
analysis, `disk` the file; `shown[d]` the texts the published diagnostics of `d`
are about. `Debounced`, `Tokens`, `Watched` and `Reconfigured` are the callbacks
that analyse, each with what it publishes.

`RetainTable`. `todo` is what the recursive walk of `generateDebugTable` has still
to visit, depth first, each with its path and the flags handed down to it;
`AddLeaf`, `VisitBlock`, `VisitLibraryBlock` and `Skip` are the branches of
`visitTypeRef`, `EnterInstance` the flush at a program instance, `FinishTable` the
end. A member has a section and a qualifier; what a manifest tells of a library's
members is `Interface` and `Locals`. Structures, unions and arrays are blocks
whose members have no qualifier. `Section` is the choice of variable blocks each
walk makes, `Distinct` the set of names already seen. The reference takes the
project as its argument (`Chains`, `FlagsOf`, `Shown`): it goes over all chains of
members at once, the inherited ones included, by their length, and takes the
innermost of RETAIN and NON_RETAIN. Of a project `TableAssumption` says what the
front end guarantees: a scope has a name once (`symbol-table.ts:204`), the
instances are members of one generated class, and no block has an instance of
itself inside, which C++ could not lay out.

## 3. Runs

| Run | Shows | Bounds and why they are enough |
|---|---|---|
| `Scan` | no statement moves or clears a force; nothing but the image moves a constant, and only one that is located; a forced output holds in storage and image, now and eventually; an address handed out keeps showing the forced value; a marker comes back | an input, a marker, an output, a constant and a constant that is a marker, one bit each, two programs sharing the marker, requests between any two statements: every pair of writers and every order of statement, request and copy occurs, and a value has two cases, equal or different |
| `ScanNextSlot` (violation) | `%MW0` and `%MW1` overwrite each other | bytes of one bit (`ByteBits = 1`) keep words of two cells; overlap depends on cells only |
| `ScanForcedMarker` (violation) | a forced marker is not delivered | as `Scan`, requests between scans |
| `Runtime` | schedule, pacing, prompt and certain stop; a TON is at most one tick early on the wall; the retain contract, the diagnosis, the constants | runner: intervals 4 and the default 6, tick 2, five scans, time up to 10: phases of both intervals, late wake-ups and overruns of more than a tick; `PT` = 8, so the wait crosses several scans; the bound on the timer is reached, a bound of less than a tick fails. Retain: two one-byte leaves; four programs: reordered leaves, a leaf made constant, a leaf that moves more bytes; two saves, so that a cut one lies over a complete one; `LenModulus` = 3 lets a payload exceed its length field |
| `Library` | the timers' outputs equal what the history says; every count is one edge, and counts stay in range; powering and homing answer, a withdrawn Enable ends out of voltage, modes change only while not enabled | timers: five calls, clock up to 4, presets 0 and 2, so that a wait, its end, a restart and a changed preset fit in one history. Counters: integers from -2 to 2, presets at both ends and between, unbounded length. Motion: `MC_Power` called first and called last, a profile block before and after it; timeouts of two scans, so that an answer comes before, with and after them; one fault, at any time, with a cause that goes or stays |
| `TimersRetained` (violation) | a retained wait is restored in the future | the same timers, retained |
| `SharedTasks` | no deadlock, no lost bit or element, no torn copy; every activation ends | two tasks own a bit each of one word of a structure, copy elements between two arrays in opposite directions, and set and read a structure; a third faults under its lock. Two activations, so that a lock left by a fault or by the previous activation would be met again; two parts and two values, so a mixture differs from a whole. Bit writes of a scalar word are in the theorems and not in this run: they write nothing that another task could meet |
| `SharedNested` (violation) | `a[b[i]]` beside `b[a[i]]` deadlocks | one statement each |
| `SharedInOut` (violation) | a VAR_IN_OUT copy-back undoes another task's field | one statement each |
| `Toolchain` | definitions in order and complete, for blocks and for types; the chunks a program needs; one owner per slot; exact selections; loops that count as asked, and end; a retain table that has every leaf once with the flags of its declaration; diagnostics that are of the text or pending | blocks: every graph of three with members and parents, one of them allowed to name itself. Types: every graph of three in which a type refers to at most two, inline arrays of INT among them; the graphs being all, one order of the starting types stands for every order. Chunks: two libraries, one compiled with the other, three names, any distribution and references. Selection: every call of up to four arguments at the edges of their types: three make every pair of steps, the fourth follows any of these. Loops: a control variable of -3 to 3, ends inside, at and beyond the range, steps of both signs and none. Editor: two documents of two texts, so that an analysis of one can meet a stale text of the other. Located: up to three of fifteen declarations in bytes of two bits: scalars, arrays that meet, enclose or miss one another, bits across a byte, one global in two configurations, every kind of misplaced one. Table: two instances of a program with a block inside a block, each of the project, of a library or of an older one, every qualifier at each of three depths; arrays of two entries, so that one is full within an instance |
| `MixedMax` (violation) | MAX of three types is not the largest | selection only |
| `RetainExtends` (violation) | inherited members of a retained instance are neither retained nor reported | one program: a block of one member that extends another of one |

`Runtime` does not check for deadlock: the loop is meant to stop after a signal,
the bounds stop it too, and the number of saves is bounded. Nor do the three runs of
`SharedGlobal`, whose activations are bounded; `DeadlockFree` is stated as an
invariant instead. The sorts, the searches and the loops of `Toolchain`,
`MixedMax` and `RetainExtends` end.

### Fairness

`ScanCycle!Fairness` is weak fairness of copy in, end of program and copy out:
the runners' loops wait for nobody and the body of a program, which has no
unbounded wait of its own, ends. Statements, requests and inputs carry none.
`ForceReachesDriver` needs no more. `CyclicRunner!Fairness` is weak fairness of
the loop's next step and of the clock: the thread is scheduled, bodies end, and
time passes. No fairness is assumed of the signal. The `cycle` bound does not
disturb `ShutdownCompletes`: leaving the loop is not bounded.
`SharedGlobal!FairSpec` is weak fairness of each thread's next step: the
scheduler runs every thread that can run. Nothing is assumed of who gets a mutex
that is free, since `std::mutex` promises nothing; `ActivationsEnd` is checked for
a bounded number of activations and says that every one ends once the others
stop coming, not that a task cannot be overtaken for ever.
`MotionFairness` is weak fairness of the scan and strong fairness of the drive's
climbing and arriving: scans go on, and a drive that is told often enough to go
up a level, or to move, does so in the end. It is not assumed that it does so in
time, nor that a fault can be reset. `PowerAnswers` owes nothing to the drive;
`PowersDown` and `HomingEnds` end where the drive stops cooperating.
`WF(BlocksNext)`, `WF(TypesNext)` and `WF(LoopNext)` say that a computation goes
on. `WorkspaceFairness` is weak fairness of each debounce timer: timers fire.
The editor promises nothing.

### Findings

* **Two views of the image** (`ScanNextSlot`). The analyzer keeps an array of
  slots per size class and accepts `%MW0` and `%MW1`, and code generation lays
  the elements of a located array at consecutive slots; the runners copy
  `byte_size` bytes at byte `byte_index` of one flat buffer. Markers of more
  than a byte at adjacent slots come back mixed. `MarkersComeBack` proves that
  overlap is the only way.
* **Forced markers** (`ScanForcedMarker`). The comment on `force()` promises
  drivers the forced value in the raw storage; for `%M` the copy-in writes the
  raw storage past the force and the copy-out passes that on. The proofs
  establish the promise for everything that is not copied in.
* **Retained timers** (`TimersRetained`). A retained TON, TOF or TP comes back
  whole so that it is in a state it could have run into; `START_TIME` however is
  a reading of a clock that restarts at zero, and the restored wait lasts
  longer than `PT`, with a negative `ET`. `UnretainedBeganInThePast` says that only
  retention does this.
* **Nested locks** (`SharedNested`). `iec_global.hpp` says a lock is never nested
  with another global's lock; a shared subscript nests them, and two tasks that
  nest them in opposite orders stop for good. `OrderedNeverDeadlock` says that
  one order for the whole program is enough, `FlatNeverDeadlock` that the comment
  is right where no subscript is shared.
* **Fields through VAR_IN_OUT** (`SharedInOut`). Writes of different tasks to
  different fields are promised to survive; a structure passed as VAR_IN_OUT is
  copied in under one lock and copied back whole under another, and undoes what
  was written in between. `FieldWritesSurvive` says that this is the only way in
  which a task undoes what another wrote to a field, an element, or a bit of a
  word inside a composite; a bit of a scalar word is lost without another task
  (below).
* **MAX with a ULINT** (`MixedMax`). The compiler's type of a call falls back to
  the unsigned type of the widest argument, and its comment says the runtime
  does so too; `iec_minmax_result` gives a signed 64-bit type to any mixed pair
  of that width, in each step of the fold. `MAX(big, SINT#-1, USINT#0)` with a
  ULINT `big` beyond the range of LINT is 0. Without a ULINT every selection is
  exact (`SelectionsAreExact`).
* **RETAIN and EXTENDS** (`RetainExtends`). A retained instance is promised to be
  retained whole, or the build to say what is not. The walk reads the variable
  blocks of the instance's own type (`debug-table-gen.ts:724`) and not those of
  the block it extends, so inherited members come back cold beside restored ones.
  They are also missing from the debugger's table, in silence. Without EXTENDS
  the table is exact (`TableAlwaysExact`).

Other things met while modelling, which have no run. The first three are at odds with
a comment, for programs the properties above leave out or make an exception of;
each follows from reading the lines it names:

* A located CONSTANT of a configuration is overwritten by the first copy-in with
  what its image holds (`iec_located.hpp:263`). The comments on the gates that
  keep requests and restores from doing so call it "a flat contradiction of what
  CONSTANT means" (`debug_table.hpp:101`) and say that "constants come from the
  declaration" (`debug_dispatch.hpp:577`); the copies have no such gate.
  `OnlyImageMovesConstants` admits this and excludes every other way.
* A bit written to a shared global that is itself a WORD is lost, even by a single
  task: `word->read()` yields a copy, and the emitted assignment goes to it
  (`codegen.ts:3902`, `:5768`), although "different-field writes from different
  tasks all survive" (`iec_global.hpp:35`). `FieldsSurvive` makes an exception of
  it (`LosesBit`).
* A structure with a field `ARRAY[..] OF T` may be written before `T`: its list of
  dependencies has `__INLINE_ARRAY_T` (`ast-builder.ts:1807`,
  `type-registry.ts:200-207`), while the emitted member is an `Array1D<T, ..>`
  (`type-codegen.ts:337-343`) and the order is documented as one in which types
  are declared before they are used (`type-registry.ts:117-122`). Whether it
  happens depends on the order in which the types were registered. With
  `ElementTypes` of user-defined types `TypesInOrder` fails.
* `PassesAsAsked` and `LoopEnds` hold for loops whose control variable can pass
  the bound. A bound at the end of the type, a step of zero, a forced control
  variable inside the bounds, and a negative literal step of an unsigned control
  variable make a loop that does not end.
* The comment in state 10 of `opensml_home.st` (line 52) expects the drive to come
  back to operation-enabled; the block waits for that without a limit and does
  not look at `xEnable`. `HomingEnds` therefore asks for a powered axis without a
  fault.
* A program that releases a motion block before it answers can change the mode
  of an enabled drive: state 10 goes on without Execute. `ModeChangesDisabled`
  holds for `Disciplined` programs, and is proved for them (`ModesChangeDisabled`).
* The sort of function blocks does not see instances inside an inline array,
  whose type has a synthetic name (`ast-builder.ts:1807`); `BlocksInOrder` is
  about what it sees, as `TypesInOrder` is for types.
* An edit of one document does not reanalyse the others, so the diagnostics of a
  document that uses it stay those of the old text until something reanalyses
  everything; `StaleIsPending` is about a document's own text. The client watches
  no `.il` files (`server.ts:316`).
* A manifest does not tell the qualifiers of a library block's interface, nor
  NON_RETAIN; it has `readOnly` for locals (`library-manifest.ts:93`), which the
  loader does not read, so a constant local of a retained library block can be
  forced and restored. A library block without inputs and outputs is passed over,
  retained or not, without a report (`debug-table-gen.ts:671`), and one without
  locals is reported as incomplete (`:699`). `TableIsExact` takes a manifest at
  its word.
* Nothing refuses a program instance with the name of a global. If both have a
  leaf of one name, two entries of the table have one path; `TableAlwaysExact`
  therefore asks for different names (`NamesApart`).
* `MC_Halt` and `MC_Stop` write the same bit of the control word in every call,
  so the one that is called last decides (`sm3_mc_blocks.st:247`).
* Placeholders, located constants of POUs and the globals of a GVL file pass no
  location check and get rows; a FUNCTION's located variable passes one and gets
  none.

## 4. Proofs

All proofs are checked by tlapm, for every value of the constants under the
named assumptions.

| Theorem | Statement | Argument |
|---|---|---|
| `ScanCycle_proof!TypeCorrect` | `[]TypeOK` | inductive |
| `ForcedRawAlways` | `[]ForcedRawHolds` | inductive with the types: `Set` and `Assign` leave a forced cell alone, `ForceTo` writes both fields, and a variable not copied in is never poked |
| `ProgramsKeepForces` | `ForceStaysWithOperator` | per statement, from the types |
| `ConstantsAlways` | `OnlyImageMovesConstants` | constants are never forced (`ConstantsUnforced`, inductive); then step by step: statements and requests pass them over, and the copy-in changes only what has an input's or a marker's address (`OnlyCopyInMovesConstants`). Nothing is assumed of which constants are located |
| `PointersHonourForce` | `[]PointerHonoursForce` | the invariant `HandleInv` ties the field of the handle to the force state it was taken under |
| `ForcedOutputsReachDrivers` | `ForcedOutputsDelivered`, if no two rows overlap | the last writer of a cell is then the only one, and its raw value is the forced one |
| `MarkersComeBack` | `MarkersSurvive`, if no two rows overlap | invariant: between scans the image holds what was left in every marker |
| `TimedScan_proof!StopAlwaysPrompt` | `[]StopIsPrompt` | the request is recorded with the cycle; a scan starts only while running |
| `RunnerIsPaced` | `ImplementsPacing` | `PaceInv`: for every earlier scan `i`, `nextTick >= starts[i] + (cycle - i) * tick`; resetting `next_tick` to now only raises it |
| `RunsAlwaysOnSchedule` | `[]RunsOnSchedule` | between its divisors: a program has run as often as multiples of its divisor were considered; products and remainders by the lemmas at the head of the module |
| `TimersElapseInWallTime` | `ElapsesInWallTime` | while the timer waits, the next tick is at most one tick behind `began` plus the scan time waited, and the next scan is not behind at all |
| `Retain_proof!CrcAlways`, `Invariant` | the checksum cell is garbage or that of a save the next boot may find; after an uninterrupted save the blob is whole | every prefix of a write leaves the old checksum or writes the new one; a match then determines header and payload |
| `RetainImplementsContract` | `ImplementsContract` | each action maps to the contract's action of that meaning; a boot by the two invariants |
| `StaleTold`, `ConstantsAlways` | the diagnosis, the constants | from `CrcInv` and the order of `Load`; from `Unpacked` |
| `SharedGlobal_proof!TypeCorrect` | `[]TypeOK` | inductive, over the type of the emitted steps; a resting task is at its first step |
| `OrderedNeverDeadlock` | `[]DeadlockFree`, if the globals have a ranking in which subscripts go up | `Nested`: emitted code takes locks upwards, frees only what it holds and ends with none, by lemmas on concatenation, `Locked` and `Access`; `HoldInv`: a mutex is owned by the task inside its scope; the waiter for the highest global would be waited for by nobody but a waiter for a higher one |
| `FlatNeverDeadlock` | `[]DeadlockFree`, if no subscript is shared | one rank for all |
| `FieldWritesSurvive` | `[]FieldsSurvive`, if no global is its own subscript and one passed as VAR_IN_OUT has no other writer. Bit writes of scalar words may stand anywhere in the bodies and their bits are not among the parts (`LosesBit`) | who is past the lock step of a statement owns the mutex (`HoldInv`); under it a copy agrees with the global in every part but the one the statement changes (`CopyInv`); what a task meant for a part of which it is the one writer is in the copy until it is stored, and then in the global (`FieldInv`) |
| `CopiesNeverTorn` | `[]CopiesAreWhole`, if no global is its own subscript | only a whole assignment stores into a global whose fields are in step, and one at a time; while it does, the fields behind it are the new value and those before it the old one (`FillingEven`), and a reader is locked out |
| `Library_proof!CountersTypeCorrect`, `EdgesCounted` | `[]CountersTypeOK`, `OneCountPerEdge` | `Remembers`: the triggers' memories are the inputs of the last call |
| `TonFollowsItsHistory`, `TofFollowsItsHistory`, `TpFollowsItsHistory` | `[]TonFollowsHistory`, `[]TofFollowsHistory`, `[]TpFollowsHistory` | the properties look at outputs only; the invariant adds the inner state: which call the running delay started at, that `START_TIME` is that call's time, and that no call since has found the preset elapsed. A call extends every run of inputs or starts one (`RunsGrow`), and adds itself to the expiries or not (`ExpiriesGrow`). For TP the set of calls that started a pulse is unique (`StartsOf`) and grows by the present call or stays |
| `TimersTypeCorrect`, `UnretainedBeganInThePast` | `[]TimersTypeOK`; `[]BeganInThePast` without RETAIN | a start is set to the time of the call and the clock only rises |
| `ModesChangeDisabled` | `ModeChangesDisabled` | the modes in the block's copy, the word, the drive and the status are one, but for the three scans of a change: `Changed`, `InFlight`, `Taken`. Throughout, the block that asked is executed and has not answered, so that a disciplined program starts no other; operation is not enabled in the word that carries the change, since `MC_Power`, which showed Status when the block started, has not got back to its state 40, whichever is called first |
| `Definitions_proof!BlocksInvariant` | `[]BlocksInv` | `Counted`: `inDegree` is the number of blocks in `deps`, which is what the block needs less what is sorted; `Waiting`, `Ready`: the queue holds, once each, the blocks that wait for nothing and are not sorted |
| `SortedInOrder` | `BlocksInOrder`, the refinement of `DefinitionOrder` | a block taken from the queue has its needs sorted (`TakeWrites`); when the queue is empty, every block that is left waits for another one that is left, so what is left is a set no member of which can come first (`RestIsStuck`, `AppendWrites`) |
| `TypesInvariant`, `TypesKeepOrder` | `[]TypesInv`; `TypeDefinitions!Ordered`, if no inline array is of a user-defined type: every type written once, after what it refers to, unless on or behind a cycle | the invariant is about the names the search goes by (`Follows`) and needs no condition; without such arrays they are the types referred to (`SearchSeesAll`). The path is a chain of references without repetition; what a type on it refers to is visited, on the path or still to be looked at (`Explored`). A type is left when nothing is to be looked at, so what is missing of its references is on the path below, and the path from there on is a cycle |
| `ReachCorrect` | `[]ReachIsExact` | `ReachInv`: what is reachable is available (`Reached`), what has been followed has its dependencies reachable (`Followed`), and every self-contained choice holds what is reachable (`Least`) |
| `Toolchain_proof!LoopsPassAsAsked` | `[]PassesAsAsked` | `Captured`: end and step are those of entry, whatever the body assigns; `OnCourse`: the control variable is start plus passes times step, and the test keeps it where one more step is in the range of its type, so that it never wraps |
| `SelectionsAreExact` | `[]SelectionIsExact` | `SelectionInv`: the type of the fold holds the selection, and so does the type of some argument. A step's type holds what either of its arguments holds, by cases on signs and levels, unless one is unsigned of the last level; the common type holds what every argument's type does |
| `StaleAlwaysPending` | `[]StaleIsPending` | a text that is open and not the one analysed last has its timer running (`UnseenIsPending`): without it a reanalysis of everything could publish an old text with no timer left; and the server's idea of what is open is the editor's |
| `Tables_proof!SlotsAlwaysOwned` | `[]SlotsHaveOneOwner` | `Checked`: no error so far exactly if every declaration so far is where it may be and meets none before it, and then the claims are those of the declarations seen; `Rows`: a table is laid of the declarations' rows, each at the slot its declaration claims, no row from two of them. The concatenation of the rows is followed run by run |
| `TableAlwaysExact` | `[]TableIsExact`, if no block extends another (`NoParents`) and no instance has the name of a global (`NamesApart`) | `TableInv`: what is still to be visited stands for a list of chains, no two of which lead to a common one (`Walks`), and the table has what the walk is through with, that is, all that is declared and shown but for what the list leads to (`Behind`): one entry per leaf, the retained ones listed at their addresses, the array in use of the part the walk is in. A visit puts the chains one member longer in the place of a chain (`WalkStep`, by `ProjectKids` and `LibraryKids`); the flags handed down are those read off the chain (`FlagsNext`); a path has one chain (`PathsDiffer`), so that an entry is new. At the end nothing is left, and the chains the reference collects by their length are all there are, since nesting bounds the length (`ChainsAre`, `ChainIsShort`) |

The theorems are for every list of intervals, every set of tasks and bodies,
every integer range, every set of presets and history of any length, every call
order of the motion blocks, every graph of blocks and of types as far as the
condition above goes, every set of
libraries, every row of located declarations, every project of blocks nested to
any depth, every width of the integer types and every number of documents; the runs are small instances of them.

`TableInv` speaks of some list of chains and is out of TLC's reach; the run
checks what follows from it at the end of every walk.

**Assumptions.** Apart from the shape of the constants:

* `TickAssumption`: the common tick is positive and divides every interval. It
  is a fact about the recursive gcd, which TLC evaluates on the configurations
  and `MCRuntime` compares with the definition of a greatest common divisor
  up to 24.
* `OffsetAssumption`: leaves share no byte of the payload and leave none out, a
  fact about the recursive offset, evaluated by TLC on the programs of the run.
* `HashAssumption`: layouts have equal hashes only when they are equal
  (FNV-1a may collide by accident). `WidthAssumption`: two runtimes that move
  different widths for the same leaves differ in the total. The crc is ideal: it
  is the content it was computed over. `GarbageAssumption`: a cut cell is
  neither a length nor a checksum.
* `Reliable` in the contract: an uninterrupted save has to come back only when
  the payload's length fits its 16-bit field.
* `Disjoint`, in two theorems: no two rows of the table overlap.
* `BlockAssumption`: the blocks are finitely many and have different places in
  the source. `ChunkAssumption` gives the constant its type.
* `Ranking` and `Flat`, in the two deadlock theorems: conditions on the program's
  statements, the first satisfiable for any program whose subscripts follow one
  order.
* `NoSelfSubscript`, in the two theorems on values of shared globals: no access
  subscripts a global by itself. To lock a `std::mutex` twice in one thread is
  undefined in C++, so nothing can be said of such a program; the model has it
  wait for itself.
* `InOutUnshared`, in `FieldWritesSurvive`: nobody else writes a global that a
  task passes as VAR_IN_OUT. `SharedInOut` shows what happens otherwise, so the
  condition cannot be dropped.
* `~Retained`, in `UnretainedBeganInThePast` and inside the three properties of
  the timers' histories: `TimersRetained` shows that a retained timer has none
  of this.
* `MotionAssumption`: a program calls an instance of a block at most once in a
  scan. The order, and which blocks there are, is free. That the program is
  `Disciplined` is part of the specification.
* `SelectionAssumption`: each level of an integer type has at least twice the
  values of the one below, so that it holds the unsigned type below it.
* `LoopAssumption`: the control variable's range holds zero and one.
  `TimerPresetAssumption` and `LocationAssumption` give the
  constants their types, and so does `TypesAssumption`, which also keeps the
  synthetic name of an inline array apart from those of types; `WorkspaceAssumption` keeps the mark of a closed
  document apart from texts.
* `ElementTypes \cap Types = {}`, in `TypesKeepOrder`: no inline array is of a
  user-defined type. Without it the order fails (section 3).
* `TableAssumption`: what the front end and C++ guarantee of a project (section 2).
  `NoParents`, in `TableAlwaysExact`: no block extends another; `RetainExtends`
  shows that the condition cannot be dropped. `NamesApart`, in the same theorem,
  is met by every program that does not give an instance the name of a global.
  The projects of the run `Toolchain` meet both.

**Only model-checked**:

* liveness, which is out of the prover's reach: `ForceReachesDriver`,
  `ShutdownCompletes`, `ActivationsEnd`, `PowerAnswers`, `PowersDown`,
  `HomingEnds`, `EveryBlockDefined`, `LoopEnds`, `EditsAreAnalysed`, and the part
  of `TypesInOrder` that says all types are written;
* that the recursive gcd, and the offsets of the payload, are what the
  assumptions above say: induction over data.

## 5. Not modelled

The lexer, the parser and the emitted text are syntax-directed and have no
interleavings; the type rules beyond those above, strings, numeric functions
and value classes are pure case tables, each case a unit test; importers
transform text; terminal I/O, file I/O and formatting carry no state that a
property is about. Arithmetic overflow of the 64-bit nanosecond clock (292
years) is left out.

The debug transport's byte conversions, payload lengths and string leaves are
left out of `ScanCycle`; a request's payload is a value of the variable's type.
`handle_read` changes nothing and appears as `Get`.

Of the motion library, the other moves are the same profile block with other
targets; the cyclic-synchronous modes and the trajectories are real arithmetic;
the stop and axis-controller blocks are planned. Of the language server, the
queries (hover, completion, rename) read the state `Workspace` has and change
nothing. The editor client's force panel and its continuous test run depend on
the answers of a debug adapter and of the editor, which are not in this
repository. Of the libraries, archive files, most of the manifests and the slicing of
emitted text are left out; archives are written in load order, whichever of
them needs which.

## 6. Plan

Done: 1. `IECVar`, `LocatedAddress`, `ScanCycle`; 2. `ScanPacing`,
`CyclicRunner`; 3. `RetainContract`, `Retain`; 4. `StdBlocks`, `StdTimers`,
`StdCounters`, `TimedScan`; 5. `SharedGlobal`; 6. `MotionAxis`; 7. `Locations`,
`DefinitionOrder`, `BlockOrder`, `TypeOrder`, `ChunkReach`, `Selection`,
`ForLoop`; 8. `Workspace`; 9. `RetainTable`. All of
them with a state have theorems. 10. The proof of `TableIsExact`. With it every
safety property of the passing runs is a theorem.

Next, in order:

11. Forces composed with saves: `Retain` over the cells of `ScanCycle`.
12. The stop and axis-controller blocks in `MotionAxis`.
13. The test runner's resets between cases.
