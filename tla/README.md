# A TLA+ verification of Eyot

Eyot is a small language whose compiler (Go, `src/src`) translates a program to
C, and for the parts that run on a GPU to OpenCL C, and links it with a runtime
(C, `src/lib/runtime`). The runtime has a garbage collector, thread-safe pipes,
workers that run on a CPU thread or on the GPU, and pipelines of workers. A
playground server (Go, `src/contrib/playground`) compiles and runs programs for
web clients.

This directory holds the TLA+ models of the parts of it whose correctness
depends on interleavings, ordering, long sequences of calls or passes that build
on each other, the TLC runs that check them on small instances and proofs, checked by TLAPS, that hold for every
value of the constants.

    tlc -config MCPipe.cfg MCPipe        model-check a module
    tlapm Pipe_proofs.tla                check the proofs of a module

`PROJECT.json` maps every definition that models code to the lines it models,
and lists the runs, the hazards and the theorems. For each property that a run
checks, the module holds a *mutant* of one definition ("Mutant of X": the change
a plausible bug would make) under which TLC finds the property violated.

## 1. Inventory

### Runtime (`src/lib/runtime`)

| component | state | operations | interacts with | what is hard | correct when |
|---|---|---|---|---|---|
| pipe (`eyot-runtime-pipes.c`) | array, sizes, `closed`, mutex, semaphore | send, receive, close | any number of threads; array comes from the collector | the semaphore is posted outside the mutex; close posts once; receive trusts the semaphore | it is a FIFO channel; whoever is woken finds a value or the end; the array is never overrun |
| CPU worker (`eyot-runtime-cpu-worker.c`) | `underway_count` with a mutex of its own, two pipes, a thread, a root reference to itself | create, send, receive, drain, finalise | callers, its thread, the collector's finaliser | the counter and the pipes change at different moments; drain counts and then waits; the finaliser may run while callers still hold the worker | results once and in order, drain returns and waits for all, the thread ends |
| pipeline (`eyot-runtime-cpu-pipeline.c`) | counter, two workers, a copying thread | send, receive, drain | both workers | the copying thread drains `lhs` exactly once, whenever it is scheduled | as for a worker |
| GPU worker (`eyot-runtime-opencl.c`) | array of batches, `activity_count`, log buffers, OpenCL reference counts | send, receive, drain | OpenCL driver, work items that print | stale entries in the batch array, two ways of counting down, buffers shared by batches | as for a worker; log lines are shown once; no reference is dropped twice |
| collector (`eyot-runtime-gc.c`) | doubly linked list of pages, root counts, table of stack pointers, statistics | alloc, realloc, remember/forget object and pointer, collect, free | all of the runtime and the generated code | unlinking while walking, blocks that move, entries of the table that are used again | nothing reachable is freed, all else is |
| vectors, strings, closures | blocks in the heap | index, resize, erase, append, range; UTF-8 conversion; partial application | collector | boundaries, self-append, moved blocks | they compute what the language says |
| entry point, `std` | the global heap | main, argument vector, wrappers of C functions | all of the above | exit while threads of workers run | |

### Compiler (`src/src`)

| component | state | operations | interacts with | what is hard | correct when |
|---|---|---|---|---|---|
| module loader (`program/`, import line of `parser/`) | `Program.Modules`, the error list, the waiting parsers | ParseRoot, GetModule, ImportLine, CheckModule | parser and checker call each other recursively | cycles, modules imported twice, errors under way | a program is accepted exactly when it should be; each module checked once, after its imports |
| tokeniser, parser | the type of the last token; stack of positions (frames), counters of where a literal or a `break` may be, the error list, scope | one method per construct, each of which finds it or not | loader, AST | a method that fails gives back what it read only where it says so; line ends end statements; a name and `{` are a literal or a name and a block | what is written is read as it is meant; what is accepted is read whole and in order |
| checker (`ast/`) | `CheckContext`: pass, GPU/CPU nesting, return types, inserted statements | four passes over each module | scopes, types, function group | each pass relies on what the one before it left in the tree | it accepts what fits and no more; the tree it leaves means what the source meant; a type that is set stays |
| scopes and types | bindings, overloads | lookup, SetVariable, CanPassToGpu | checker | CPU and GPU versions of one name; two ways round of "can be assigned" | part of the checker's |
| function group (`ast/functions.go`) | signature → location → ids | Add, MergeIn, FunctionEntries | checker, loader, C writer | one numbering, two targets | both targets dispatch a number to the same function |
| C writer (`output/cwriter`) | stack of scopes with the saved pointers | one function per construct | collector (roots), function group | which variables are roots at each point; text that a C compiler may read otherwise than the tree it was written for | every pointer in scope is a root, and none else; the effects of the C are those of the source |
| C compiler driver, command line, test command | files, processes | build, run, lint | operating system | | |

### Playground (`src/contrib/playground/main.go`)

One goroutine per request, one runner goroutine with a folder, a cache, a child
process and two reader goroutines. Hard: the folder is shared by all jobs, the
readers can be late, errors of the runner are only logged. Correct when each
client is answered about its own program.

Not in scope: examples, packaging, editor modes, the text of the documentation,
the vendored headers of OpenCL.

## 2. Modules

    Channel  <--implements--  Pipe          Pipe_proofs
    Worker   <--implements--  CpuWorker     CpuWorker_proofs
             <--implements--  Pipeline      Pipeline_proofs
             <--implements--  ClWorker      ClWorker_proofs
    GcRoots  <--extended by-- Gc            Gc_proofs
    RootScopes                              Gc_proofs (its last part)
    Types <- Ast <- Checker <- CWriter <- CMeaning \
                 <- SourceMeaning <---------------- Compiler
                 <- PlainPrograms <---------------- /
                 <- Parser <- SourceText <--------- /
    ModuleLoader              ModuleLoader_proofs
    FunctionTable             FunctionTable_proofs
    Playground                Playground_proofs
    MC*      instances for TLC

The modules stack up by what each shows of the one below. `Pipe` implements
`Channel` (proved), so `CpuWorker` uses atomic FIFO queues for its pipes.
`CpuWorker` implements `Worker` (proved), so `Pipeline` uses workers that are a
counter and a queue. `Gc` is the collector over the table of `GcRoots`: what a
collection follows is what the table holds, and what it must not free is what
the variables in scope lead to, so that a mistake of either shows. `Gc` is proved
about with its table; `RootScopes` generates the calls the table serves, and is
proved about beside it.
`Compiler` composes the parser, the checker and the C writer. It holds the tree
that is parsed against the one whose text was given, and what is written against
the meaning of the source, neither of which the code modelled has a part in.

**Channel.** What a pipe promises: values come out once in the order of the
sends, and `End` reports each close at most once, when nothing is left.

**Pipe** (`eyot-runtime-pipes.c`). A critical section is one action, since every
access is between lock and unlock: `SendAppend` is the body of `ey_pipe_send` and
`Post` the `sem_post` after it, `CloseMark` is `ey_pipe_close`, `Wait` is
`sem_wait`, `TakeValue` and `TakeEnd` are the two outcomes of the critical
section of `ey_pipe_receive`. The gap between a critical section and its
semaphore operation is where other threads run. Growing the array one slot at a
time is part of `SendAppend`; sending on a closed pipe panics.

**Worker.** What a worker promises: it takes values in and hands the results out
once and in order. It is stated once and three implementations refine it.

**CpuWorker** (`eyot-runtime-cpu-worker.c`). Callers go through the states of
`ey_cpu_worker_send`, `_receive` and `_drain`: counting and pipe operations are
separate steps. The worker thread takes, computes and returns one value at a
time and ends when its input pipe is closed; `Finalise` is the collector's
finaliser. A *setting* is chosen at the start: which callers consume, whether
the function returns nothing (no output pipe is used), and whether the collector
knows of the callers' references; local variables of worker type are not
registered as roots, so a program can have its worker finalised while it uses it.
Where it does know of them no call begins after the finaliser (`MayBegin`).

**Pipeline** (`eyot-runtime-cpu-pipeline.c`). The program's thread, the copying
thread and two workers. A send counts and puts its values in one step, a receive
takes and counts one in one step (`SendTo`, `ReceiveFrom`); that both are two in the
code is the subject of `CpuWorker`. Both workers return values. The left one always
does, as the right one has a parameter of its result's type (worker-expressions.go:497);
that a right one may return nothing, so that a drain has nowhere to store what it
receives (cpu-pipeline.c:70), is left out.

**ClWorker** (`eyot-runtime-opencl.c`, `eyot-runtime-common.h`). Each handler
holds the mutex of the worker and uses blocking transfers only, so it is one
action. Settings: made from a closure or not, used with care (no empty vector,
receive and drain only when a batch is in use) or not. The panic of
`_ey_clear_logs` when a second batch of a closure worker meets buffers that were
released (opencl.c:499) is left out: the properties make no promise about workers
made from a closure that send twice.

**GcRoots** (`eyot-runtime-gc.c:369-407`). The table of stack pointers as code
searches it: remember takes the first free entry, forget the first entry with
the address, in use or not.

**Gc** (rest of `eyot-runtime-gc.c`). The page list with both links, allocation,
reallocation that may move a page, root objects, variables that are declared and
leave their scope, and a collection that starts from the table and whose sweep
frees one page at a time.

**RootScopes** (`write-c.go`, scopes and `return`/`break`). Runs generated code:
blocks, variables at stack addresses that are used again, the table, a
collector. `features` says which constructs the program uses: `break`, a hidden
name (`shadow`), pointers inside values (`struct`), calls in the middle of a
statement that has already made or been given an object (`call`), and pointers
that no variable holds while a parameter or an iterator has them (`unheld`). Only
`let` and `const` make a variable that is remembered. The parameters of a function
and the iterator of a loop are *bound* variables: pointers in scope that are never
in the table. What the checker keeps in temporaries of its own, which are not
remembered either, is in `temporaries` until the statement ends, as is the result of
a call. The end of a block forgets several variables; the calls are one
step, as no call changes the address of an entry and a second one for the same
address finds the same entry, so that their order makes no difference (proved,
`ForgetsAddUp`). Its table is written with what `GcRoots` does in a step as a value;
that they agree is proved too (`TablesAgree`).

**Types**, **Ast** (`types.go`, `scope.go`, the node types of `ast/`). A node of
the tree is a record of its kind, a name, its children and what the checker
caches in it. The checker changes nodes in place, and two parents can share one,
so the tree is a heap: a function from ids to nodes. Ids of the source are paths,
ids that the checker makes are numbers.

**Parser** (`tokeniser.go`, `parser.go`). A text is a sequence of tokens and line
ends; `Tokenise` turns line ends into semicolons. A method of the parser is a
function from the parser before it to the one after it, which has `found` what
it looks for or not; frames, counters and the error list are part of it, so that
a failed method leaves what it leaves in the code. What is the same in many
methods has a name: `AllOf` goes on until one part is missing, which is an error;
`MoreOf` reads what commas separate; `Attempt` keeps or gives back a frame. A
frame that is not there is a panic and ends the parsing.

**SourceText**. The text of a tree: how a module is written, with the brackets that
the order of the operators needs and no others, a statement on a line. `Misread`
names what is read otherwise than it is written, with the lines that make it so.

**Checker** (`check.go`, `expressions.go`, `statements.go`, `lvalues.go`,
`worker-expressions.go`, `closure.go`, `functions.go`, `structs.go`, `tles.go`,
`module.go`). `Check(c, x, s)` is the context after node `x` was checked in scope
`s`, for each of the four passes; the statements that a pass inserts before the
current one are part of it. An error or a panic ends the work.

**CWriter** (`write-c.go`). What is written is the tree a C compiler reads in the
text: an expression has a level that says how tightly its text holds together,
so that `-` before `(a)+(b)` becomes what C makes of it.

**SourceMeaning**, **CMeaning**. What a function of the source means, from its
tree alone, and what a written one does, both as effects in groups: each call,
message and assignment with its values, its types and the conditions and loops
it is under. The order inside a group is free, as that of operands is in C.
The meaning also tells whether everything fits. `Asked(G, fits)` marks, with its
lines, what no pass of the checker looks at: a program is *right* when all of it
fits, and *right where it is looked at* when all but that does.

**PlainPrograms**. The constructs that are not written as they are meant, or are
refused or end the compiler though they should not, each with the lines that make
it so: the precise limits of the properties of `Compiler`.

**Compiler** (`program.go` innerParse and CheckModule, `check.go`). `Parse` reads the
module, if it is given as a text. `CheckPass` goes over the
module once, in the pass that is next; `Write` writes it for the GPU, where that is
needed, and then for the CPU. Each may end the compilation. What the outcome
promises is stated of the steps that reach it: `ParsedAsMeant` and
`AcceptedAsRead` of the one that parses, `VerdictFits` of the one that accepts or
refuses, `SameMeaning` of the one that writes the last target.

**ModuleLoader** (`program.go`, import line and top level loop of `parser.go`,
`errors.go`). The waiting parsers are a stack of frames; one action per way an
import line can go (cycle, already loaded, new, missing), the end of a file with
registration and check, and `GiveUp`, by which an error makes each waiting
parser return nil. The files are chosen at the start.

**FunctionTable** (`functions.go`, `closure.go`, `write-c.go` 1488-1715,
`eyot-runtime-common.h`, `eyot-runtime-closures.c`). `Define` is `Add` with the
group of the module that is checked, `CheckPartial` the size estimate of a
closure, `EndModule` the merge. `WriteTarget` writes the cases of the generated
switches, for the GPU first. `CreateClosure` and `CallClosure` work on a closure
as memory: a number, flags and arguments at offsets that each target works out
from its own tables. Types are their sizes and estimates.

**Playground** (`main.go`). Handlers, the runner step by step, the child process
and the readers. `faulty` says whether pipes and processes may fail to be
created.

## 3. Runs

All bounds are constants of the `.cfg` or of the MC module; no run changes a
definition. Counters that the code does not bound are bounded in the guards of
the actions that raise them, by constants named `Max...`.

| run | states | shows | bounds, and why they are enough |
|---|---|---|---|
| `pipe` | 50 304 | a woken receiver finds a value or the end; the array is not overrun; the pipe is a `Channel`; no receiver sleeps on while a value or the end is due | 2 senders, 2 receivers, initial size 2, 5 sends (the array grows three times), 2 closes |
| `cpu_worker` | 180 200 | the counter is what drain may wait for, always; results once and in order; drain waits for all that was sent before it; what is left for the only consumer's drain, and for the thread that is to end, becomes less | 2 callers in all settings, vectors of 2, 3 values: a send overlaps a drain and a receive |
| `pipeline` | 16 000 | the same for a pipeline; what the copying thread counted is moved on, value by value | vectors of 2, 4 values: a second vector behind a first one |
| `pipeline_drain` | violation | `DrainReturns` fails: see section 6 | 3 values |
| `gc` | 681 000 | forget releases the entry in use, whatever stale entries the table holds; the variables in scope are what a collection follows; list and statistics stay consistent, no dangling pointer, a collection is exact | 3 pages (one between two others), 2 addresses and a table that begins with 1 entry (it grows and keeps stale entries), 2 sizes, 3 pointers in blocks (the longest cycle) |
| `root_scopes` | 2.1 million | pointer variables of let and const are roots while they are in scope, and nothing else is, parameters and iterators neither; forget finds its entry; what the program can use is alive as long as each parameter has its pointer from a variable | 3 nested blocks, 1 variable, parameter or iterator each, 2 names, 1 object; no feature, each one alone, and `break`, `shadow` and `unheld` together |
| `cl_worker` | 304 000 | lines shown once; log space recovered; no panic with care; results once and in order | vectors of 2, 5 values: a partly read batch, a full one behind it, sends after a drain; 2 lines per buffer |
| `compiler` | 37 900 | what is written is read as it is meant; an accepted text is read whole and in order; what is accepted fits wherever the checker looks, and what fits there is not refused; the written C has the effects of the source; no pass changes a type that was set | 7 284 modules: a function of one construct of the language with operands of every type, or of one construct in another, in each kind of statement, for the CPU, the GPU or both, beside functions, a structure and a constant to use; operands that do not fit are among them everywhere, where the checker looks at them and where it does not. 3 298 texts: whole modules (each kind of statement, each construct) that are parsed and compiled, short functions that are only parsed (each kind of expression beside and inside each other one, and before what may be read as a part of it), damaged texts (each token of twelve short modules left out, doubled or exchanged with the next) |
| `module_loader` | 146 000 | the verdict is right; each module checked once after its imports; the recursion is bounded, comes nearer to its end with each step, and ends | 3 modules with up to 2 imports each, all 2 197 import graphs, at most one defect: cycles past and through the root, shared modules, an import given twice |
| `function_table` | 544 000 | each definition is in the groups once; a closure calls its function with its arguments on either target and fits the buffer of a kernel | 2 modules, 2 names, signatures of 0, 1 and 2 arguments, sizes of half a word, one and two; 3 definitions at any location (an overloaded function and a third with its signature), 2 closures |
| `function_numbers` | violation | a number is not the same on both targets: see section 6 | as above |
| `playground` | 30 000 | a client gets the answer to its own program; the cache is sound; each request is answered | 2 clients, 2 requests, sources of each kind |

There is one run for each component, and one more for each of two claims, of a
document and of a comment, that the code does not keep. Variants of a component,
such as a worker made from a closure, are values of a variable chosen in `Init`, so
that one run covers them all and a property says for which of them it holds.
Deadlock is not checked where the component may rest (bounded inputs are used up);
`gc` never stops and is checked for it, and so is `compiler`, where only the end of
a compilation may rest.

A property that the code only keeps under a condition states the condition, and
what happens without it is in the comment of the property and in section 6.

### Fairness

* `Pipe`: a thread inside a call is scheduled until it leaves it; *some* receiver
  that waits is woken when the semaphore is positive (POSIX does not promise it
  to each of them). No sender has to start a call.
* `CpuWorker`, `Pipeline`: background threads are scheduled and worker functions
  return; a caller goes on with a call it has begun. Nothing has to be sent or
  received and the collector need not run.
* `ModuleLoader`: one thread that never waits.
* `Playground`: goroutines are scheduled, `timeout` ends a program (main.go:129),
  the compiler ends. Strong fairness of `Receive` stands for the queue in which a
  Go channel keeps blocked senders.
* `Gc`, `RootScopes`, `ClWorker` have safety properties only, as their handlers do
  not wait; so has `Compiler`, which is one thread and goes through its passes once.

## 4. Proofs

**Pipe_proofs** (any threads, values, initial size, bounds).
`TypeCorrect`; `Accounting`: the values in the array and the closes not yet
reported are as many as the units in the semaphore and in the hands of threads
between their critical section and the semaphore. This is the inductive
invariant: `NoUnderflow` (a receiver that was woken finds a value or the close
mark) is not inductive without it, since it says nothing of the units that are
still to be posted. From it follow `NoUnderflow`, `NoOverrun`, `Fifo` (what was
received and what is in the array is what was sent) and
`PipeImplementsChannel`, step by step: `SendAppend` is a `Send`, `TakeValue` a
`Receive`, `CloseMark` a `Close`, `TakeEnd` an `End`, all others stutter.
`NobodySleepsOn` is liveness (see below): while a value or the end is due, its unit is
with the thread that will post it, in the semaphore, or with a receiver that was woken
(`DueHasUnit`, from `Accounting`), and each of the three leads on to the next.

**CpuWorker_proofs** (any callers, values, vectors, number of sends).
`UnderwayOutstanding`: the counter is the number of values that were counted up
and not yet down, wherever they are. `CpuWorkerImplementsWorker`: with
`Segment(q, s, k)`, "`q` is what follows the first `k` of `s`", the inductive
`InOrder` says that the delivered results, the output pipe, the value in the
thread and the input pipe are adjacent segments of the history of accepted values;
each step moves one boundary. `DrainsWaitForAll` needs more than the counter: a
drain that has read the counter takes that many results while other callers send,
so `DrainCovers` relates what is left to take to what was accepted when the drain
began, and `CallsKnown` says for each place in a call which values it still counts.
`DrainsAdvance` and `ThreadsAdvance`, together `WorkersAdvance`, are liveness. By the counter, the value that the
drain of the only consumer waits for is at one of five stations (`WaitsSomewhere`):
with a caller that still has to put it, in the input pipe, in the thread, in the output
pipe, or taken and not yet counted down. No step of another thread takes it away
(`AtTakeStep`), and each station leads on to the next.

**Pipeline_proofs** (any values and vectors). The same for a pipeline, whose history
runs through both workers and the batch between them (`PipelineOutstanding`,
`PipelineImplementsWorker`). The counters of the two workers are part of the
invariant (`WorkersCount`, `CallKnown`), and give `DrainFindsCounted`: what the
copying thread still waits for is there. `CopyingAdvances` is liveness: it is received,
one value after the other, and then the batch is passed on.

**ClWorker_proofs** (any batch size, log size, number of sends and drains). The
array of batches is never cleared, so the invariant speaks of the entries in use
only: each has results left and only the first was read from (`InUse`); with care
none is empty (`NoneEmpty`, without which receive could find nothing); batch *b*
begins behind the result `pos[b]` of the history, which the next one continues
(`Placed`). A send adds a place, a receive moves the first one or drops it when the
others move down, a drain ends them all. From it `ClWorkerImplementsWorker` and
`WorkerNeverPanics`. For `EveryLineShown` a line that was not shown waits behind the
last batch, which nobody has read from (`LastPumps`), and the activity count, which
receive and drain lower by different rules, is at most what is left in the unread
batches (part of `Placed`), so that it is back at zero when they are gone
(`LogsGoEarly`). That a drain, the rests of the batches behind each other
(`FlattenSeq`), is the next piece of the history is an induction over the batches.
It is done by hand: a set of numbers has a least element (`Least`, from `WFMin`), so
the first batch for which it fails is looked at (`FlattenPlaced`).

**Gc_proofs** (any pages, addresses, sizes, initial size of the table). For the
table, `TableIsExact`: the entries in use are exactly the registered addresses,
each once. Since forget ignores `in_use`, this needs the strengthening
`NoStaleBefore`: no free entry with a stale address precedes the entry in use for
it, which the first-free rule of remember keeps true. `ForgetNeverPanics` follows,
and `HeapTableIsExact` says the same of the table inside the collector.
For the heap, `HeapStaysSound`: the page list and its links, the statistics and the
owner of each page agree, and no pointer dangles; `CollectionsAreExact`: a
collection frees what is not reachable and nothing else. The links alone are not
inductive: a page that was lost from the list, or one that is its own neighbour,
would satisfy them. The proof gives each page of the list a rank, which grows along
the list (`InSequence`) and divides it, during a sweep, into what was swept and what
was not (`Swept`). While the sweep runs, what is marked is what is reachable, and
taking an unreachable page away leaves what is reachable as it was. `Reachable` is
defined as the least set that contains the roots and is closed under pointers, so
that its facts need no induction; so are the sums of sizes, as cardinalities.
For the generated code (`RootScopes`, whose names are chosen so that both can be
extended), `PointersAreRoots`, `ForgetsWhatIsRemembered` and `VariablesStayAlive`, under
the properties' conditions on what the program uses and for any names, objects,
nesting and number of variables and parameters. Code forgets by name what it remembered by address. That the two agree is `AddressesMeant`:
in the innermost block, and everywhere if no name is hidden (`NoHiding`), a name means
the variable of the block that saved it; without variables of other types
and iterators (`VariableKinds`) it means at least one that was remembered. A parameter
is not: that its object is alive follows from `Lent`, which says that a variable further
out, remembered and not assigned while the function runs, holds it. A return forgets before
it leaves, so that the invariant speaks of the variables that are still to be rooted
(`RootedNow`) where the properties say nothing of the time between. Each entry in use
is the first with its address (`OnlyThoseRooted`): remember takes the first free
entry, so that all before it are in use, and without break for other variables.

**ModuleLoader_proofs** (any modules, any import relation). `RecursionIsBounded`:
the parser at depth *i* passes down exactly *i* - 1 ids (`Nested`), so the depth is
at most one more than the number of modules. `ModulesCheckedInOrder`: a module
is checked once, after its imports. The hard case is the root, whose id is not
passed down, so that an import cycle makes a second parser of it. If it reached
the end of the file, the root would be registered and checked twice. The
invariant `SecondRootBehind` says that it stays at or before the import at which
the first one waits, and `SecondRootStops` that it does not get past it: the
module of that import is being parsed. `VerdictIsExact`: a program is accepted
exactly when no module that it needs is missing, wrong or imports itself. For the
one direction every module loaded is needed and every error is one of a module on
the way (`LoadedAreNeeded`, `OnTheWay`, `ErrorsAreReal`); for the other what is
loaded, at the end with the root (`RootIsLast`), is closed under imports. What is
needed is the least set closed under imports. `LoadingNeverTurnsBack`: every step makes
the pair of the set of modules and the stack of parsers larger, within the bound of
`RecursionIsBounded`, or is one of the way down after an error. Modules, nesting and the
imports of a file are finite, so nothing can rise for ever; that loading therefore ends is `LoadingEnds`.

**FunctionTable_proofs** (any modules and signatures, any number of definitions).
`EachDefinitionOnce`: the groups of the program and of the module hold every
accepted definition exactly once, and a function has one signature. `Add` looks
for an id among the functions of its module only; what makes that enough is the
invariant that the context holds functions of the module that is checked and the
program those of earlier ones (`CtxOfModule`, `ProgramOfEarlier`).
`ClosuresCallTheirFunction` and `ClosuresFit` rest on a second invariant, `CInv`: the
tables that are written are those of the finished program (`TablesWritten`), a
closure was made from a case of the CPU and nothing changed since (`ClosureMade`),
and the sizes kept so far cover every partial application (`SizesCover`). Three facts
about data complete the argument. The entries of a group are exactly its definitions
(`EntriesSpec`); since the C compilers refuse a name twice, the case of the closure is
also the only one with its number on the target (`SameCase`). The places of two
arguments with a size differ and lie inside the closure (`PlacesDiffer`). A sum whose
parts are smaller is smaller (`SumsCompare`), so that the estimate covers the bytes.
Sums and joined sequences are recursive functions; what is shown of them goes by a
least counterexample (`UpTo`, stated with a set where induction has a predicate).
Both theorems have the conditions of the properties: the first function of the
signature is for the target, a function of a kernel is one definition for both, and
no estimate is below the stepped size.

**Playground_proofs** (any clients, requests and sources). `ResponsesAreOwn`: each
client is answered about its own program; `CacheStaysSound`: what is cached for a
source is what it compiles to. The folder and the child process are shared by all
jobs, so the invariant says that a client waits exactly when its job is queued or
run (`JobWaits`), that the folder is of the job that is run (`FolderIsOfJob`) from
the moment it is written until the answer, and that a cached source compiles
(`CachedCompiles`). `JobsGoOn`: a job that was received never waits for nobody.
`RequestsAreAnswered` is liveness, along the places of the runner: each leads to a
later one, the last to the answer, and a queued request to its reception.

The assumptions are those of the constants, named `...Assumption` in the modules;
TLC evaluates them in the runs.

### Liveness

The liveness theorems (`NobodySleepsOn`, `WorkersAdvance`, `CopyingAdvances`,
`RequestsAreAnswered`) have the same shape. A value passes through
stations; for each station a lemma says that every step stays there or leads to a later
one (for any values of the constants, from the inductive invariant), and that the step
which is scheduled fairly leads to a later one. The temporal prover joins the lemmas by
the definition of weak fairness.

Two things are hypotheses of these theorems and not conclusions.

* That the fair step is *possible* at each station: `ENABLED` of an action cannot be
  computed by the prover. It is a formula with a name (`CallsGoOn`,
  `StepsAreEnabled`, `GoingOnIsEnabled`) that is read off the guards: it says no more
  than that they leave out no case, so that no run lists it as a property. Nothing of
  the kind is assumed when TLC checks the liveness properties themselves, and each
  formula can be given to TLC as an invariant of the run of its module, where it holds.
* Fairness. Where it is stated for each thread of a set, the hypothesis is
  `[]Fairness`: what is fair stays fair (weak and strong fairness say the same of every
  suffix of a behaviour), but the prover does not see that through the quantifier.

The properties are stated value by value: `WorkerAdvances` says for each number *k* of
receives that are left to a drain that they become fewer, or the drain returns, and the
same of the values before a thread that is to end. That a drain with any number of
receives returns is an induction over *k* whose statement is temporal, which the prover
has no rule for; it is its step that is stated, proved and checked by TLC.

Only model-checked:

* the compiler, whose operators go down trees by recursion (`RECURSIVE` is out of the
  prover's reach);
* `LoadingEnds`, which follows from `LoadingProgresses` by induction along an order;
* the liveness properties without the hypotheses about `ENABLED` that their theorems have.

## 5. What is not modelled

* The order of a C compiler, of Go's HTTP server and of the OpenCL driver are
  taken as they are documented; driver errors end the program.
* Memory models: all shared accesses of the modelled code are under a mutex, a
  semaphore or a channel, so the interleaving semantics is the right one. The
  log buffers shared by GPU work groups (common.h:285) are the exception and are
  not modelled.
* Exit: `main` frees the heap while threads of workers may run.
* More than one thread that uses the heap in `Gc`: each operation holds the mutex
  of the region from start to end, so that they are atomic for each other, but a
  collection started by one thread sees the roots of all.
* In the checker: imported modules and builtin ones are not bound, so that no
  identifier has a module before it; positions and the wording of errors.
* In the C writer: the execution context that each call passes on, layout,
  headers and the pool of strings; rooting is in `RootScopes`, the tables of
  functions are in `FunctionTable`, so that the functions of `Compiler` call by name.
* Every function with a result ends with a return in the modules of `compiler`: an
  `if` without `else` counts as one (functions.go:379) and what C does after it is
  undefined.
* The modules of `compiler` have only trees that the parser makes: `&` is one that
  only the checker makes, tuples stand on the right of an assignment and after
  `return`, and closures are made by `partial`.
* After the first error in a module the code goes on to check its first element in
  the passes that follow, and may log more errors or panic; the model ends there. In
  a single check it does go on where the code does so on purpose to the next line
  and panics (`CheckReturn`, `IterateOver`, `CallCheck`).
* The order of the operands in C, which C leaves open: effects of one group are
  compared as a bag.
* The characters that make a token: a text is given as tokens. Import lines are in
  `ModuleLoader`; names of other modules (`m::x`), `export` beyond its token, and the
  locations that statements and errors carry are left out.
* Strings and vectors: see the plan.

## 6. What the models show about the code

* **A drain of a pipeline need not return** (`pipeline_drain`). The copying thread
  drains `lhs` once. When it is scheduled between the sends of two values, or
  before the first one, the rest stays in `lhs` and the drain waits for ever, where
  workers.md:41 says "If you want to wait for all data to be processed, you can
  drain". `CopyAdvances` says what does hold: what the thread counted is moved.
* A worker drained by two callers at once can make one of them wait for ever, as
  each counts the same values (cpu-worker.c:68). `WorkerAdvances` is stated for a
  worker with one consumer.
* A void worker does not close its output pipe (cpu-worker.c:121).
* Rooting (`RootScopes`): `break` leaves the pointers of the blocks it leaves
  registered (write-c.go:719); `return` past a hidden pointer name forgets the
  wrong address, or panics (write-c.go:101, gc.c:406); pointers inside values
  are not roots (write-c.go:619); the operand of `return` is evaluated when the
  function has no roots left (write-c.go:853). Parameters are not roots either
  (write-c.go:1182), and live on what the caller's variables hold: a collection in
  `f` takes away the argument of `f(new x)`, and what a parameter is assigned. Nor are
  iterators (write-c.go:764) and the temporaries of the checker (expressions.go:1264,
  closure.go:97, worker-expressions.go:409): in `s(new x, f())` a collection in `f`
  takes the new object away.
* GPU workers (`ClWorker`): `receive` lowers `activity_count` per batch and
  `drain` per result (opencl.c:548); buffers created once per worker are released
  with each batch of a worker made from a closure (opencl.c:305); `receive`
  without a batch in use reads the entry of an old one (opencl.c:542).
* The import of the root by one of its imports is found only when the root is
  parsed a second time (program.go:126), which the proof shows to be harmless.
* Functions (`FunctionTable`): a function with a CPU and a GPU definition has two
  numbers (functions.go:216) where the comment says "same on c/gpu. This must be
  consistent or bugs arise in the closures" (`function_numbers`). Whether a
  switch has a call for a function is asked of the first function with the same
  signature (write-c.go:1558, 1677): after a `cpu` function, others with its
  signature cannot be called through closures on the GPU, after a `gpu` function
  not on the CPU. The buffer of a kernel is too small for closures of 32 bit
  floats (types.go:408), and there is no estimate, but a panic, for pointers,
  strings, vectors, closures and workers (types.go:437).
* The parser (`Parser`; the conditions are the operators of `SourceText`).
  - The condition of an `elseif` is read as any other expression (parser.go:1732),
    where `if`, `while` and `for` lower a counter: after `elseif b` the block is read
    as the literal of a structure `b`, and refused.
  - A `receive` that is not closed gives back a frame that it has already accepted
    (parser.go:1092), and the parser panics at the end of its frames.
  - The second worker of a `pipeline` may go on with the first (:1060), and a line
    that ends with `null`, `]` or `return` goes on with the next one
    (tokeniser.go:149), so that `return` takes an expression that follows it.
  - The token that waits for a semicolon does not become the last one
    (tokeniser.go:356): a line of one token is ended as the line before it was.
* What the checker does not look at (`Asked` in `SourceMeaning`). Such a program is
  accepted and goes wrong in the C compiler, or later.
  - The condition of a `while` (statements.go:261), though that of an `if` is
    looked at and docs/control-flow.md:31 calls the two similar; what a
    variable is modified by, and with which operator (:479); and a vector that is sent
    may have numbers of another type (:359).
  - The names and types of the fields of a literal (expressions.go:282), the parts
    of a tuple (:352) and of one that is put where another is expected (types.go:277),
    the index of an element that is set (lvalues.go:176).
  - What an operator is for: only that its operands are alike (expressions.go:502).
  - The arguments of a structure's method, and any of `length` (:828, :848, :970);
    those of a partial application (closure.go:84). A closure may be called with a
    number of another type (expressions.go:1090).
  - Where a function runs, when one of the GPU is called (:1204), when a worker on
    the other target runs it (worker-expressions.go:80) or it is applied partially.
  - A method that is not called has a type (:392) that cannot be written
    (write-c.go:973): docs/structs.md:32 keeps one in a variable, which ends the
    compiler.
* The compiler (`Compiler`; the conditions are the operators of `PlainPrograms`).
  - What a partial application is given is checked after its variable was declared
    (closure.go:84), so that a variable of any type is kept as an integer; its size
    is asked of types that have none (types.go:437).
  - `null` is refused, or ends the compiler, where types are compared with their
    sides exchanged: returned, cast and in a vector (statements.go:292,
    expressions.go:57, :1401). Two `null` that are compared end it (types.go:339).
  - A literal of 32 bits is written as one of 64 (write-c.go:259), which C computes
    with as such.
  - A prefix operator or a cast is written without parentheses around its operand
    (write-c.go:310), so that `-(a+b)` is computed as `-a+b`.
  - What is put before a statement is put there once: a closure called in the
    condition of a loop is called before the loop only, one on the right of `&&`
    always (check.go:211).
  - The receiver of a method and the arguments of `erase` and `resize` are checked
    twice in the pass that inserts, so that what they insert happens twice
    (expressions.go:791, :893); the arguments of a closure after it was called for
    them (:1096).
  - The worker of a send or a receive is written twice (write-c.go:866,
    worker-expressions.go:366): `receive(worker cpu f())` makes two.
  - Nothing is inserted that calls a closure without a result (expressions.go:1119);
    the modules of `compiler` call none.
  - `return *p` or `return receive(w)` makes the compiler panic (statements.go:288).
  - A method is given the address of its receiver even when that has no place
    (:811), as the result of a call.
* Playground: errors of `RemoveAll`, `MkdirAll`, `WriteFile` and `Chdir` are ignored
  (main.go:92-100), and the model always writes the folder. `Run` returns without an answer on six errors (main.go:105 ff.), and
  the request then waits for ever.

## 7. Plan

In this order; each is a module with a run of its own or joins a run that there
is, with its properties replacing shallower ones.

1. **Data** (vectors, strings): erase, append, range and UTF-8 conversion against
   reference definitions over bounded inputs, with fixed-width integers.
2. **Composition** of `Gc` and `CpuWorker`: the finaliser and the send in opposite
   lock order, the exit of main.
3. **GpuLog**: work items of two groups on one log buffer.
4. **Imports** in the compiler: two modules through `ModuleLoader` and `Compiler`.

Theorems worth proving next: with item 2, that what a pipe holds outlives a collection
in another thread; with item 1, that erase and append keep the elements they should.
