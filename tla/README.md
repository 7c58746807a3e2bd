# Mech in TLA+

TLA+ modules for the implementation of the Mech language in this repository: its
interpreter, the functions and state machines it runs, its matrices and sets, the bytecode
it compiles programs to, the staged build of executables, and the file system that reloads
sources while they are edited. The modules are
written from the code; where the code and its documentation disagree the modules follow
the code, and "Known divergences" below says where that is.

Source locations are relative to the repository's root; `interpreter/` stands for
`src/interpreter/src/`, `core/` for `src/core/src/`, `assign/matrix.rs` and
`access/matrix.rs` for the files of those names under `interpreter/stdlib/`.

## The system

A Mech program is a text. The parser makes a tree of it; the interpreter evaluates the
tree statement by statement. Evaluating an operation does two things: it computes the
value, and it appends to the *plan* a step that can compute it again. The values live in
shared cells (`Ref<T>`, an `Rc<RefCell<T>>`), which names and steps both point into. So
running the plan again (`step`) recomputes a program in place, and compiling a program to
bytecode means writing down its plan.

| Component | State | Operations | Talks to |
|---|---|---|---|
| **Interpreter** (`interpreter/statements.rs`, `expressions.rs`, `mechdown.rs`, `interpreter.rs`, `core/program/`) | cells, symbol table with its second table of mutable names, plan, published output | interpret, step, clear, clear_plan, compile, run_program | everything below |
| **User functions** (`interpreter/functions.rs`, `patterns.rs`) | the scope (symbol table and plan) swapped in for the duration of a call; the Rust stack | call, tail call, broadcast over a row | interpreter's state, saved and put back |
| **State machines** (`interpreter/state_machines.rs`) | definitions; state, environment and step count of a running machine | register, check coverage, run | cells and names of the program, which transitions assign |
| **Bytecode** (`core/program/compiler/`, `core/program/program.rs`, `core/stdlib.rs`) | compile context (registers, types, constants, blob, instructions); a parsed file | compile the plan, write, load, serialise again, run | plan; file system; a second interpreter |
| **Live file system** (`src/mechfs.rs`) | sources, trees, pages, directory and index behind an RwLock; a channel of file events | load a path, reload a changed file, look up | operating system's watcher; server; reload thread |
| Includes (`src/mechfs.rs`, 939-1085) | the set of files being expanded | expand a text | files |
| Server (`src/serve.rs`) | none of its own | answer a request under the read lock | live file system |
| Command line and REPL (`src/bin/mech.rs`, `src/run.rs`, `src/repl.rs`) | interpreters by number, the active one | dispatch | interpreter, file system |
| **mechc** (`src/bin/mechc.rs`) | global build data, cancel flag, channels between stages | six build stages on threads | parser, interpreter, cargo |
| **Subscripts** (`interpreter/stdlib/access/`, `assign/`, `core/stdlib.rs`, `core/structures/matrix.rs`, `machines/math/src/op_assign/`) | matrices in cells; the result of each access function | read, assign, operate on a part | plan, which keeps one function for each subscripted expression |
| **Sets** (`core/structures/set.rs`, `machines/set/`, `interpreter/structures.rs`, `expressions.rs`) | hash tables of values that share cells with variables | set library, literals, comprehensions | plan, which comprehensions also clear |
| **Concatenation** (`interpreter/structures.rs`, `stdlib/horzcat.rs`, `vertcat.rs`) | the result of each row and of the stack | join rows, stack them | plan, one function for each row and one for the stack |
| Other data structures and libraries (`core/structures/`, `interpreter/stdlib/`, `machines/`) | containers over cells | convert, arithmetic, tables | called by steps |
| Parser and formatter (`src/syntax/`), browser front end (`src/wasm/`) | none that outlives a call; the document | parse, format, render | |

What is hard in them, and what makes each one correct:

- *Interpreter.* Cells are shared and never copied, terms push their steps late while
  their subterms push at once, an expression may call a state machine that runs
  statements on the same program while the caller is half way, errors and panics leave a
  statement half done, and any part of the plan may be run again at any time. Correct means: the plan is in an order
  in which it can be run, running it again changes nothing that was not assigned,
  values change only by assignments, names are not rebound behind the program's back.
- *Functions.* Scopes nest, are replaced in place by tail calls, and must be put back on
  every way out, panics included. Correct means: locals stay local, a tail call takes no
  stack, and a call has the value its branches, read as equations, give.
- *State machines.* The search through arms and guards binds names tentatively, and
  transitions have side effects on the program that an error does not undo. Correct
  means: a machine does what its branches say, is in no state it has nothing to do in but
  by a name it was given, and does stop.
- *Bytecode.* Two writers and a reader share a layout of offsets; shared cells become
  registers loaded again and again with constants; the factory of a function and its
  `compile` are written apart. Correct means: what is loaded and run
  is what was compiled, and a file cut short is never run.
- *Subscripts.* Every combination of scalar, list, mask and `:` with every storage form
  and value has a loop of its own over a storage by columns, counting from zero or from
  one, and the loops are kept in the plan while assignments change the shapes they were
  built for. Correct means: what is read is what the subscripts select, what is written
  is selected, and the plan can be stepped afterwards.
- *Sets.* Elements change with the variables they were taken from, and a table finds an
  element by the hash it had when it was stored; equality of values depends on whether a
  value stands behind a reference. Correct means: the library computes what mathematics
  says of the values, results follow, and solving them again without an assignment
  changes nothing.
- *mechc.* Stages on threads, a channel that closes when the last sender is dropped, one
  cancel flag, a child process with two pipes, an executable written in parts. Correct
  means: the build ends, success means an executable that this build made, failure means
  none.
- *File system.* Edits, loads and reloads race; errors, early returns and panics happen
  under the write lock, which a panic poisons. Correct means: the store always answers
  from entries that belong together, no reported edit is lost, nothing goes back in time,
  the lock is given up.

## The modules

| Component | Specification | Abstract specification | Model | Proofs |
|---|---|---|---|---|
| Interpreter | `Interpreter` | | `MCInterpreter` | `InterpreterProofs` |
| Functions | `FunctionValues`, `FunctionCalls` | `Evaluation` | `MCFunctionCalls` | `FunctionCallsProofs` |
| State machines | `MachineDefinitions`, `StateMachines` | `Machine` | `MCStateMachines` | `StateMachinesProofs` |
| Bytecode | `ByteFields`, `CompileCtx`, `Bytecode`, `LoadedProgram` | | `MCBytecode` | `BytecodeProofs` |
| File system | `MechSources`, `MechFileSystem` | | `MCMechFileSystem` | `MechFileSystemProofs` |
| Subscripts, concatenation | `Matrices`, `MatrixAccess`, `MatrixAssign`, `MatrixLoops`, `Concatenation`, `MatrixPrograms` | | `MCMatrices` | `MatrixProgramsProofs` |
| Sets | `Sets`, `SetPrograms` | | `MCSets` | |
| mechc | `MechBuild` | | `MCMechBuild` | `MechBuildProofs` |

`LoadedProgram` composes the compiler (`CompileCtx`), the file format (`Bytecode`) and
the interpreter that runs a loaded program. `MechFileSystem` composes the store
(`MechSources`, pure operators) with the lock, the channel and the two threads.
`MatrixPrograms` and `SetPrograms` compose the operations on data with the plan: statements
that append functions, and the step that solves them all again.
`StateMachines` uses the same picture of values as `Interpreter`, handles on heap cells.
`BasicLemmas` has the two inductions, over the natural numbers and over finite sets, and the
facts about numbers, masks and chains of writes that the proofs share.
Operators named `Mut...` are wrong versions of the operator below them, used to see that a
property notices; no specification uses one.

### Interpreter

`heap` is the list of cells, `symbols` and `mutables` are the two maps of
`SymbolTable`, `plan` is the plan, `frames` the activations of `term` with the steps each
has not pushed yet, `stmt` and `elems` the statement and what was evaluated for it,
`mode` and `cursor` whether a program or a `step` call is running. `machines` is the stack
of the state machines being evaluated. One action is one
return of the recursive descent: `Literal`, `Variable`, `OpenTerm`, `CloseTerm`, then the
statement (`VariableDefine`, `VariableDefineKind`, `Assign`, `AddAssign`,
`TupleDestructure`, `FsmDeclare`, `Expression`, `InlineExpression`). `Fail` is where `?`
ends the program, `Panic` is `catch_unwind` in `interpret`. `StepPlan`, `SolveStep` and
`EndStep` are `step(id, count)`; `Clear` and `ClearPlan` are the two ways to start again.
A call of a machine (`CallMachine`, the pipe of an expression or of `fsm_declare`) puts
the statement aside where it stands. Until it returns (`Return`) or fails
(`MachineFails`), the machine evaluates expressions (`MachineExpression`), and its
transitions are statements and lines of code of the same program, which bind names, write
cells and append to the plan, and may call a machine again. Which transitions are taken
is left open: `StateMachines` says that, and here any are. `Env` is what its expressions
can name besides variables; an inline expression outlives the failure of what it calls
(`Survivors`), every other statement ends with it.
Numbers are taken modulo a constant and one operator stands for all. Not modelled: the
value `interpret` returns; lines of code that define functions, machines or kinds
or are comments; calls of user functions (`FunctionCalls`), subscripts and comprehensions (modules of their
own); match expressions; fenced blocks, which have an interpreter of their own.

### Functions

`stack` is the Rust stack, one frame per activation that still has work to do, `focus` is
what the innermost one is at, `scope` is the interpreter's symbol table and the length of
its plan, saved in a frame by `FunctionScope::enter` and given back by its `Drop`, on
return (`ReturnFromArm`, `CollectOutput`) as on `Unwind`. `MatchArm`, `TailCall` and
`NoArm` are the loop of `execute_user_function`, `StartBroadcast` to `BroadcastDone` the
mapping over a row. `Evaluation` says what an expression means with recursive operators
and no stack; it is used by the model only, never by a module with theorems.

### State machines

A program is a list of definitions and calls given one by one to the interpreter. `at`,
`arm`, `branch`, `todo` say how far the search and the transitions are, `env` and
`armEnv` are the two environments of `execute_fsm_pipe_impl`, `steps` is its counter.
A value is a scalar or an atom. A target written as a state is that state; a target that
is an expression (a variable of the arm, say) is its value, and an atom is the state of its
name without payload (`Entered`), which `validate_fsm_state_coverage` did not look for.
An atom can be compared and defined, and nothing assigns one.
`Machine` is the abstract machine: of the branches in source order the first that can
decide does, all at once, over values rather than cells. The refinement maps each
environment to the values its cells hold. It holds of programs in which machine and
program share no cell (`NothingIsShared`): a variable of the program is read as part of an
operation, never given as it is as an argument, entered, defined from or tested, because a
machine handed a variable's cell does not own it and a guard that is a variable is refused
(`OwnedValues` and `GuardErrorsAreNotBool` below). `MCStateMachines` checks that this is so
of every program of its run. `Kinds` to `TransitionsOf` of `MachineDefinitions` are what the
parser builds, the assumption under which the theorems hold.

### Bytecode

A byte is "the i-th byte of this number or value" (`ByteFields`), so a read at a wrong
offset gives `Garbage` and is noticed, without any arithmetic on bytes. `CompileCtx`
compiles a plan with one action for each operand (it can panic at one), the register
map, type table and blob as in the code. `Bytecode` has the two writers (`Written` is
`CompileCtx::compile`, `ToBytes` is `ParsedProgram::to_bytes`) and the reader.
`LoadedProgram` writes the file, of which any number of bytes in `Missing` may be lost,
loads it the way the file system and then `run_mech_code` do, decodes the constants,
executes the instructions, and steps the resulting plan. `Takes` says for each function
which of the operands that its `compile` emits its factory takes for which of its own, and
how many: the two are written apart and disagree for some functions of `assign/matrix.rs`
and `op_assign`. An instruction of a length that the factory does not take is refused
(`OpRefused`, `IncorrectNumberOfArguments`); one whose operands change places is built
(`AsTaken`), and stepping it reads memory of one type as another, after which nothing is
claimed (`StepMisread`). Symbols and dictionary are
empty in every compiled file (`define_symbol` has no caller) and left out.

### File system

`MechSources` is the store as a record of functions; each operation is an operator from
store to outcome and store. A text is a version and whether it parses; a tree and a page
carry the text they were made from. `MechFileSystem` adds `disk` and what an editor does
to it, `writer` and `poisoned` (the RwLock), `events` (the channel), and the threads'
places `main` and `reloader`. The code's unwraps and `todo!()`s are the steps to
`Panicked` and `Dead`, which poison the lock if it is held. A panic of the main thread ends the process.

### Subscripts

`Matrices` has the three storage forms of the default features (`DMatrix`, `RowDVector`,
`DVector`, by columns) and what a subscript evaluates to; a subscript selects a *family*
(scalar, range, mask, all, and their pairs). `MatrixAccess` says which function a read of
each family gets and what it computes; a result keeps its size when it is solved again,
except where the code resizes it (`Resized`). `MatrixAssign` is the dispatch of `x[..] = v`,
`x[..] += v` and `x = v`, to a function or to an error. `MatrixLoops` is each function's
loop, as the list of moves from a position of the value to a position of the variable in
the order they are made; `Panics` is a position outside the storage. `MatrixPrograms` has
`cells` (the variables), `plan`, and the actions `Read`, `Set`, `OpSet`, `Build` and `Step`.
Division and the fixed-size forms are left out.

`Concatenation` is the matrix literal, `[a b; c d]`. `matrix_row` and `matrix` are the two
functions of the interpreter of those names, with their checks of heights and widths;
`HorzCat` and `VertCat` are the dispatch on the number of parts and the shape of the result;
`copy_into` and `copy_into_row_major` are the two ways a part gets into a result, at an
offset that is counted as the parts are copied or was fixed when the function was built
(`at`); `Joined` does it for all parts. A literal of one matrix is that matrix's own storage
(`Shared`): the literal changes with the variable, without a step. The rows of a literal
that fails stay in the plan. Strides are unsigned, and overflow is taken to panic, as in a
debug build. The action `Build` keeps the functions of one literal, which the code pushes
one after the other, as one entry of the plan.

### Sets

A set is its table in order of insertion, each element with the hash it was stored under
(`Sets`); a number is a cell, of a variable or a constant, and `numbers` says what the
variables hold. `Has`, `Stored`, `Within` and the like are the methods of `IndexSet`, which
is not in the repository, as its uses rely on them: a lookup compares hashes except in a
table of one entry. Every function of `machines/set/` is an operator. `SetPrograms` has the
statements (`VariableDefine`, `VariableAssign`), with operands dereferenced as the dispatch
of each function does (`Deref`), comprehensions with one generator and a filter
(`SetComprehension`, `ClearPlan`), and the step, one function at a time (`Step`, `Solve`).

### mechc

`at` and `status` say where each `BuildStage` is, `cancelled` and `message` are the two
globals, `gather` and `gathered` the thread that reads the sources and what it found,
`pathTx` who holds a sender of the channel of paths, `cargo` the process with what it still
has to write and what is in its two pipes, `shim` the executable in the build directory and
`artifact` the file of the final one: none, that of an earlier build, cut short, made with
an earlier build's shim, or new. `Start`, `Return` and `End` are `BuildStage::start`, `?` and
`finish`; the others are the stages' bodies, one action for each effect another thread can
see. A cargo whose line could not be read is left running ("left") and may finish while the
next stage packages what it has or has not written (`LeftCargoExits`). A write of the
executable that fails leaves the file as it was or a part (`LeftBy`).

The body of `download_packages` is commented out in this code, so that nothing is ever sent
to `parse_packages`: its channel closes, its workers are not started, and the program that is
compiled has no statement. The model has the stage and its channel and neither workers nor
trees.

## What is checked

`tlc -config X.cfg M` for the pairs below. Each passing run finishes within minutes.

| Run | Module, configuration | Shows |
|---|---|---|
| interpreter | MCInterpreter | `PlanOrder`, `StepIdempotent`, `KindStable`, `MutationOnlyByAssignment`, `NoRebinding` over two statements of any form on two names, begun in a new interpreter or after a define, whose expressions may call a machine that runs statements, with errors, panics, steps and clears anywhere (7.3 million states) |
| immutable_by_default | MCInterpreter, InterpreterImmutableByDefault | see "Known divergences" |
| mechfs | MCMechFileSystem | `StoreConsistent`, `EditsReachStore`, `NeverBackwards` over two loads of a directory with a Mech file, a page and an image, two edits, two events on the channel at a time (3.1 million states) |
| mechfs_threads | MCMechFileSystem, MechFileSystemThreads | `LockReleased`, `EventsConsumed` with a file whose reading panics and a text added from the command line |
| functions | MCFunctionCalls | `LocalsDoNotBleed`, `TailCallsDoNotNest`, `ImplementsEvaluation`, `EvaluationEnds` over ten functions that recurse, tail-call, broadcast, shadow, fail and panic, called on a small set of arguments |
| machines | MCStateMachines | `NamedStatesHaveArms`, `ImplementsMachine`, `CallsReturn` over nine hand-written machines, one that is sent to the states named by what it is called with, and every machine of up to three arms out of ten |
| bytecode | MCBytecode | `ConstantsInBlob`, `TypesWellFounded`, `RegistersLoaded`, `WholeFilesLoad`, `FailsForCause`, `RunsWhatWasCompiled` over every program of up to three statements, among them one whose factory takes other operands than are compiled and one whose factory takes them in another order |
| bytecode_result | MCBytecode, BytecodeResult | see "Known divergences" |
| build | MCMechBuild | `SuccessIsBuilt`, `FailureLeavesNoExecutable`, `BuildEnds` over a build of two source paths, with sources, directory, compilation, cargo, its output and the writing of files failing anywhere, with or without the files of an earlier build, and a cargo that fills its error pipe or does not (2,200 states) |
| matrices | MCMatrices | `ReadsSelect` (reads hold what their subscripts select), `LiteralsJoin` (literals hold each part in its place), `AssignsOnlySelected`, `WhatIsAssignedIsRead`, `EveryOccurrenceCounts`, `FittingStatementsRun`, `StepsRunUnlessReplaced`, `StepsKeepLiterals` over every single and pair of 22 subscripts on a 2x3 matrix, a row and a column, read, assigned and operated on with values of every shape; over matrix literals of every pair of six parts in one row, in two, and in rows of up to five, and of up to six rows; then a second statement, and a step (86,000 states) |
| matrices_masked_rows | MCMatrices, MatricesMaskedRows | see "Known divergences" |
| sets | MCSets | `FunctionsAgree`, `StepsLeaveThePlanSolved`, `CollectedAreDistinct`, `SolvingAgainChangesNothing` over programs of four statements on two sets and two variables, and two steps (2.6 million states) |

Bounds, and why they are enough:

- *Interpreter*: two names and `ans`, numbers modulo 2, at most 3 cells and 4 steps,
  terms two deep, one machine at a time with one value in its environment, and two
  statements between clears, those of machines counted, begun in a new interpreter or in
  what a define leaves (`After`). Sharing needs two names on one cell
  and a cell to assign from; the order of the plan is disturbed by a term inside a term and
  by a statement inside one; a half done destructuring needs two names; a define that is
  overtaken needs itself and one statement of the machine it calls. The theorems lift the
  bounds, that on machines included.
  Names are symmetric: nothing in the interpreter tells one from another.
- *File system*: an edit, a reload and a second edit are what it takes to be stale, and
  two loads of one path to have two watchers and two adds of one file. The kinds of file
  are those with different branches; one of each branch is present over the two runs.
- *Functions*: recursion to depth three, so that an activation has one above and one
  below; rows of two elements, so that one may fail after another was computed; two
  evaluations in a row, so that what the first leaves behind is seen by the second.
  `MaxStack` is never reached by a call that ends.
- *State machines*: three arms, because a failed arm's names must be looked for from the
  arm after it, in the state after that; a limit of four, which the looping machines do
  reach. Each machine is called twice. The machine that is sent by name is called with names
  of states that have arms, that have none, and that wait to be left by another name.
- *Bytecode*: three statements give a cell used by two later steps, a constant of odd
  length before an aligned one, a matrix type before and after its element's type, and
  operations of two, three and six registers; two functions stand for those whose factory
  and `compile` differ, one in number and one in order. `Missing` cuts the file in and before its
  checksum. `Passes` steps the loaded plan twice.

- *mechc*: two source paths, so that one is read before one that fails, the second with or
  without a package file; pipes of two lines and a cargo that writes none, fewer error lines
  than the pipe holds, as many, or more, between lines of its output. `PipeSize` is the only
  bound.
- *Subscripts*: rows and columns differ in number, so that one taken for the other shows;
  two of the three columns, the same one twice, none, and one too many can be selected; and
  masks of the wrong length. Two statements are what it takes for an assignment to change
  the shape an earlier function was built for, and one step to notice.
- *Sets*: tables of none, one and two entries, for a table of one is searched without the
  hash; an element stored before its variable is assigned, and collected after; a powerset
  and a product, whose elements are sets and pairs, as operands of the last statement. Two
  steps, so that what an assignment in the plan changes is seen by the functions before it.

`CHECK_DEADLOCK FALSE` stands where the system is simply finished: after the last
evaluation, call, file, build or step, or when a panic has ended the process; and in the interpreter's
runs because the bound on cells can be reached in the middle of a statement. That
nothing waits for ever where something is still to be done is what `EvaluationEnds`,
`CallsReturn`, `EventsConsumed`, `LockReleased` and `BuildEnds` say.

Fairness. The file system's main and reload threads are two threads of the operating
system, each weakly fair as long as it can move; nobody is obliged to edit a file, and
the lock is not assumed to be fair beyond that. A function call and a state machine run
in one thread that does nothing else until they return: weak fairness of the whole of
`Work`, or `Run`. In mechc every stage and the thread that gathers sources run on their own
and cargo is a process, each weakly fair; a cargo that was left need not
finish. No fairness is assumed of the interpreter, the bytecode, subscripts and sets, of
which only safety is claimed.

Each property was also checked against a plausible mistake in the code it is about (a
guard dropped, an order reversed, an off-by-one, a reset forgotten), which makes it fail.

## What is proved

`tlapm` checks, for every value of the constants that satisfies the named assumptions:

*Interpreter* (`InterpreterProofs`, from `ConstantsAssumption` only).
`TypeCorrect`: no handle dangles, whatever was evaluated, failed, replayed or cleared.
The heart is the inductive invariant

    IInv == TypeOK /\ PlanHolds /\ PendingHolds /\ AssignKinds

`PlanHolds` says that in a plan without assignments every step already holds of the
values, its output cell is what its function computes from its arguments; `PendingHolds`
says the same of the steps that unfinished terms keep aside. Neither is inductive alone:
a pending step joins the plan when its term closes, and a new cell must not disturb an
old step, which is where the type invariant comes in (a step's cells exist, and new cells
come after them). `AssignKinds` says that both sides of an assign step are of one kind.
From `IInv`: `SteppingIsIdempotent` (running steps that hold changes nothing),
`KindsAreStable` (only assignments and their replay write, and they join cells of one
kind), `OnlyAssignmentMutates`, where the assignment may be a transition of a machine, of
machines that call one another to any depth, in the middle of any statement.

*Interpreter, order* (second part of `InterpreterProofs`, from `ConstantsAssumption` only, on top of
`TypeCorrect`). `PlanIsInOrder` is not inductive alone: a term keeps its steps aside while
terms inside it put theirs into the plan first. The strengthening is

    OrderInv == PlanOrder /\ PendingUnknown /\ DefinesNew

`PendingUnknown` says that a cell a pending step computes is known to no name, no step of
the plan, no other open term and no earlier step of its own, and is no value that a
statement put aside or a machine's environment holds, so that nothing the inner terms or the
statements of a machine append can read it; when the term closes, its value passes to the enclosing term
only as an operand. A variable that is read is a cell of the symbol table and so is no
pending one. `DefinesNew` says that a define being evaluated, whose expression has called no
machine, has a name that is still unbound, which is why the check made before the
expression still holds when the name is bound; with it `NamesKeepTheirCells` follows, that
a name is bound again only by `fsm_declare`, or by a define whose expression called a
machine. Those two do bind again ("Known divergences").

*Compiler* (first part of `BytecodeProofs`, from `CompileAssumption` and `SourcesAssumption`), of
`CompileSpec`, the compilation by itself. The invariant joins the register map (one
register for each cell, all below the counter), the operands loaded so far, the
operations emitted so far, the well-founded type table, and the constants (each in the
blob and aligned, each behind the one before). `ConstantsAreInTheBlob` follows because
the constants lie one behind the other, so that no two can overlap; its hard part is that
`AlignUp` is a multiple not below the offset, and that appending to the blob and the type
table leaves older entries true. `TypesAreWellFounded` and `RegistersAreLoaded` follow
directly.

*Bytecode* (second part of `BytecodeProofs`, from the same and `LoadedAssumption`). First
the format, of which nothing is assumed but its layout: a number or a constant is read back
from where its bytes lie one behind the other (`ReadsBack`), and so is a sequence of them
of any length (`ManyRead`, and `InstrsRead` for instructions, whose length is known only
from their first byte). `WhatIsWrittenIsRead` puts the header and the sections together: each field
says where a section begins, and the reader finds there what the writer wrote, for any
program. A file that ends early has, where its checksum would begin, a byte of a number or
of a constant (`CutNotVerified`), so that it is refused; checksums are taken not to collide.

What a loaded program does rests on

    LInv == IInv /\ CompileMatches /\ ProgramIsCompiled /\ RegistersHold /\ StepsHold /\ CellsHold ...

`CompileMatches` says, of the compiler, that the n-th operation it emitted is that of the
n-th step of the plan, over the registers of its cells, and that the constant of each load
describes the value of a cell of its register. It is needed because the loading interpreter
has no cells in common with the source: `RegistersHold` says that a register holds nothing
yet or a constant with the value of its cell, `StepsHold` that the n-th step of the loaded plan is the
n-th of the source's over such constants, and `CellsHold` that they keep the values until
the plan is stepped. `WholeFilesAreLoaded` (a file loads exactly if it is whole, and serialising it
again gives the same bytes), `FailuresHaveACause` and `WhatWasCompiledRuns` follow: the second that a run fails only over a kind that is not decoded,
a function that is not registered, or a factory that takes another number of operands than
its `compile` emits; the third that what ran is the compiled plan with the operands in the order
in which the factories take them, for whatever orders those are. Their
assumptions are what the code is built with: a kind that is decoded is one that is compiled and has
bytes (each arm of `decode_const_entries` reads at least one), a
registered function is a function, and a step that is not emitted with `emit_varop` is emitted with one of
`compile_nullop` to `compile_quadop`, an output and at most four arguments.

*mechc* (`MechBuildProofs`, from `FoundAssumption` and `CargoAssumption`).

    Inv == Types /\ StagesInOrder /\ CancelledBuildsNothing /\ PartsDone

joins the types, the order in which the stages run, what a cancelled build may still do to
the executable (cut it short, if writing it is what failed), and what the stages of a build
that is not cancelled have done. From it `TypeCorrect` (cargo's pipes stay within their
size), `FailureIsClean`, that a build which reports failure has a reason and has written no
executable, and `SuccessIsComplete`, that an executable reported as built has the shim of
this build's cargo, unless that cargo was left for a line that could not be read.

*File system* (`MechFileSystemProofs`, from `SourcesAssumption`, `ModelValuesAssumption` and
`RootsAssumption`). `SpecInv` is about the store and about what is under way:
`StoreInv` says of every file which of the store's maps agree and which of them can be
blank, and no operation of the store leaves it, failed and panicked ones included, since
the code inserts into a map only after everything that can fail; `LockOK` says who holds the
lock; `Fresh` that pages and trees are
at most as new as their source, and sources as the file; `ReportsHold` that a
reported edit was made and that someone watches the file; `FollowsInv` that each reported
edit is in the store, on the channel, in the hands of the reload thread, or has a reason
not to be. That last one is inductive only over all files at once: a load that fails half
way has added some files and watches none, and each file it has still to add may have
reports from the watcher of an earlier load. `SpecStoreConsistent`, `SpecEditsReachStore`
and `SpecNeverBackwards` follow, for any number of files, roots, loads, edits and events;
adding the files of a root is a fold over a finite set, and the facts about it are by
induction over that set.

*Functions* (`FunctionCallsProofs`, from `FunctionsAssumption` and `ArmsAssumption`).
The two properties relate activations that are apart on the stack, while a step changes the
top of it. Each is therefore stated of any stack (`Apart`, `Linked`), and proved to hold of
a frame pushed on a stack in terms of the frame and of the stack, after which a step is one
push, one pop, or one replacement. `LocalsStayLocal`: every way out of a call gives the
tables back, and the bottom activation has saved the program's own. `Linked`, for
`TailCallsKeepTheStack`, says which frame may stand on which: on an activation of match arms
only what its arms evaluate, and an activation directly on it is never of the same function
and arity, since that call was a tail call. That a tail call replaces its activation holds
of functions of match arms; one of statements has no loop to go round.

*State machines* (`StateMachinesProofs`, from `MachinesAssumption` and
`ProgramsAssumption`). `StatesHaveArms`: what the check made before the run is good for. A
target that is written as a state is one it has looked at; so a machine is in a state that
no arm is written for only by a target that is an expression and came to the atom of its
name, which also says that the state has no payload. `MachinesAreImplemented` is the
refinement: under `NothingIsShared` (see "State machines" above), every behaviour of the
search, the environments and the heap is one of `Machine`. Its parts are

- that expressions, payloads and patterns come to what `Machine` says they mean
  (`EvalDelivers`, `EvalAllDelivers`, `MatchMeans`). Payloads and patterns are evaluated
  by recursion, so these are by induction over their parts; a name in a pattern is bound by
  its first occurrence, which `Machine` says without recursion;
- `MemoryInv`: every handle is on a cell, every variable has a cell of its own, and neither
  the environments nor the state hold the cell of a variable. Without the last an
  assignment would change what the machine is bound to;
- `SearchInv`: every arm and guard passed over decides against itself in the state the
  machine is still in, and the environment of the arm being tried holds what its pattern
  binds. With it the branch that fires is the first of all that decide, which is how
  `Machine` chooses, and a machine halts when there is none;
- for each action of `StateMachines`, the step of `Machine` that it is, or the stutter.

*Subscripts and concatenation* (`MatrixProgramsProofs`, from `StatementsAssumption`: values
and literals are not empty, as `[]` builds no function; at most two subscripts, as others
are `unreachable!()`). The inductive invariant is `Sound`: each variable holds a value of
the size its shape has; each assignment in the plan is a function that its statement can
build, with its subscripts prepared; each read is one too, and has a result that solving it
again does not resize. It is needed because a function is solved on other values than
the one it was built for: which positions it moves between must follow from its name, its
prepared subscripts and the value at hand. The proofs are

- that each loop of `MatrixLoops` serves its subscripts (`AssignsServe`, `OpAssignsServe`):
  every move goes to a position that they select and, if the value fits, comes from one
  that the value has; and that each loop of `MatrixAccess` stays within its result, and
  within the variable if the subscripts are (`AccessesRead`). There is a lemma for each
  family of subscripts and the loops it may get; the loops of `Strays` are excepted, as in
  the properties ("Known divergences");
- that the two ways to copy a part, and their order, put it where it belongs (`JoinsAreSolved`, `JoinRuns`):
  a part begins behind the sum of those before it, and the result has room for all (`Spaced`). Its
  sums and copies are folds over sequences, proved by induction over their length (`SumsAre`,
  `JoinedIs`, `MovedIs`);
- that a literal which passes the checks of `matrix_row` and `matrix` is made of rows that
  fit, and a stack that fits (`MatrixFits`), so that solving it stays within its results,
  as long as its parts keep their shapes (`MatrixRuns`);
- that solving the plan keeps `Sound`, one function after the other (`SolvedPlanIs`).

From it `AssignmentsAreSelective`, `ProgramsAreTyped` and `FittingStatementsDoRun`. The last
includes that `Build`, which may panic in the model as any function may, never does.

That a step does not stop what ran needs a second invariant, `Runnable`: whole assignments
find the storage forms they were built for (`FormsFit`), and unless a statement of the plan
replaces a whole matrix, every function in it runs on the variables as they are (`AllRun`).
It holds because where a loop reads and writes depends on the shapes of its operands and not on
their elements (`LoopsAreAlike`, `AlikeReads`, `RunsOnAlike`), and because only `x = v` of a
whole matrix changes a shape (`AssignedShapes`). From it `PlansKeepRunning` and `StepsRunOn`.

That a read holds what it selects is a third invariant, `ReadsHold`, stronger than the property
in that it says of a read how it was made: the loop of each combination of subscripts copies
every element they select exactly once, to a place of its own (`ReadsAll`, by one lemma for
each loop and `PlaceIsUnique`), so that in whatever order it goes the result is the reference
(`CopiesMakeReference`). What the loop copies is fixed by the shape of the variable
(`ReadsOnAlike`), so the same holds after a step, which solves the entries from the first on:
up to the one it has come to, an entry holds what the variables are now, unless one solved since
wrote what it reads (`SolvingHolds`). From it `ReadsDoSelect`.

That stepping again leaves what literals wrote needs of each entry that assigns one that it
is where the entry puts it, or where a later entry writes (`Settled`); and during a step that
what differs from the variables at its beginning will be written by an entry still to come
(`Nears`). It is the last of several moves to an element that stays (`LastMoveStays`), and where
a literal goes depends on the shape of the variable only (`LiteralMovesAlike`); what comes
before an assignment of the whole variable does not matter. From it `LiteralsAreKept`.

Induction. The induction theorems of the library take an operator, which the provers cannot
instantiate; `BasicLemmas` restates them of a set (a set of numbers that has 0 and, with
each number, the next, has all), which they can.

Only model-checked, and why: liveness properties (fairness, and with it ENABLED, is
beyond the prover); `ImplementsEvaluation`, since `Evaluation` uses recursive operators, for
which the prover has no backend; everything about sets, whose module does the same. Of
matrices, `LiteralsJoin`, `WhatIsAssignedIsRead` and `EveryOccurrenceCounts`: they say which
move is the last to an element, in a loop that may write it twice; what is proved of these
loops is where their moves go and that the last one stays (`LastMoveStays`), not which it is. Parsing, printing and arithmetic are outside both.

## Known divergences

Three are runs of the project, whose violation TLC finds; the other configurations can be
run the same way, those named "Divergences" with `-continue`, which goes on after the
first violation.

| Configuration | What the code does | Where it says otherwise |
|---|---|---|
| InterpreterImmutableByDefault | `x := 1`, `~y := x`, `y = 2` changes `x`: `detach_variable_value` clones the handle (`interpreter/statements.rs:482`) | `README.md:32`, `docs/reference/define.mec:112` |
| InterpreterDivergences, `MutableOnlyWithTilde` | names bound by destructuring are mutable (`interpreter/statements.rs:70`) | `docs/reference/define.mec:113` |
| InterpreterDivergences, `AssignmentIsRead` | after a state machine rebinds a name that was mutable, assignments go to its old cell (`interpreter/statements.rs:475`) | `docs/reference/define.mec:35` |
| InterpreterDivergences, `DefineNeverRebinds` | `x := #F()` binds `x` again when a transition of `F` has defined it: `variable_define` looks whether the name is taken, evaluates the expression and then saves (`interpreter/statements.rs:336`, `:343`, `:460`) | "Variable already defined" (`interpreter/statements.rs:835`), `docs/reference/define.mec:111` |
| MechFileSystemDivergences, `TreesAreOfSources` | `reload_source` formats the source it is about to replace, so tree and page are an edit behind, and a text that does not parse stops all later reloads of its file (`src/mechfs.rs:410`) | comments at `src/mechfs.rs:352`, `:354` |
| MechFileSystemDivergences, `JsFilesLoad` | `read_mech_source_file` refuses js, mdoc, mpkg and m, so a directory with such a file does not finish loading (`src/mechfs.rs:872`) | comment at `src/mechfs.rs:263` |
| FunctionCallsDivergences, `TailCallsMeanCalls` | a tail call does not map over a row, the same call elsewhere does (`interpreter/functions.rs:497`) | comment at `interpreter/functions.rs:492` |
| FunctionCallsDivergences, `NamedArgumentsInAnyOrder` | arguments are bound by position whatever their names (`interpreter/functions.rs:641`) | `docs/reference/function.mec:82` |
| FunctionCallsDivergences, `StepsAreKept` | a function's steps go when its scope does (`interpreter/functions.rs:599`) | comment at `interpreter/functions.rs:184` |
| StateMachinesDivergences, `LimitMeansExceeded` | a machine that would halt after exactly the permitted number of steps is an error (`interpreter/state_machines.rs:141`) | message at `interpreter/state_machines.rs:494` |
| StateMachinesDivergences, `OwnedValues` | a machine's arguments are the cells of the caller's variables (`interpreter/state_machines.rs:98`) | comment at `interpreter/functions.rs:841` |
| StateMachinesDivergences, `EnteredStatesAreDeclared` | states are checked against the arms, the declared ones are not read (`interpreter/state_machines.rs:309`) | `docs/reference/state-machine.mec:30` |
| StateMachinesDivergences, `EnteredStatesHaveArms` | `:A(x) -> x`, where `x` is an atom, leads to the state of its name although no arm is written for it: the check takes no name from a variable (`interpreter/state_machines.rs:389`) and the transition evaluates it (`:403`) | `docs/reference/state-machine.mec:30` |
| StateMachinesDivergences, `GuardErrorsAreNotBool` | a guard that names a Bool variable of the program is "not a Bool" (`interpreter/state_machines.rs:227`) | message at `interpreter/state_machines.rs:474` |
| BytecodeResult | a loaded program's result is its last operation's output: `x := 1; y := 2; x` is 1 interpreted and 2 compiled (`interpreter/interpreter.rs:589`) | `tests/bytecode.rs:34` |
| BytecodeDivergences, `OperandsKeepTheirPlaces` | the factories of assignments to elements take the value and then the index, their `compile` emits the index and then the value (`assign/matrix.rs:61`, `:155`) | their own `compile`, `:102`, `:196` |
| BytecodeDivergences, `FactoriesTakeWhatIsEmitted` | the factory of `matrix += scalar` takes one operand more than its `compile` emits, so that a program with one compiles and does not run (`machines/math/src/op_assign/mod.rs:422`) | its own `compile`, `:467` |
| BytecodeDivergences, `StepsLikeTheSource` | stepping a loaded plan differs from stepping the plan it was compiled from, since every operand became a cell of its own (`core/stdlib.rs:33`) | |
| MechBuildDivergences, `GatheredIsBuilt` | `prepare_build` does not send the files it gathered and the body of `download_packages` is commented out, so a build succeeds for an empty program (`src/bin/mechc.rs:966`) | comment at `src/bin/mechc.rs:751` |
| MechBuildDivergences, `BuildAlwaysEnds` | cargo and the build wait for each other when cargo writes more to its error output than the pipe holds, which is read only when its output has ended (`src/bin/mechc.rs:1358`) | |
| MechBuildDivergences, `FailureIsKept` | a stage that failed because a line of cargo's could not be read is reported as completed, and the executable of an earlier build is packaged (`src/bin/mechc.rs:1359`) | |
| MatricesMaskedRows | `x[mask, :]` with two rows set gives their elements in the wrong places (`access/matrix.rs:331`) | `docs/reference/indexing.mec:64` |
| MatricesDivergences, `MasksReadByRows` | `x[mask]` with a mask of the shape of `x` gives the elements column by column, in the order of the storage, which is what `ReadsSelect` says (`access/matrix.rs:127`); the examples give them row by row | `docs/reference/indexing.mec:52` to `:55` |
| SetsDivergences, `CalledStaysInPlan` | a comprehension clears the plan of a copy of the interpreter, and the copy shares its plan with the program (`interpreter/expressions.rs:107`, `core/functions.rs:248`): what was defined before is not stepped any more | comment at `interpreter/functions.rs:190` |
| SetsDivergences, `MembershipIsOfValues` | `x ∈ {1, 2}` is false for a name `x` that holds 1, since the name is not dereferenced when the set is not behind one (`machines/set/src/membership/element_of.rs:90`) | `machines/set/docs/ops/element-of.mec` |
| SetsDivergences, `SetsAreUnique` | `s := {x, y}` holds the same number twice after `x` is assigned the value of `y`: its table keeps the hashes of before (`core/structures/set.rs:46`) | `docs/reference/set.mec:4` |
| SetsDivergences, `SetsAreImmutable` | assigning `x` changes an element of `s := {x, y}`, which holds the variable's own cell (`interpreter/structures.rs:249`) | `docs/reference/set.mec:160` |
| SetsDivergences, `OrderDoesNotMatter` | sets of sets differ by the order of the inner ones, which are hashed element by element (`core/structures/set.rs:95`): the powersets of `{1, 2}` and `{2, 1}` are not equal | `docs/reference/set.mec:42` |

Without a configuration, or with nothing in the repository that says otherwise:

- *mechc.* The executable is truncated and then written in three parts; a write that fails
  leaves a part of it where that of an earlier build was (`src/bin/mechc.rs:1627`).
  `recv().unwrap()` ends the program when the gathering of sources failed
  (`src/bin/mechc.rs:880`), and so does a `todo!()` when a package file was found.
- *File system.* An edit made while a directory is loaded, before its watcher is installed,
  is not reported (`src/mechfs.rs:314`); an event other than `Create`, `Modify` and
  `Remove` ends the reload thread (`src/mechfs.rs:60`). `EditsReachStore` and
  `EventsConsumed` say nothing of the first and the second.
- *Functions.* Arms are matched with the arguments as they were passed, the body reads them
  converted to their declared kinds (`interpreter/functions.rs:474`); `Evaluation` does the same.
- *Subscripts*, where the loops of `MatrixLoops` show it and the properties of
  `MatrixPrograms` say which families they except. `x = v` asks for the same storage form
  and not for the same shape, after which functions already in the plan may panic when
  they are stepped. `x[i] += v` with one scalar subscript assigns and does not add.
  `x[:, :]` is a `todo!()`. A matrix assigned to two lists of subscripts is transposed
  (`assign/matrix.rs:1295`, `:1323`); one assigned to `[:, list]` wraps by the rows of the
  variable (`:1580`) and to `[:, mask]` fills the columns from the left (`:1595`);
  `[list, mask]` reads row numbers as flags (`:1370`); `[mask, :]` writes the row above, or
  stops at the first (`:1704`). Operators
  on matrices of different lengths take the shorter one for `*`, and panic for `+`.
- *Sets.* `{x, 1}` is an error, since a name and a number are of two kinds; a set made of
  names contains nothing by `∈` when it is asked through a name; `insert` of an element of
  another kind than the set's, or into an empty set, gives an empty set, and so does
  `remove`; no membership of a powerset is true but by accident, as the kinds carry the
  number of elements. The generators and filters of a comprehension are not steps of its
  function: a step collects what they selected before. The complement operator is a `todo!()`.

Met while reading: `ParsedProgram::validate` has no caller, so a file
of another version is loaded like any other; the loader counts symbol entries by 12
bytes where they have 13; records, atoms, tuples, maps and enums are compiled as
constants and not decoded; `RecordAssign` and `ConvertScalarToScalar` compile and are not
registered, so `run_program` refuses them; a concatenation of scalars and rows
(`interpreter/stdlib/horzcat.rs:746`) writes all rows before all scalars; `mech build`
compiles whatever plan there is after a run that failed; `mech run` with several sources runs the first of a hash map's
(`src/run.rs`), and every command of the REPL makes a file system of its own.

## Not modelled

- *Parser and formatter* (`src/syntax/`, 9,000 lines): pure functions over text, a grammar
  rather than a system; a text parses or does not.
- *Values, kinds and the tree* (`core/value.rs`, `core/nodes.rs`, `core/types/`): the same
  few conversions case by case for each of sixteen kinds of number. The models have one or
  two kinds that stand for all, and map the arms they use.
- *Conversions, operators* (`interpreter/stdlib/convert/`, `machines/math`, `compare`,
  `logic`, `stats`): a function for each combination of storage forms; they differ in
  arithmetic and share the protocol of a plan step, which is modelled. *Concatenation*
  (`interpreter/stdlib/horzcat.rs`, `vertcat.rs`): the functions of the fixed-size forms,
  four fifths of the two files, which are not in the default features and not in the build
  described here; empty and optional elements; the compiled form.
- *Tables, records, maps, tuples, enums*, and patterns over arrays and enums: containers of
  the standard library behind a handle, joined and matched by pure functions.
- *Subscripts*: those of tables, records and maps; `/=`; the masks of `+=`, whose arms
  cannot be reached through `op_assign`. *Sets*: comprehensions with patterns, several
  generators or definitions, conversion from matrices, `compile` of the set functions.
- *Includes* (`src/mechfs.rs`, 939-1085): the recursive expansion of a text, with the files
  that are being expanded as its guard against cycles.
- *mechc*: the workers of `parse_packages` and the package that `download_packages` would
  gather, which nothing reaches in this code; the text of the shim project.
- *Server, command line, REPL*: dispatch over the parts that are modelled. The browser
  front end drives one interpreter from one thread.
- *The earlier engine* (`core/old`, `src/program`, `src/runtime`; 20,000 lines): no crate
  of the build contains it.

These are the larger part of the repository's lines, and the definitions here account for
about a seventh of them. What is left differs from what is modelled in cases
and not in behaviour: a model of it would repeat its tables, and what is to be said of
them (the sum is the sum, for each kind) is said by their tests.

## Plan

In this order; what has state that outlives a call comes first.

1. `Includes`: expansion with the set of active files, checked against "the files
   reachable without coming back", over all small graphs of files that include each other;
   then its place in `MechFileSystem` (an included file's edit does not reload the
   including one), and a request to the server as an actor.
2. Composition of `SetPrograms` and `MatrixPrograms` with `Interpreter`, whose terms and
   errors they leave out; match expressions; the value that `interpret` publishes.
3. Operators as functions of `MatrixPrograms`; tables with append and
   joins; enum, tuple and array states and nested calls in `StateMachines`.
4. Theorems: `LiteralsJoin` and `WhatIsAssignedIsRead` of `MatrixPrograms`; what a
   comprehension collects, once `Sets` is written without recursive operators.
