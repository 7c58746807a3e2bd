----------------------------- MODULE LoadedProgram -----------------------------
(***************************************************************************)
(* A program compiled by one interpreter and run by another: mech build    *)
(* compiles the plan and writes output.mecb, run_program of a fresh        *)
(* interpreter loads the file, executes its instructions one by one and    *)
(* leaves a plan that can be stepped.                                      *)
(*                                                                         *)
(* Running an instruction builds the native function over the registers    *)
(* and publishes its output; it does not solve it.  The file may end       *)
(* early: mech build creates it before it writes it.                       *)
(***************************************************************************)
EXTENDS CompileCtx, Bytecode

CONSTANTS
  Decodable,   \* the kinds decode_const_entries is written for
  Registered,  \* functions the loading interpreter finds by the hash of their name
  Takes,       \* which register, by position, a function's factory takes for its j-th
  Solved(_, _),\* what a function leaves in its output, given the values of its cells
  Missing,     \* how many bytes of the file are lost
  Passes       \* how often the loaded plan is stepped

\* Every constant that is decoded has bytes; an operation has an output, and at most
\* five registers unless it is emitted with emit_varop.  A factory takes the first for
\* the output.
ASSUME LoadedAssumption ==
  /\ Decodable \subseteq Compilable /\ Registered \subseteq Functions
  /\ \A k \in Decodable : Size[k] > 0
  /\ \A s \in Sources : \A i \in 1..Len(s.plan) :
       /\ s.plan[i].cells # <<>>
       /\ s.plan[i].fxn \notin Variadic => Len(s.plan[i].cells) <= 5
  /\ \A f \in Functions \ Variadic :
       /\ Takes[f] \in Seq(Nat) /\ Takes[f] # <<>> /\ Takes[f][1] = 1
       /\ \A j \in 1..Len(Takes[f]) : Takes[f][j] \in 1..Len(Takes[f])
  /\ Missing \subseteq Nat /\ Passes \in Nat

VARIABLES
  missing,     \* the bytes the file lacks at its end
  program,     \* the ParsedProgram
  cells,       \* the values behind the constants of the loading interpreter
  registers,   \* register -> constant, -1 where Value::Empty
  ip,
  steps,       \* its plan
  out,         \* the constant it returns, -1 before there is one
  passes

loading == <<missing, program, cells, registers, ip, steps, out, passes>>
vars == <<source, phase, ctx, loading>>

Empty == -1

LoadedInit ==
  /\ Init
  /\ missing = 0 /\ program = Refused /\ cells = <<>> /\ registers = <<>>
  /\ ip = 0 /\ steps = <<>> /\ out = Empty /\ passes = 0

-----------------------------------------------------------------------------
(* The file.                                                               *)

\* A matrix type's payload names its element type.
TypeEntry(kind) ==
  [kind |-> kind,
   element |-> IF kind \in DOMAIN Element THEN <<TypeId(types, Element[kind])>> ELSE <<>>]

\* One feature for each kind of constant and each function; their order is not fixed.
Features == SetToSeq({types[c.type + 1] : c \in ToSet(consts)} \cup {plan[i].fxn : i \in DOMAIN plan})

Compiled ==
  [features |-> Features, types |-> [i \in DOMAIN types |-> TypeEntry(types[i])],
   consts |-> consts, blob |-> blob, instrs |-> instrs]

WriteFile ==
  /\ phase = "compiled"
  /\ missing' \in Missing
  /\ phase' = "written"
  /\ UNCHANGED <<source, ctx, program, cells, registers, ip, steps, out, passes>>

File == LET bytes == Written(Compiled, nextReg) IN SubSeq(bytes, 1, Len(bytes) - missing)

\* The file system loads the file and keeps the program as bytes again, which
\* run_mech_code loads in turn.
Load ==
  /\ phase = "written"
  /\ LET kept == Loaded(File)
         run == IF kept.ok THEN Loaded(ToBytes(kept.program)) ELSE Refused
     IN IF run.ok THEN phase' = "loaded" /\ program' = run.program
        ELSE phase' = "refused" /\ program' = program
  /\ UNCHANGED <<source, ctx, missing, cells, registers, ip, steps, out, passes>>

-----------------------------------------------------------------------------
(* run_program.                                                            *)

KindOf(c) == program.types[c.type + 1].kind

DecodedAlright(c) ==
  /\ c.offset + c.length <= Len(program.blob)
  /\ c.align # 0 /\ c.offset % c.align = 0
  /\ KindOf(c) \in Decodable /\ c.length = Size[KindOf(c)]

\* Every constant becomes a value of its own.
Decode(c) == Read(program.blob, c.offset, c.length)

BeginRun ==
  /\ phase = "loaded"
  /\ ip' = 1
  /\ registers' = [r \in 1..program.header.reg_count |-> Empty]
  /\ IF \A c \in ToSet(program.consts) : DecodedAlright(c)
       THEN phase' = "running" /\ cells' = [i \in DOMAIN program.consts |-> Decode(program.consts[i])]
       ELSE phase' = "failed" /\ cells' = cells
  /\ UNCHANGED <<source, ctx, missing, program, steps, out, passes>>

Running == phase = "running" /\ ip <= Len(program.instrs)
Instr == program.instrs[ip]

Register == Instr.const

ConstLoaded ==
  /\ Running /\ Instr.op = "load"
  /\ registers' = [registers EXCEPT ![Instr.dst + 1] = Register]
  /\ ip' = ip + 1
  /\ UNCHANGED <<source, phase, ctx, missing, program, cells, steps, out, passes>>

\* The output register comes first; a register stands for the cell of its constant.
Arguments == [i \in DOMAIN Instr.regs |-> registers[Instr.regs[i] + 1] + 1]
MutFunctionArgs == Tail(Arguments) \o <<Head(Arguments)>>

\* A factory takes FunctionArgs of one length; a variadic one takes any number, in order.
Accepted(fxn, n) == fxn \notin Variadic => Len(Takes[fxn]) = n
AsTaken(fxn, operands) ==
  IF fxn \in Variadic THEN operands
  ELSE [j \in DOMAIN operands |-> operands[Takes[fxn][j]]]

FunctionArgs == AsTaken(Instr.fxn, Arguments)

\* fxn_factory(...)? over an instruction that it accepts.
OpBuilt ==
  /\ Running /\ Instr.op # "load" /\ Instr.fxn \in Registered
  /\ Accepted(Instr.fxn, Len(Instr.regs))
  /\ steps' = Append(steps, [fxn |-> Instr.fxn, cells |-> FunctionArgs])
  /\ out' = Head(FunctionArgs)
  /\ ip' = ip + 1
  /\ UNCHANGED <<source, phase, ctx, missing, program, cells, registers, passes>>

OpUnknown ==
  /\ Running /\ Instr.op # "load" /\ Instr.fxn \notin Registered
  /\ phase' = "failed"
  /\ UNCHANGED <<source, ctx, loading>>

\* IncorrectNumberOfArguments: compile emitted an instruction of another length.
OpRefused ==
  /\ Running /\ Instr.op # "load" /\ Instr.fxn \in Registered
  /\ ~Accepted(Instr.fxn, Len(Instr.regs))
  /\ phase' = "failed"
  /\ UNCHANGED <<source, ctx, loading>>

EndRun ==
  /\ phase = "running" /\ ip > Len(program.instrs)
  /\ phase' = "ran"
  /\ UNCHANGED <<source, ctx, loading>>

-----------------------------------------------------------------------------
(* Interpreter::step(0, 1).                                                *)

Values(values, step) == [i \in DOMAIN step.cells |-> values[step.cells[i]]]
Solve(values, step) == [values EXCEPT ![step.cells[1]] = Solved(step.fxn, Values(values, step))]
Pass(values, todo) == FoldLeft(Solve, values, todo)

\* The factory takes the operands in the order in which compile emits them.
InOrder(fxn) == fxn \notin Variadic => \A j \in DOMAIN Takes[fxn] : Takes[fxn][j] = j

Step ==
  /\ phase = "ran" /\ passes < Passes /\ steps # <<>>
  /\ \A i \in DOMAIN steps : InOrder(steps[i].fxn)
  /\ cells' = Pass(cells, steps)
  /\ passes' = passes + 1
  /\ UNCHANGED <<source, phase, ctx, missing, program, registers, ip, steps, out>>

\* A step that took an index for a value of the matrix and a value for an index reads
\* memory of one type as another (as_unchecked): what it does is undefined.
StepMisread ==
  /\ phase = "ran" /\ passes < Passes
  /\ \E i \in DOMAIN steps : ~InOrder(steps[i].fxn)
  /\ phase' = "undefined"
  /\ UNCHANGED <<source, ctx, loading>>

Next ==
  \/ Compile /\ UNCHANGED loading
  \/ WriteFile \/ Load \/ BeginRun \/ ConstLoaded \/ OpBuilt \/ OpUnknown
  \/ OpRefused \/ EndRun \/ Step \/ StepMisread

Spec == LoadedInit /\ [][Next]_vars

-----------------------------------------------------------------------------
(* Properties.                                                             *)

\* A file is loaded exactly if it is whole, and the bytes kept of it are the file again
\* (mechfs.rs:794, program.to_bytes).
WholeFilesLoad ==
  /\ phase = "refused" => missing > 0
  /\ phase = "loaded" => missing = 0 /\ ToBytes(program) = File

\* A program fails to run only over a kind that decode_const_entries has no arm for, a
\* function nobody registered or one whose factory takes another number of operands than
\* compile emits for it, never over bounds, alignment or an index.
FailsForCause ==
  phase = "failed" =>
    \/ \E c \in ToSet(consts) : types[c.type + 1] \notin Decodable
    \/ \E i \in DOMAIN plan : \/ plan[i].fxn \notin Registered
                             \/ ~Accepted(plan[i].fxn, Len(plan[i].cells))

\* What ran is the plan that was compiled: the same functions, in order, each over cells
\* that hold what the compiled ones held, in the order in which its factory takes them
\* (for most functions the order in which compile emits them; not for the assignments to
\* elements of assign/matrix.rs:61), and the result is the last step's output.
RunsWhatWasCompiled ==
  phase = "ran" /\ passes = 0 =>
    /\ Len(steps) = Len(plan)
    /\ \A i \in DOMAIN plan :
         /\ steps[i].fxn = plan[i].fxn
         /\ Values(cells, steps[i]) = AsTaken(plan[i].fxn, Values(heap, plan[i]))
    /\ plan # <<>> => cells[out] = heap[plan[Len(plan)].cells[1]]
=============================================================================
