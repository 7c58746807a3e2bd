------------------------------ MODULE CompileCtx ------------------------------
(***************************************************************************)
(* Interpreter::compile: the execution plan becomes a table of types, a    *)
(* blob of constants, and instructions over virtual registers.             *)
(*                                                                         *)
(* A plan step is a native function with its cells, the output first.      *)
(* Compiling it loads the present content of each cell into the register   *)
(* of that cell, as a new constant every time, then emits the operation.   *)
(* One action per operand, so that a value that cannot be compiled stops   *)
(* the compilation where the code panics.                                  *)
(*                                                                         *)
(* The parts the compiler leaves empty in every program are left out: no   *)
(* code calls define_symbol, so there are neither symbols nor dictionary.  *)
(***************************************************************************)
EXTENDS ByteFields, SequencesExt

CONSTANTS
  Kinds,       \* the kinds of value
  Size,        \* the bytes a constant of a kind takes
  Align,       \* ValueKind::align
  Element,     \* matrix kind -> kind of its elements
  Compilable,  \* the kinds compile_const is written for
  Functions,   \* native functions
  Variadic,    \* those of them emitted with emit_varop
  Sources      \* what interpreting a program leaves: a heap, a plan over its cells,
               \* and the cell of the result, 0 for none

Value == [kind : Kinds, n : Nat]

ASSUME CompileAssumption ==
  /\ Size \in [Kinds -> Nat]
  /\ Align \in [Kinds -> {1, 2, 4, 8, 16}]
  /\ DOMAIN Element \subseteq Kinds
  /\ \A k \in DOMAIN Element : Element[k] \in Kinds \ DOMAIN Element
  /\ Compilable \subseteq Kinds /\ Variadic \subseteq Functions

ASSUME SourcesAssumption ==
  \A s \in Sources :
    /\ s.heap \in Seq(Value) /\ s.plan \in Seq([fxn : Functions, cells : Seq(Nat)])
    /\ \A i \in 1..Len(s.plan) : \A j \in 1..Len(s.plan[i].cells) :
         s.plan[i].cells[j] \in 1..Len(s.heap)
    /\ s.result \in 0..Len(s.heap)

VARIABLES
  source,       \* the interpreter that is compiled
  phase,        \* "interpreting", "compiling", "compiled" or "panicked"
  at,           \* the step being compiled
  loaded,       \* the registers its operands got so far
  regOf,        \* reg_map: cell -> register
  nextReg,
  types,        \* TypeSection: the kind of entry i-1 is types[i]
  consts, blob, \* the constant table and the bytes it describes
  instrs

heap == source.heap
plan == source.plan
ctx == <<at, loaded, regOf, nextReg, types, consts, blob, instrs>>

Init ==
  /\ source \in Sources
  /\ phase = "interpreting"
  /\ at = 1 /\ loaded = <<>> /\ regOf = <<>> /\ nextReg = 0
  /\ types = <<>> /\ consts = <<>> /\ blob = <<>> /\ instrs = <<>>

-----------------------------------------------------------------------------
(* Types and constants.                                                    *)

\* Element types are entered before the matrix types that name them.
MutIntern(ts, kind) == Append(ts, kind)

Intern(ts, kind) == IF Contains(ts, kind) THEN ts ELSE Append(ts, kind)
Children(ts, kind) == IF kind \in DOMAIN Element THEN Intern(ts, Element[kind]) ELSE ts
GetOrIntern(ts, kind) == IF Contains(ts, kind) THEN ts ELSE Append(Children(ts, kind), kind)
TypeId(ts, kind) == (CHOOSE i \in 1..Len(ts) : ts[i] = kind) - 1

MutAlignUp(offset, align) == offset
AlignUp(offset, align) == ((offset + align - 1) \div align) * align

PaddedBlob(kind) == blob \o Padding(AlignUp(Len(blob), Align[kind]) - Len(blob))

Entry(kind, offset) ==
  [type |-> TypeId(GetOrIntern(types, kind), kind), align |-> Align[kind],
   offset |-> offset, length |-> Size[kind]]

CompileConst(value) ==
  /\ types' = GetOrIntern(types, value.kind)
  /\ blob' = PaddedBlob(value.kind) \o Bytes(value, Size[value.kind])
  /\ consts' = Append(consts, Entry(value.kind, Len(PaddedBlob(value.kind))))

-----------------------------------------------------------------------------
(* Steps of the plan.                                                      *)

BeginCompile ==
  /\ phase = "interpreting"
  /\ phase' = "compiling"
  /\ UNCHANGED <<source, ctx>>

Compiling == phase = "compiling" /\ at <= Len(plan)
Operands == plan[at].cells
Cell == Operands[Len(loaded) + 1]
LoadsNext == Compiling /\ Len(loaded) < Len(Operands)

MutRegisterOf(cell) == nextReg

\* alloc_register_for_ptr: the register of the cell, or the next one.
RegisterOf(cell) == IF cell \in DOMAIN regOf THEN regOf[cell] ELSE nextReg

LoadRegister ==
  /\ LoadsNext /\ heap[Cell].kind \in Compilable
  /\ CompileConst(heap[Cell])
  /\ regOf' = [c \in DOMAIN regOf \cup {Cell} |-> RegisterOf(c)]
  /\ nextReg' = IF Cell \in DOMAIN regOf THEN nextReg ELSE nextReg + 1
  /\ loaded' = Append(loaded, RegisterOf(Cell))
  /\ instrs' = Append(instrs, [op |-> "load", dst |-> RegisterOf(Cell), const |-> Len(consts)])
  /\ UNCHANGED <<source, phase, at>>

Panic ==
  /\ LoadsNext /\ heap[Cell].kind \notin Compilable
  /\ phase' = "panicked"
  /\ UNCHANGED <<source, ctx>>

EmitOp ==
  /\ Compiling /\ Len(loaded) = Len(Operands)
  /\ instrs' = Append(instrs, 
                     [op |-> IF plan[at].fxn \in Variadic THEN "varop" ELSE "op",
                      fxn |-> plan[at].fxn, regs |-> loaded])
  /\ at' = at + 1 /\ loaded' = <<>>
  /\ UNCHANGED <<source, phase, regOf, nextReg, types, consts, blob>>

EndCompile ==
  /\ phase = "compiling" /\ at > Len(plan)
  /\ phase' = "compiled"
  /\ UNCHANGED <<source, ctx>>

Compile == BeginCompile \/ LoadRegister \/ Panic \/ EmitOp \/ EndCompile
CompileSpec == Init /\ [][Compile]_<<source, phase, ctx>>

-----------------------------------------------------------------------------
(* Properties.                                                             *)

\* Every constant lies in the blob, on its alignment, with all its bytes and none of
\* another constant's: compile_const pads before it appends (context.rs:104).
ConstantsInBlob ==
  \A i \in DOMAIN consts :
    LET c == consts[i]
    IN /\ c.offset % c.align = 0 /\ c.length = Size[types[c.type + 1]]
       /\ c.length > 0 => Read(blob, c.offset, c.length).kind = types[c.type + 1]
       /\ \A j \in 1..(i - 1) : consts[j].offset + consts[j].length <= c.offset

\* A kind has one type entry, and a matrix type's element was entered before it, so the
\* id in its payload is an earlier entry (sections.rs:430, get_or_intern).
TypesWellFounded ==
  \A i, j \in DOMAIN types :
    /\ types[i] = types[j] => i = j
    /\ types[i] \in DOMAIN Element => \E k \in 1..(i - 1) : types[k] = Element[types[i]]

\* No operation reads a register that no earlier instruction loaded, and two cells never
\* share a register (context.rs:65, alloc_register_for_ptr).
RegistersLoaded ==
  /\ \A c, d \in DOMAIN regOf : regOf[c] = regOf[d] => c = d
  /\ \A i \in DOMAIN instrs : instrs[i].op # "load" =>
       \A r \in ToSet(instrs[i].regs) :
         r < nextReg /\ \E j \in 1..(i - 1) : instrs[j].op = "load" /\ instrs[j].dst = r
=============================================================================
