---------------------------- MODULE Interpreter ----------------------------
(***************************************************************************)
(* One Mech interpreter: its symbol table, its execution plan and the      *)
(* shared value cells both point into.                                     *)
(*                                                                         *)
(* A Mech value is a handle (Ref<T>, an Rc<RefCell<T>>) on a heap cell.    *)
(* Evaluating a statement allocates cells, binds names to them, and        *)
(* appends to the plan one step per operation it performed; the plan can   *)
(* be run again later (Step).  Evaluation is a recursive descent over the  *)
(* tree: every call of factor / term that returns is one action here, and  *)
(* a failure in any of them abandons the statement where it stands.        *)
(*                                                                         *)
(* An expression may call a state machine (#F(x)), which is evaluated on   *)
(* the same interpreter while the statement that called it waits: its      *)
(* arguments, states, guards and outputs are expressions, its transitions  *)
(* may be statements and blocks of code, and any of these may call a       *)
(* machine again.  machines is the stack of the calls; which transitions   *)
(* are taken is left open (StateMachines models that).                     *)
(*                                                                         *)
(* Data abstraction: numbers are 0..Modulus-1 with addition modulo         *)
(* Modulus, one operator (+) stands for every native operator, and the     *)
(* kinds are f64 and bool.  Handles are indices into heap; NonScalar is    *)
(* any value that is not a scalar cell (Empty, a tuple, a kind).           *)
(***************************************************************************)
EXTENDS Integers, Sequences, SequencesExt

CONSTANTS
  Names,     (* the identifiers a program can use                           *)
  Ans,       (* the identifier of the automatic variable "ans"              *)
  Modulus,   (* numbers are taken modulo this                               *)
  MaxCells,  (* bound: cells allocated since the last clear                 *)
  MaxPlan,   (* bound: steps in the plan and in pending terms               *)
  MaxDepth,  (* bound: nesting of parenthesised terms                       *)
  MaxTuple,  (* bound: elements of a tuple literal                          *)
  MaxMachines, (* bound: state machines called within one another           *)
  MaxEnv,    (* bound: values in the environment of a machine               *)
  MaxBegun   (* bound: statements begun since the last clear                *)

ASSUME ConstantsAssumption ==
  /\ Ans \notin Names
  /\ Modulus \in Nat \ {0}
  /\ MaxCells \in Nat /\ MaxPlan \in Nat /\ MaxDepth \in Nat /\ MaxTuple \in Nat
  /\ MaxBegun \in Nat /\ MaxMachines \in Nat /\ MaxEnv \in Nat

VARIABLES
  heap,     (* heap[c]: the content of cell c, its kind and its value       *)
  symbols,  (* SymbolTable.symbols: name -> handle, a partial function      *)
  mutables, (* SymbolTable.mutable_variables                                *)
  plan,     (* ProgramState.plan: the steps, in execution order             *)
  begun,    (* bound: statements begun since the last clear                 *)
  mode,     (* "idle", "running" inside interpret, "stepping" inside step   *)
  stmt,     (* the statement being evaluated                                *)
  frames,   (* the term() activations: the value so far, the pending steps  *)
  elems,    (* the values of the expressions of stmt evaluated so far       *)
  machines, (* the state machines being evaluated, the innermost last       *)
  cursor,   (* step(): the step to solve, the last one, the passes left     *)
  result    (* what the last call reported                                  *)

vars == <<heap, symbols, mutables, plan, begun, mode, stmt, frames, elems,
          machines, cursor, result>>

Kinds     == {"f64", "bool"}
NonScalar == 0
NoValue   == -1
Cells     == 1..Len(heap)
Handle    == {NonScalar} \cup Cells

Cell == [kind : Kinds, val : 0..(Modulus - 1)]

Literals == {[kind |-> "f64", val |-> 1 % Modulus], [kind |-> "bool", val |-> 0]}

(* A plan step: a native function with its argument cells and its output.  *)
Step(op, args, o) == [op |-> op, args |-> args, out |-> o]

(* The statement forms; kind is the kind annotation of a variable define   *)
(* (one kind stands for all that a value may or may not convert to).       *)
(* transition: it is the transition of a machine, not a line of code.      *)
(* called: its expressions have called a machine (nothing depends on it).  *)
Statement(op, ns, m, k) ==
  [op |-> op, names |-> ns, mutable |-> m, kind |-> k, transition |-> FALSE,
   called |-> FALSE]
NoStmt == Statement("none", <<>>, FALSE, "any")
Defines      == {Statement("define", <<n>>, m, k) :
                   n \in Names, m \in BOOLEAN, k \in {"any", "f64"}}
Assigns      == {Statement(op, <<n>>, FALSE, "any") :
                   op \in {"assign", "addassign"}, n \in Names \cup {Ans}}
Destructures == {Statement("destructure", <<a, b>>, FALSE, "any") :
                   a \in Names, b \in Names}
FsmDeclares  == {Statement("fsm", <<n>>, FALSE, "any") : n \in Names}
Others       == {Statement(op, <<>>, FALSE, "any") : op \in {"expr", "inline"}}
Transitions  == {[s EXCEPT !.transition = TRUE] :
                   s \in Defines \cup Assigns \cup Destructures \cup FsmDeclares}
Statements   == Defines \cup Assigns \cup Destructures \cup FsmDeclares \cup Others
                  \cup Transitions
Called(s)    == [s EXCEPT !.called = TRUE]
Evaluated    == Statements \cup {Called(s) : s \in Statements}

NoCursor == [at |-> 0, first |-> 0, last |-> 0, left |-> 0]

EmptyFrame == [lhs |-> NoValue, steps |-> <<>>]

(* The terms of the k-th machine are those above the first BaseOf(k).      *)
BaseOf(k) == IF k = 0 THEN 0 ELSE machines[k].base
Base      == BaseOf(Len(machines))

(* Between two lines of code, or two transitions of the running machine.   *)
Between == mode = "running" /\ stmt = NoStmt /\ Len(frames) = Base

(* The values the expression being evaluated can name besides variables:   *)
(* a machine's own expressions and some of the statements that are its     *)
(* transitions are given its environment, lines of code are not.           *)
Env ==
  IF /\ machines # <<>>
     /\ \/ stmt = NoStmt
        \/ stmt.transition /\ stmt.op \in {"assign", "addassign", "fsm"}
  THEN Last(machines).env ELSE {}

-----------------------------------------------------------------------------
(* Solving one step: what a MechFunction's solve() does to the heap.       *)

Plus(a, b) == (a + b) % Modulus

Solve(h, s) ==
  CASE s.op = "add"       ->
         [h EXCEPT ![s.out].val = Plus(h[s.args[1]].val, h[s.args[2]].val)]
    [] s.op = "convert"   -> [h EXCEPT ![s.out].val = h[s.args[1]].val]
    [] s.op = "assign"    -> [h EXCEPT ![s.out] = h[s.args[1]]]
    [] s.op = "addassign" ->
         [h EXCEPT ![s.out].val = Plus(h[s.out].val, h[s.args[1]].val)]
    [] OTHER              -> h

MutUnsolved(h, k, s) == Append(h, [kind |-> k, val |-> 0])

(* A native function of kind k with a fresh output cell, solved once.      *)
Compiled(h, k, s) == Solve(Append(h, [kind |-> k, val |-> 0]), s)

IsKind(h, r, k) == r \in 1..Len(h) /\ h[r].kind = k

(* AssignValue accepts a sink and a source of one scalar kind.             *)
Assignable(h, sink, source) ==
  /\ sink \in 1..Len(h)
  /\ source \in 1..Len(h)
  /\ h[sink].kind = h[source].kind

Pending == FoldLeft(LAMBDA n, f : n + Len(f.steps), 0, frames)
Room(cells, steps) ==
  /\ Len(heap) + cells <= MaxCells
  /\ Len(plan) + Pending + steps <= MaxPlan

Bind(f, n, v) == [m \in DOMAIN f \cup {n} |-> IF m = n THEN v ELSE f[m]]

-----------------------------------------------------------------------------
(* How a statement ends.                                                   *)

(* The calls of machines that go on when a statement fails: those around   *)
(* an inline expression of a paragraph or comment, which has no value then.*)
Caller(k) == IF k = Len(machines) THEN stmt ELSE machines[k + 1].stmt
Survivors == {k \in 0..Len(machines) : Caller(k).op = "inline"}

Abandon(k) ==
  /\ stmt' = NoStmt /\ elems' = <<>>
  /\ frames' = SubSeq(frames, 1, BaseOf(k))
  /\ machines' = SubSeq(machines, 1, k)

(* An error in a statement ends the whole program: steps still pending in  *)
(* open terms are dropped, steps already in the plan stay, and interpret   *)
(* still publishes the output of the last step of the plan.  Only an       *)
(* inline expression swallows it.                                          *)
Fail(error, pl) ==
  /\ plan' = pl
  /\ \/ /\ Survivors = {}
        /\ Abandon(0) /\ mode' = "idle" /\ result' = error
     \/ \E k \in Survivors :
          /\ \A j \in Survivors : j <= k
          /\ Abandon(k) /\ UNCHANGED <<mode, result>>

(* mech_code: the value of every completed line is bound to "ans"; that of *)
(* a statement that is itself a transition of a machine is not.            *)
Done(syms, r) ==
  /\ stmt' = NoStmt /\ elems' = <<>>
  /\ symbols' = IF stmt.transition THEN syms ELSE Bind(syms, Ans, r)
  /\ UNCHANGED <<mode, begun, frames, machines, cursor, result>>

(* A factor evaluated to r inside the innermost of the terms fs: it is the *)
(* term's first operand, or the next operator is compiled on it and solved *)
(* at once, its step kept pending until the term ends.                     *)
Operand(h, r, fs, pl) ==
  LET f    == Last(fs)
      c    == Len(h) + 1
      step == Step("add", <<f.lhs, r>>, c)
  IN  IF f.lhs = NoValue
      THEN /\ heap' = h /\ plan' = pl
           /\ frames' = Append(Front(fs), [f EXCEPT !.lhs = r])
           /\ UNCHANGED <<symbols, mutables, begun, mode, stmt, elems, machines, cursor, result>>
      ELSE IF IsKind(h, f.lhs, "f64") /\ IsKind(h, r, "f64")
      THEN /\ heap' = Compiled(h, "f64", step)
           /\ plan' = pl
           /\ frames' = Append(Front(fs), [lhs   |-> c,
                                           steps |-> Append(f.steps, step)])
           /\ UNCHANGED <<symbols, mutables, begun, mode, stmt, elems, machines, cursor, result>>
      ELSE /\ heap' = h
           /\ Fail("UnhandledFunctionArgumentKind", pl)
           /\ UNCHANGED <<symbols, mutables, begun, cursor>>

-----------------------------------------------------------------------------
Init ==
  /\ heap = <<>>
  /\ symbols = [n \in {Ans} |-> NonScalar]
  /\ mutables = [n \in {} |-> NonScalar]
  /\ plan = <<>>
  /\ begun = 0
  /\ mode = "idle"
  /\ stmt = NoStmt
  /\ frames = <<>>
  /\ elems = <<>>
  /\ machines = <<>>
  /\ cursor = NoCursor
  /\ result = "none"

(* interpret(tree): the statements of the tree follow one by one.          *)
Interpret ==
  /\ mode = "idle"
  /\ mode' = "running" /\ result' = "none"
  /\ UNCHANGED <<heap, symbols, mutables, plan, begun, stmt, frames, elems, machines, cursor>>

EndProgram ==
  /\ Between /\ machines = <<>>
  /\ mode' = "idle" /\ result' = "ok"
  /\ UNCHANGED <<heap, symbols, mutables, plan, begun, stmt, frames, elems, machines, cursor>>

MutUnchecked(n) == FALSE

AlreadyDefined(n) == n \in DOMAIN symbols

(* Statement dispatch.  Only a variable define looks at its target first,  *)
(* and before its expression is evaluated.                                 *)
BeginStatement(s) ==
  /\ Between
  /\ s.transition => machines # <<>>
  /\ begun < MaxBegun /\ begun' = begun + 1
  /\ IF s.op = "define" /\ AlreadyDefined(s.names[1])
     THEN Fail("VariableAlreadyDefined", plan)
     ELSE /\ stmt' = s /\ frames' = Append(frames, EmptyFrame) /\ elems' = <<>>
          /\ UNCHANGED <<plan, mode, machines, result>>
  /\ UNCHANGED <<heap, symbols, mutables, cursor>>

InTerm == mode = "running" /\ Len(frames) > Base

(* Where an operand may stand: a machine declaration has a call only.      *)
Evaluating == InTerm /\ stmt.op # "fsm"

Literal(v) ==
  /\ Evaluating
  /\ IF Last(frames).lhs = NoValue THEN Room(1, 0) ELSE Room(2, 1)
  /\ Operand(Append(heap, v), Len(heap) + 1, frames, plan)

(* var(): a reference to the cell the name is bound to, never a copy.      *)
Variable(n) ==
  /\ Evaluating
  /\ Last(frames).lhs = NoValue \/ Room(1, 1)
  /\ IF n \in DOMAIN symbols
     THEN Operand(heap, symbols[n], frames, plan)
     ELSE /\ Fail("UndefinedVariable", plan)
          /\ UNCHANGED <<heap, symbols, mutables, begun, cursor>>

(* A value of the environment of the machine: the same cell again.         *)
EnvironmentValue(r) ==
  /\ Evaluating /\ r \in Env
  /\ Last(frames).lhs = NoValue \/ Room(1, 1)
  /\ Operand(heap, r, frames, plan)

(* A parenthesised operand is a term of its own.                           *)
OpenTerm ==
  /\ Evaluating /\ Len(frames) < MaxDepth
  /\ frames' = Append(frames, EmptyFrame)
  /\ UNCHANGED <<heap, symbols, mutables, plan, begun, mode, stmt, elems, machines,
                 cursor, result>>

MutReversedSteps(pl, f) == pl \o Reverse(f.steps)

(* The end of term(): its steps join the plan, in the order they ran.      *)
AppendSteps(pl, f) == pl \o f.steps

(* The value of the outermost term is that of an expression of the         *)
(* statement, or of the machine if it has no statement under way.          *)
CloseTerm ==
  /\ InTerm
  /\ Len(frames) = Base + 1 \/ Room(1, 1)
  /\ Last(frames).lhs # NoValue
  /\ LET f  == Last(frames)
         pl == AppendSteps(plan, f)
     IN  IF Len(frames) > Base + 1
         THEN Operand(heap, f.lhs, Front(frames), pl)
         ELSE /\ plan' = pl /\ frames' = Front(frames)
              /\ IF stmt = NoStmt
                 THEN /\ machines' = [machines EXCEPT ![Len(machines)].env = @ \cup {f.lhs}]
                      /\ UNCHANGED elems
                 ELSE elems' = Append(elems, f.lhs) /\ UNCHANGED machines
              /\ UNCHANGED <<heap, symbols, mutables, begun, mode, stmt, cursor, result>>

(* A panic while evaluating is caught by interpret: nothing is published.  *)
Panic ==
  /\ mode = "running" /\ (InTerm \/ machines # <<>>)
  /\ Abandon(0)
  /\ mode' = "idle" /\ result' = "UnknownPanic"
  /\ UNCHANGED <<heap, symbols, mutables, plan, begun, cursor>>

-----------------------------------------------------------------------------
(* Calling a state machine.                                                *)

(* execute_fsm_pipe, as the first operand of a term (any other is in a     *)
(* term of its own).  What the caller's expression can name, an argument   *)
(* of the machine can bring into its environment.                          *)
CallMachine ==
  /\ InTerm /\ Last(frames).lhs = NoValue
  /\ Len(machines) < MaxMachines
  /\ machines' = Append(machines, [stmt |-> IF stmt = NoStmt THEN NoStmt ELSE Called(stmt),
                                   elems |-> elems, base |-> Len(frames), env |-> Env])
  /\ stmt' = NoStmt /\ elems' = <<>>
  /\ UNCHANGED <<heap, symbols, mutables, plan, begun, mode, frames, cursor, result>>

(* An argument, a part of a state, a guard or an output of the machine.    *)
MachineExpression ==
  /\ Between /\ machines # <<>>
  /\ Cardinality(Last(machines).env) < MaxEnv
  /\ frames' = Append(frames, EmptyFrame)
  /\ UNCHANGED <<heap, symbols, mutables, plan, begun, mode, stmt, elems, machines,
                 cursor, result>>

(* An output transition: a value of the environment, or one that is not a  *)
(* scalar, is the value of the call in the expression that made it.        *)
Return(r) ==
  /\ Between /\ machines # <<>>
  /\ r \in Last(machines).env \cup {NonScalar}
  /\ stmt' = Last(machines).stmt /\ elems' = Last(machines).elems
  /\ machines' = Front(machines)
  /\ frames' = [frames EXCEPT ![Base].lhs = r]
  /\ UNCHANGED <<heap, symbols, mutables, plan, begun, mode, cursor, result>>

(* No such machine, no arm for its state, too many transitions, a wrong    *)
(* argument: the error is that of the expression.                          *)
MachineFails ==
  /\ Between /\ machines # <<>>
  /\ Fail("MachineError", plan)
  /\ UNCHANGED <<heap, symbols, mutables, begun, cursor>>

-----------------------------------------------------------------------------
(* Completing a statement once its expressions are evaluated.              *)

Ready(op) == mode = "running" /\ stmt.op = op /\ Len(frames) = Base

(* save_symbol *)
SaveSymbol(n, r, m) ==
  /\ Done(Bind(symbols, n, r), r)
  /\ mutables' = IF m THEN Bind(mutables, n, r) ELSE mutables

(* variable_define without an annotation: the name is bound to the very    *)
(* cell of the value (detach_variable_value clones the handle).            *)
VariableDefine ==
  /\ Ready("define") /\ stmt.kind = "any" /\ Room(0, 1)
  /\ SaveSymbol(stmt.names[1], elems[1], stmt.mutable)
  /\ plan' = Append(plan, Step("define", <<>>, elems[1]))
  /\ UNCHANGED heap

(* With an annotation the value goes through a convert step first.         *)
VariableDefineKind ==
  /\ Ready("define") /\ stmt.kind # "any" /\ Room(1, 2)
  /\ LET r == elems[1]
         c == Len(heap) + 1
         convert == Step("convert", <<r>>, c)
     IN  IF IsKind(heap, r, stmt.kind)
         THEN /\ heap' = Compiled(heap, stmt.kind, convert)
              /\ SaveSymbol(stmt.names[1], c, stmt.mutable)
              /\ plan' = plan \o <<convert, Step("define", <<>>, c)>>
         ELSE /\ Fail("UnsupportedConversion", plan)
              /\ UNCHANGED <<heap, symbols, mutables, begun, cursor>>

MutSymbolAsMutable == symbols

(* get_mutable *)
GetMutable == mutables

MutAnySink(h, sink, source) == sink \in 1..Len(h) /\ source \in 1..Len(h)

(* A match arm of the assign macros exists for the two operands.           *)
AssignArm(h, sink, source) == Assignable(h, sink, source)

(* variable_assign and op_assign without subscript.                        *)
VariableAssign(op) ==
  /\ Ready(op) /\ Room(0, 1)
  /\ LET n    == stmt.names[1]
         r    == elems[1]
         sink == GetMutable[n]
         step == Step(op, <<r>>, sink)
     IN  IF n \notin DOMAIN GetMutable
         THEN /\ Fail(IF n \in DOMAIN symbols THEN "NotMutable"
                                              ELSE "UndefinedVariable", plan)
              /\ UNCHANGED <<heap, symbols, mutables, begun, cursor>>
         ELSE IF /\ AssignArm(heap, sink, r)
                 /\ op = "addassign" => IsKind(heap, sink, "f64")
         THEN /\ heap' = Solve(heap, step)
              /\ plan' = Append(plan, step)
              /\ Done(symbols, sink)
              /\ UNCHANGED mutables
         ELSE /\ Fail("UnhandledFunctionArgumentKind", plan)
              /\ UNCHANGED <<heap, symbols, mutables, begun, cursor>>

Assign    == VariableAssign("assign")
AddAssign == VariableAssign("addassign")

(* The next element of the tuple literal being destructured.               *)
NextElement ==
  /\ Ready("destructure")
  /\ Len(elems) < MaxTuple
  /\ frames' = Append(frames, EmptyFrame)
  /\ UNCHANGED <<heap, symbols, mutables, plan, begun, mode, stmt, elems, machines,
                 cursor, result>>

(* The names a destructuring binds before the first one it refuses.        *)
Accepted ==
  LET ok(i) == /\ i <= Len(elems)
               /\ ~AlreadyDefined(stmt.names[i])
               /\ \A j \in 1..(i - 1) : stmt.names[j] # stmt.names[i]
  IN  {i \in DOMAIN stmt.names : \A j \in 1..i : ok(j)}

(* tuple_destructure: names are inserted one at a time, as mutable; the    *)
(* ones inserted before an error stay.                                     *)
TupleDestructure ==
  /\ Ready("destructure") /\ elems # <<>>
  /\ LET new == {stmt.names[i] : i \in Accepted}
         val(n) == elems[CHOOSE i \in Accepted : stmt.names[i] = n]
         insert(f) == [n \in DOMAIN f \cup new |->
                         IF n \in new THEN val(n) ELSE f[n]]
     IN  /\ mutables' = insert(mutables)
         /\ IF Accepted = DOMAIN stmt.names
            THEN Done(insert(symbols), NonScalar) /\ UNCHANGED plan
            ELSE /\ Fail("TupleDestructure", plan)
                 /\ symbols' = insert(symbols)
                 /\ UNCHANGED <<begun, cursor>>
  /\ UNCHANGED heap

(* fsm_declare: binds the value the machine returned, without looking      *)
(* whether the name is taken.                                              *)
FsmDeclare ==
  /\ Ready("fsm")
  /\ Done(Bind(symbols, stmt.names[1], elems[1]), elems[1])
  /\ UNCHANGED <<heap, mutables, plan>>

Expression ==
  /\ Ready("expr")
  /\ Done(symbols, elems[1])
  /\ UNCHANGED <<heap, mutables, plan>>

(* An expression inside a paragraph: its value is not bound to "ans".      *)
InlineExpression ==
  /\ Ready("inline")
  /\ stmt' = NoStmt /\ elems' = <<>>
  /\ UNCHANGED <<heap, symbols, mutables, plan, begun, mode, frames, machines, cursor, result>>

-----------------------------------------------------------------------------
(* Running the plan again.                                                 *)

(* step(step_id, step_count): step_id 0 is the whole plan, i is step i.    *)
StepPlan(id, count) ==
  /\ mode = "idle"
  /\ IF plan = <<>> \/ id > Len(plan)
     THEN /\ result' = IF plan = <<>> THEN "NoStepsInPlan" ELSE "StepIndexOutOfBounds"
          /\ UNCHANGED <<mode, cursor>>
     ELSE /\ mode' = "stepping" /\ result' = "none"
          /\ LET first == IF id = 0 THEN 1 ELSE id
                 last  == IF id = 0 THEN Len(plan) ELSE id
             IN  cursor' = [at |-> first, first |-> first, last |-> last, left |-> count]
  /\ UNCHANGED <<heap, symbols, mutables, plan, begun, stmt, frames, elems, machines>>

SolveStep ==
  /\ mode = "stepping" /\ cursor.left > 0
  /\ heap' = Solve(heap, plan[cursor.at])
  /\ cursor' = IF cursor.at < cursor.last
               THEN [cursor EXCEPT !.at = @ + 1]
               ELSE [cursor EXCEPT !.at = cursor.first, !.left = @ - 1]
  /\ UNCHANGED <<symbols, mutables, plan, begun, mode, stmt, frames, elems, machines, result>>

EndStep ==
  /\ mode = "stepping" /\ cursor.left = 0
  /\ mode' = "idle" /\ result' = "ok" /\ cursor' = NoCursor
  /\ UNCHANGED <<heap, symbols, mutables, plan, begun, stmt, frames, elems, machines>>

MutClearKeepsPlan ==
  /\ mode = "idle"
  /\ heap' = <<>> /\ symbols' = [n \in {Ans} |-> NonScalar]
  /\ mutables' = [n \in {} |-> NonScalar] /\ begun' = 0 /\ result' = "none"
  /\ UNCHANGED <<plan, mode, stmt, frames, elems, machines, cursor>>

(* clear(): a new interpreter with the same id.                            *)
Clear ==
  /\ mode = "idle"
  /\ heap' = <<>>
  /\ symbols' = [n \in {Ans} |-> NonScalar]
  /\ mutables' = [n \in {} |-> NonScalar]
  /\ plan' = <<>> /\ begun' = 0 /\ result' = "none"
  /\ UNCHANGED <<mode, stmt, frames, elems, machines, cursor>>

ClearPlan ==
  /\ mode = "idle"
  /\ plan' = <<>>
  /\ UNCHANGED <<heap, symbols, mutables, begun, mode, stmt, frames, elems, machines,
                 cursor, result>>

Next ==
  \/ Interpret \/ EndProgram \/ Panic
  \/ \E s \in Statements : BeginStatement(s)
  \/ \E v \in Literals : Literal(v)
  \/ \E n \in Names \cup {Ans} : Variable(n)
  \/ \E r \in Handle : EnvironmentValue(r)
  \/ OpenTerm \/ CloseTerm
  \/ CallMachine \/ MachineExpression \/ MachineFails
  \/ \E r \in Handle : Return(r)
  \/ VariableDefine \/ VariableDefineKind \/ Assign \/ AddAssign
  \/ NextElement \/ TupleDestructure \/ FsmDeclare
  \/ Expression \/ InlineExpression
  \/ \E id \in 0..(MaxPlan + 1), count \in 0..2 : StepPlan(id, count)
  \/ SolveStep \/ EndStep
  \/ Clear \/ ClearPlan

Spec == Init /\ [][Next]_vars

-----------------------------------------------------------------------------
(* Properties.                                                             *)

(* The steps, and the term activations, over the first n cells.            *)
AddSteps(n) == [op : {"add"}, args : (1..n) \X (1..n), out : 1..n]

StepsOver(n) ==
  AddSteps(n) \cup
  [op : {"convert", "assign", "addassign"}, args : {<<c>> : c \in 1..n}, out : 1..n] \cup
  [op : {"define"}, args : {<<>>}, out : 0..n]

FramesOver(n) == [lhs : -1..n, steps : Seq(AddSteps(n))]

(* The calls of machines, whose callers are marked as having called one.   *)
MachinesOver(n) ==
  [stmt : {NoStmt} \cup {Called(s) : s \in Statements}, elems : Seq(0..n),
   base : Nat, env : SUBSET (0..n)]

(* Every handle the symbol table, the plan, the pending terms and the      *)
(* evaluated operands hold is a cell that exists (or not a scalar), every  *)
(* step has the operands its function reads, and step() stays inside the   *)
(* plan.                                                                   *)
HeapOK == heap \in Seq(Cell)

TablesOK ==
  /\ DOMAIN symbols \subseteq Names \cup {Ans} /\ Ans \in DOMAIN symbols
  /\ \A n \in DOMAIN symbols : symbols[n] \in Handle
  /\ DOMAIN mutables \subseteq Names
  /\ \A n \in DOMAIN mutables : mutables[n] \in Handle

PlanOK ==
  /\ plan \in Seq(StepsOver(Len(heap)))
  /\ cursor \in [at : Nat, first : Nat, last : Nat, left : Nat]
  /\ mode = "stepping" => /\ cursor.first \in 1..cursor.at
                          /\ cursor.at <= cursor.last /\ cursor.last <= Len(plan)

EvalOK ==
  /\ mode \in {"idle", "running", "stepping"}
  /\ stmt \in Evaluated \cup {NoStmt}
  /\ frames \in Seq(FramesOver(Len(heap)))
  /\ elems \in Seq(Handle)
  /\ begun \in 0..MaxBegun
  /\ mode # "running" => frames = <<>> /\ stmt = NoStmt
  /\ IF stmt = NoStmt THEN elems = <<>> ELSE Len(frames) > Base \/ elems # <<>>

MachinesOK ==
  /\ machines \in Seq(MachinesOver(Len(heap)))
  /\ \A k \in DOMAIN machines : machines[k].stmt = NoStmt => machines[k].elems = <<>>
  /\ \A j, k \in 0..Len(machines) : j < k => BaseOf(j) < BaseOf(k)
  /\ Base <= Len(frames)

TypeOK == HeapOK /\ TablesOK /\ PlanOK /\ EvalOK /\ MachinesOK

Computes(s) == s.op \in {"add", "convert"}
Mutates(s)  == s.op \in {"assign", "addassign"}
Reads(s)    == Range(s.args) \cup (IF s.op = "define" THEN {s.out} ELSE {})

(* The plan is in dataflow order: the step that computes a cell comes      *)
(* before every step that reads it, however the terms were nested, and no  *)
(* two steps compute the same cell.  (plan.append in term, functions that  *)
(* push their own step.)                                                   *)
PlanOrder ==
  \A i, j \in DOMAIN plan :
    Computes(plan[j]) /\ i <= j =>
      /\ plan[j].out \notin Reads(plan[i])
      /\ i # j => ~(Computes(plan[i]) /\ plan[i].out = plan[j].out)

AssignmentFree == \A i \in DOMAIN plan : ~Mutates(plan[i])

(* A plan that assigns nothing is at its fixpoint: running it again, or    *)
(* any one of its steps any number of times, changes no value.  (step)     *)
StepIdempotent ==
  [][mode = "stepping" /\ AssignmentFree => UNCHANGED heap]_vars

(* Why stepping is idempotent and keeps kinds: without assignments every   *)
(* step, in the plan or pending in a term, already holds of the values;    *)
(* and both sides of every assign step have one kind.                      *)
Holds(h, s) ==
  /\ s.op = "add"     => h[s.out].val = Plus(h[s.args[1]].val, h[s.args[2]].val)
  /\ s.op = "convert" => h[s.out].val = h[s.args[1]].val

PlanHolds == AssignmentFree => \A i \in DOMAIN plan : Holds(heap, plan[i])

PendingHolds ==
  AssignmentFree =>
    \A f \in DOMAIN frames : \A i \in DOMAIN frames[f].steps : Holds(heap, frames[f].steps[i])

AssignKinds ==
  \A i \in DOMAIN plan :
    plan[i].op = "assign" => heap[plan[i].out].kind = heap[plan[i].args[1]].kind

IInv == TypeOK /\ PlanHolds /\ PendingHolds /\ AssignKinds

(* Why the plan is in dataflow order: a cell that a pending step computes  *)
(* is known to no name, to no step of the plan, to no value a statement or *)
(* a machine holds, to no other term and to no earlier step of its own.    *)
Unknown(o, f) ==
  /\ o # f.lhs
  /\ \A i \in DOMAIN f.steps : o \notin Reads(f.steps[i]) /\ o # f.steps[i].out

Later(steps, i) ==
  \A j \in 1..i : steps[i].out \notin Reads(steps[j]) /\ (j # i => steps[j].out # steps[i].out)

Known ==
  Range(symbols) \cup Range(mutables) \cup Range(elems)
    \cup UNION {machines[k].env \cup Range(machines[k].elems) : k \in DOMAIN machines}

Apart(fs, pl) ==
  \A f \in DOMAIN fs : \A i \in DOMAIN fs[f].steps :
    LET o == fs[f].steps[i].out
    IN  /\ o \notin Known
        /\ \A j \in DOMAIN pl : o \notin Reads(pl[j]) /\ o # pl[j].out
        /\ \A g \in DOMAIN fs \ {f} : Unknown(o, fs[g])
        /\ Later(fs[f].steps, i)

PendingUnknown == Apart(frames, plan)

(* A define that is being evaluated has a name that is not bound yet,      *)
(* unless its expression called a machine: the look at the name is before. *)
DefinesNew ==
  stmt.op = "define" /\ ~stmt.called => stmt.names[1] \notin DOMAIN symbols

(* A cell keeps its kind for as long as it exists, whatever is assigned to *)
(* the names bound to it and however often the plan is stepped.            *)
KindStable ==
  [][\A c \in DOMAIN heap \cap DOMAIN heap' : heap'[c].kind = heap[c].kind]_vars

(* An existing value changes only when an assignment to a name of the      *)
(* mutable table that is bound to it succeeds, in the program or in a      *)
(* transition of a machine that one of its expressions calls, or when a    *)
(* step of the plan that computes or assigns it is run again: evaluation,  *)
(* failed statements and panics never touch it.                            *)
MutationOnlyByAssignment ==
  [][\A c \in DOMAIN heap \cap DOMAIN heap' :
       heap'[c] # heap[c] =>
         IF mode = "stepping"
         THEN \E i \in DOMAIN plan : plan[i].out = c /\ plan[i].op # "define"
         ELSE /\ stmt.op \in {"assign", "addassign"}
              /\ stmt.names[1] \in DOMAIN mutables
              /\ mutables[stmt.names[1]] = c]_vars

(* A name that is bound keeps its cell until the interpreter is cleared:   *)
(* no destructuring, failure or return of a machine rebinds it.  The only  *)
(* statements that do are a state machine declaration, which does not look,*)
(* and a define whose own expression called a machine, which may bind the  *)
(* name after variable_define looked; "ans" is rebound by every line.      *)
NoRebinding ==
  [][\A n \in DOMAIN symbols \ {Ans} :
       /\ n \in DOMAIN symbols'
       /\ ~(stmt.op = "fsm" /\ stmt.names[1] = n)
       /\ ~(stmt.op = "define" /\ stmt.called /\ stmt.names[1] = n)
       => symbols'[n] = symbols[n]]_vars

Scalar(n) == n \in DOMAIN symbols /\ symbols[n] \in Cells

(* README: variables are immutable unless specified.  A program never      *)
(* changes the value of a name that was not declared mutable.              *)
ImmutableByDefault ==
  [][\A n \in Names \ DOMAIN mutables :
       /\ Scalar(n) /\ mode = "running"
       /\ n \in DOMAIN symbols' /\ symbols'[n] = symbols[n]
       => heap'[symbols[n]] = heap[symbols[n]]]_vars

(* docs/reference/define.mec: mutation requires bindings declared with     *)
(* "~".  Only a variable define with the tilde makes a name mutable.       *)
MutableOnlyWithTilde ==
  [][DOMAIN mutables' \subseteq DOMAIN mutables \cup
       (IF stmt.op = "define" /\ stmt.mutable THEN Range(stmt.names) ELSE {})]_vars

(* docs/reference/define.mec: assignment updates an existing mutable       *)
(* symbol.  After a successful assignment the name reads as the source.    *)
AssignmentIsRead ==
  [][stmt.op = "assign" /\ stmt' = NoStmt /\ UNCHANGED <<mode, frames, machines>> =>
       LET n == stmt.names[1]
       IN  symbols[n] \in Cells /\ heap'[symbols[n]] = heap[elems[1]]]_vars

(* docs/reference/define.mec: defining a symbol that is defined is an      *)
(* error.  No define rebinds a name.                                       *)
DefineNeverRebinds ==
  [][stmt.op = "define" =>
       \A n \in DOMAIN symbols \ {Ans} :
         n \in DOMAIN symbols' => symbols'[n] = symbols[n]]_vars
=============================================================================
