--------------------------- MODULE StateMachines ---------------------------
(***************************************************************************)
(* Running state machines in one interpreter: registration, the checks of  *)
(* a call, the search for the arm and guard that fire, the transitions     *)
(* with their side effects, the limit on steps.                            *)
(*                                                                         *)
(* A value is a handle on a heap cell, as in Interpreter: cloning a value  *)
(* copies the handle.  A program is a sequence of lines given one by one   *)
(* to interpret(): definitions of machines and calls of them.              *)
(***************************************************************************)
EXTENDS MachineDefinitions, FiniteSets

CONSTANTS
  Programs,   \* the programs that may be run
  Globals,    \* what its variables hold when a program begins
  Mutables,   \* those declared with ~
  MaxSteps    \* Interpreter.max_steps (1000000 by default)

ASSUME MachinesAssumption ==
  /\ MaxSteps \in Nat \ {0}
  /\ IsFiniteSet(DOMAIN Globals) /\ Globals \in [DOMAIN Globals -> Scalars]
  /\ Mutables \subseteq DOMAIN Globals

Lines == UNION {ToSet(p) : p \in Programs}

ASSUME ProgramsAssumption ==
  /\ \A p \in Programs : IsSequence(p)
  /\ \A l \in Lines :
       \/ l.op = "implementation" /\ IsMachine(l.fsm)
       \/ l.op = "specification" /\ IsSequence(l.spec.input)
       \/ l.op = "call" /\ AreExpressions(l.args)

VARIABLES
  program, line,        \* the program and the line it is at
  machines, specs,      \* user_state_machines, user_state_machine_specs
  heap,                 \* the scalars
  symbols, mutables,    \* the symbol table: name -> cell
  at,                   \* where execute_fsm_pipe is
  fsm, state, env,      \* the machine that runs, its state, call_env
  steps,                \* the loop counter
  arm, branch, armEnv,  \* the arm and the guard tried, arm_env
  todo,                 \* transitions of the branch that fired, to be applied
  answer                \* what the last call came to

vars == <<program, line, machines, specs, heap, symbols, mutables, at, fsm, state, env,
          steps, arm, branch, armEnv, todo, answer>>

definitions == <<program, machines, specs>>
search == <<arm, branch, armEnv, todo>>
memory == <<heap, symbols, mutables>>

NoState == [name |-> Bare, cells |-> <<>>]
None == [op |-> "none"]
Answer(v) == [op |-> "value", value |-> v]
Error(why) == [op |-> "error", why |-> why]

Cells == 1..Len(heap)

TypeOK ==
  /\ at \in {"idle", "step", "arm", "branch", "apply"}
  /\ line \in 1..(Len(program) + 1) /\ steps \in 0..MaxSteps
  /\ mutables \subseteq DOMAIN symbols
  /\ \A bound \in {symbols, env, armEnv} : \A name \in DOMAIN bound : bound[name] \in Cells
  /\ \A i \in DOMAIN state.cells : state.cells[i] \in Cells
  /\ at \in {"branch", "apply"} =>
       arm \in DOMAIN fsm.arms /\ BoundBy(fsm.arms[arm].pattern) \subseteq DOMAIN armEnv
  /\ todo # <<>> => at = "apply"

Init ==
  /\ program \in Programs /\ line = 1
  /\ machines = <<>> /\ specs = <<>>
  /\ LET names == SetToSeq(DOMAIN Globals)
     IN /\ heap = [i \in DOMAIN names |-> Globals[names[i]]]
        /\ symbols = [name \in DOMAIN Globals |-> CHOOSE i \in DOMAIN names : names[i] = name]
  /\ mutables = Mutables
  /\ at = "idle" /\ fsm = None /\ state = NoState /\ env = NoBindings /\ steps = 0
  /\ arm = 0 /\ branch = 0 /\ armEnv = NoBindings /\ todo = <<>>
  /\ answer = None

-----------------------------------------------------------------------------
(* Expressions.  A variable bound by the machine is its cell; a variable   *)
(* of the program is a reference to its cell; everything else is new.      *)

Found(h, cell, reference) == [ok |-> TRUE, heap |-> h, cell |-> cell, reference |-> reference]
New(h, v) == Found(Append(h, v), Len(h) + 1, FALSE)
NotFound == [ok |-> FALSE]

Operand(h, e, bound) ==
  IF e.op = "literal" THEN New(h, e.value)
  ELSE IF e.name \in DOMAIN bound THEN Found(h, bound[e.name], FALSE)
  ELSE IF e.name \in DOMAIN symbols THEN Found(h, symbols[e.name], TRUE)
  ELSE NotFound

Operation(e, l, r) ==
  IF l.ok /\ r.ok /\ Operable(e.op, r.heap[l.cell], r.heap[r.cell])
    THEN New(r.heap, Operated(e.op, r.heap[l.cell], r.heap[r.cell]))
    ELSE NotFound

Eval(h, e, bound) ==
  IF e.op \in {"literal", "name"} THEN Operand(h, e, bound)
  ELSE LET l == Operand(h, e.left, bound)
       IN Operation(e, l, Operand(IF l.ok THEN l.heap ELSE h, e.right, bound))

\* Evaluates expressions left to right into cells.
EvalNext(all, e, bound) ==
  LET v == IF all.ok THEN Eval(all.heap, e, bound) ELSE NotFound
  IN IF v.ok THEN [ok |-> TRUE, heap |-> v.heap, cells |-> Append(all.cells, v.cell)]
     ELSE [all EXCEPT !.ok = FALSE]

EvalAll(h, es, bound) ==
  LET all[n \in 0..Len(es)] ==
        IF n = 0 THEN [ok |-> TRUE, heap |-> h, cells |-> <<>>]
        ELSE EvalNext(all[n - 1], es[n], bound)
  IN all[Len(es)]

\* The state a target stands for: of an expression, its value, be it the name of a state.
Entered(h, name, cells) ==
  IF name = Bare /\ Len(cells) = 1 /\ h[cells[1]].kind = "atom"
    THEN [name |-> h[cells[1]].name, cells |-> <<>>]
    ELSE [name |-> name, cells |-> cells]

-----------------------------------------------------------------------------
(* Matching a state against a pattern extends the environment.             *)

MatchName(m, name, cell) ==
  IF name \in DOMAIN m.env
    THEN [m EXCEPT !.verdict = IF m.heap[m.env[name]] = m.heap[cell] THEN "yes" ELSE "no"]
    ELSE [m EXCEPT !.env = Bind(@, name, cell)]

MatchExpression(m, e, cell) ==
  LET v == Eval(m.heap, e, m.env)
  IN IF ~v.ok THEN [m EXCEPT !.verdict = "error"]
     ELSE [m EXCEPT !.heap = v.heap,
                    !.verdict = IF ValuesMatch(v.heap[v.cell], v.heap[cell]) THEN "yes" ELSE "no"]

MatchPart(m, part, cell) ==
  IF m.verdict # "yes" \/ part.form = "any" THEN m
  ELSE IF part.form = "name" THEN MatchName(m, part.name, cell)
  ELSE MatchExpression(m, part.value, cell)

Match(pattern, bound) ==
  LET start == [heap |-> heap, env |-> Unbind(bound, BoundBy(pattern)), verdict |-> "yes"]
      m[n \in 0..Len(pattern.parts)] ==
        IF n = 0 THEN start ELSE MatchPart(m[n - 1], pattern.parts[n], state.cells[n])
  IN IF pattern = Wildcard THEN start
     ELSE IF pattern.name # state.name \/ Len(pattern.parts) # Len(state.cells)
       THEN [start EXCEPT !.verdict = "no"]
     ELSE m[Len(pattern.parts)]

-----------------------------------------------------------------------------
(* The program, and what a call of a machine checks before it runs.        *)

Line == program[line]
AtLine(op) == at = "idle" /\ line <= Len(program) /\ Line.op = op

\* The same name again replaces the definition; a running machine is a copy.
RegisterImplementation ==
  /\ AtLine("implementation")
  /\ machines' = Bind(machines, Line.fsm.name, Line.fsm)
  /\ line' = line + 1
  /\ UNCHANGED <<program, specs, memory, at, fsm, state, env, steps, search, answer>>

RegisterSpecification ==
  /\ AtLine("specification")
  /\ specs' = Bind(specs, Line.spec.name, Line.spec)
  /\ line' = line + 1
  /\ UNCHANGED <<program, machines, memory, at, fsm, state, env, steps, search, answer>>

\* The specification's inputs, if there is one, else the implementation's.
Inputs == IF Line.name \in DOMAIN specs THEN specs[Line.name].input ELSE machines[Line.name].input

ArgumentKindMatches(h, input, cell) == input.kind \in {"any", h[cell].kind}

\* Of two inputs with one name the later is bound.
CallEnv(inputs, cells) ==
  [name \in {inputs[i].name : i \in DOMAIN inputs} |->
     LET last == CHOOSE i \in DOMAIN inputs :
                   /\ inputs[i].name = name
                   /\ \A j \in DOMAIN inputs : inputs[j].name = name => j <= i
     IN cells[last]]

Refused(why) == [why |-> why]

Admission ==
  IF Line.name \notin DOMAIN machines THEN Refused("missing machine")
  ELSE LET args == EvalAll(heap, Line.args, NoBindings)
           target == machines[Line.name].start
       IN IF ~args.ok THEN Refused("argument")
          ELSE IF Len(args.cells) # Len(Inputs) THEN Refused("number of arguments")
          ELSE IF \E i \in DOMAIN Inputs : ~ArgumentKindMatches(args.heap, Inputs[i], args.cells[i])
            THEN Refused("argument kind")
          ELSE LET bound == CallEnv(Inputs, args.cells)
                   payload == EvalAll(args.heap, target.parts, bound)
               IN IF ~payload.ok THEN Refused("start state")
                  ELSE IF ~Covered(machines[Line.name]) THEN Refused("undefined state")
                  ELSE [why |-> "admitted", heap |-> payload.heap, env |-> bound,
                        state |-> Entered(payload.heap, target.name, payload.cells)]

Refuse ==
  /\ AtLine("call") /\ Admission.why # "admitted"
  /\ answer' = Error(Admission.why)
  /\ line' = line + 1
  /\ UNCHANGED <<definitions, memory, at, fsm, state, env, steps, search>>

Start ==
  /\ AtLine("call") /\ Admission.why = "admitted"
  /\ LET admitted == Admission
     IN heap' = admitted.heap /\ env' = admitted.env /\ state' = admitted.state
  /\ fsm' = machines[Line.name]
  /\ at' = "step" /\ steps' = 0 /\ answer' = None
  /\ UNCHANGED <<definitions, line, symbols, mutables, search>>

-----------------------------------------------------------------------------
(* The loop.                                                               *)

\* The call returns: its locals are gone, its side effects are not.
Return(a) ==
  /\ answer' = a
  /\ at' = "idle" /\ line' = line + 1
  /\ fsm' = None /\ state' = NoState /\ env' = NoBindings /\ steps' = 0
  /\ arm' = 0 /\ branch' = 0 /\ armEnv' = NoBindings /\ todo' = <<>>
  /\ UNCHANGED definitions

BeginStep ==
  /\ at = "step" /\ steps < MaxSteps
  /\ at' = "arm" /\ arm' = 1
  /\ UNCHANGED <<definitions, line, memory, fsm, state, env, steps, branch, armEnv, todo, answer>>

LimitReached ==
  /\ at = "step" /\ steps = MaxSteps
  /\ Return(Error("limit"))
  /\ UNCHANGED memory

Held(h, st) == [name |-> st.name, payload |-> [i \in DOMAIN st.cells |-> h[st.cells[i]]]]

Halt ==
  /\ at = "arm" /\ arm > Len(fsm.arms)
  /\ Return(Answer(Held(heap, state)))
  /\ UNCHANGED memory

Trying == at = "arm" /\ arm <= Len(fsm.arms)
Tried == Match(fsm.arms[arm].pattern, env)

MutSkipLeavesBindings ==
  /\ Trying /\ Tried.verdict = "no"
  /\ arm' = arm + 1 /\ env' = Tried.env
  /\ UNCHANGED <<definitions, line, memory, at, fsm, state, steps, branch, armEnv, todo, answer>>

SkipArm ==
  /\ Trying /\ Tried.verdict = "no"
  /\ arm' = arm + 1
  /\ UNCHANGED <<definitions, line, memory, at, fsm, state, env, steps, branch, armEnv, todo, answer>>

MatchArm ==
  /\ Trying /\ Tried.verdict = "yes"
  /\ heap' = Tried.heap /\ armEnv' = Tried.env
  /\ at' = "branch" /\ branch' = 1
  /\ UNCHANGED <<definitions, line, symbols, mutables, fsm, state, env, steps, arm, todo, answer>>

PatternFails ==
  /\ Trying /\ Tried.verdict = "error"
  /\ Return(Error("pattern"))
  /\ UNCHANGED memory

Branches == fsm.arms[arm].branches
Deciding == at = "branch" /\ branch <= Len(Branches)

\* Only a Bool value decides: a reference to a Bool is of another kind.
Verdict ==
  LET condition == Branches[branch].condition
      v == IF condition = Anything THEN NotFound ELSE Eval(heap, condition, armEnv)
  IN IF condition = Anything THEN "yes"
     ELSE IF ~v.ok THEN "undefined"
     ELSE IF v.reference \/ v.heap[v.cell].kind # "bool" THEN "not bool"
     ELSE IF v.heap[v.cell].n = 1 THEN "yes" ELSE "no"

SkipBranch ==
  /\ Deciding /\ Verdict = "no"
  /\ branch' = branch + 1
  /\ UNCHANGED <<definitions, line, memory, at, fsm, state, env, steps, arm, armEnv, todo, answer>>

GuardFails ==
  /\ Deciding /\ Verdict \in {"undefined", "not bool"}
  /\ Return(Error(Verdict))
  /\ UNCHANGED memory

Fire ==
  /\ Deciding /\ Verdict = "yes"
  /\ at' = "apply" /\ todo' = Branches[branch].transitions
  /\ UNCHANGED <<definitions, line, memory, fsm, state, env, steps, arm, branch, armEnv, answer>>

\* No guard passed: the arms below are tried with the same state.
FallThrough ==
  /\ at = "branch" /\ branch > Len(Branches)
  /\ at' = "arm" /\ arm' = arm + 1 /\ armEnv' = NoBindings
  /\ UNCHANGED <<definitions, line, memory, fsm, state, env, steps, branch, todo, answer>>

-----------------------------------------------------------------------------
(* Transitions.  An error ends the call; what earlier ones did stays.      *)

Applying(op) == at = "apply" /\ todo # <<>> /\ Head(todo).op = op
Transition == Head(todo)
Payload == EvalAll(heap, Transition.target.parts, armEnv)
Destination == Entered(Payload.heap, Transition.target.name, Payload.cells)

EnterState ==
  /\ Applying("next") /\ Payload.ok
  /\ heap' = Payload.heap
  /\ state' = Destination
  /\ todo' = Tail(todo)
  /\ UNCHANGED <<definitions, line, symbols, mutables, at, fsm, env, steps, arm, branch, armEnv, answer>>

Output ==
  /\ Applying("output") /\ Payload.ok
  /\ Return(Answer(Held(Payload.heap, Destination)))
  /\ UNCHANGED memory

\* A definition does not see the machine's bindings, an assignment in a code block
\* does not either, an assignment of its own does.
Source ==
  Eval(heap, Transition.value,
       IF Transition.op = "assign" /\ ~Transition.block THEN armEnv ELSE NoBindings)

Definable == Transition.name \notin DOMAIN symbols /\ Source.ok

Define ==
  /\ Applying("define") /\ Definable
  /\ heap' = Source.heap
  /\ symbols' = Bind(symbols, Transition.name, Source.cell)
  /\ mutables' = IF Transition.mutable THEN mutables \cup {Transition.name} ELSE mutables
  /\ todo' = Tail(todo)
  /\ UNCHANGED <<definitions, line, at, fsm, state, env, steps, arm, branch, armEnv, answer>>

\* Of one kind, and no atom: there is nothing that assigns an atom.
Assignable ==
  /\ Transition.name \in mutables /\ Source.ok
  /\ Source.heap[Source.cell].kind \in {heap[symbols[Transition.name]].kind} \ {"atom"}

Assign ==
  /\ Applying("assign") /\ Assignable
  /\ heap' = [Source.heap EXCEPT ![symbols[Transition.name]] = Source.heap[Source.cell]]
  /\ todo' = Tail(todo)
  /\ UNCHANGED <<definitions, line, symbols, mutables, at, fsm, state, env, steps, arm, branch,
                 armEnv, answer>>

TransitionFails ==
  /\ \/ Applying("next") /\ ~Payload.ok
     \/ Applying("output") /\ ~Payload.ok
     \/ Applying("define") /\ ~Definable
     \/ Applying("assign") /\ ~Assignable
  /\ Return(Error("transition"))
  /\ UNCHANGED memory

MutStepNotCounted ==
  /\ at = "apply" /\ todo = <<>>
  /\ env' = armEnv /\ at' = "step"
  /\ arm' = 0 /\ branch' = 0 /\ armEnv' = NoBindings
  /\ UNCHANGED <<definitions, line, memory, fsm, state, steps, todo, answer>>

\* The bindings of the arm that fired are those of the machine from now on.
EndStep ==
  /\ at = "apply" /\ todo = <<>>
  /\ env' = armEnv /\ steps' = steps + 1 /\ at' = "step"
  /\ arm' = 0 /\ branch' = 0 /\ armEnv' = NoBindings
  /\ UNCHANGED <<definitions, line, memory, fsm, state, todo, answer>>

-----------------------------------------------------------------------------
Run ==
  \/ BeginStep \/ LimitReached \/ Halt
  \/ SkipArm \/ MatchArm \/ PatternFails
  \/ SkipBranch \/ GuardFails \/ Fire \/ FallThrough
  \/ EnterState \/ Output \/ Define \/ Assign \/ TransitionFails \/ EndStep

Next == RegisterImplementation \/ RegisterSpecification \/ Refuse \/ Start \/ Run

\* One thread: a call that was begun goes on until it returns.
Spec == Init /\ [][Next]_vars /\ WF_vars(Run)

-----------------------------------------------------------------------------
(* What a machine does, read off what it is.                               *)

Values(cells) == [i \in DOMAIN cells |-> heap[cells[i]]]

Meant == INSTANCE Machine WITH
  state <- [name |-> state.name, payload |-> Values(state.cells)],
  scope <- Values(IF at = "apply" THEN armEnv ELSE env),
  fired <- IF at = "apply" THEN steps + 1 ELSE steps,
  pending <- todo,
  globals <- Values(symbols),
  outcome <- IF answer.op = "error" THEN [op |-> "error"] ELSE answer

\* A machine does what its branches say: of all arms and guards in source order the
\* first that can decide fires, at once, in a scope that holds its own bindings and
\* those of the arms that fired before and of no other; it stops where none applies, at
\* an output, an error or the limit (execute_fsm_pipe_impl's search, environments and
\* loop).
ImplementsMachine == Meant!Spec

\* The names of variables of the program, and where machines must not use them for it:
\* a variable given as an argument, entered, defined or tested as it is shares its cell
\* (OwnedValues and GuardErrorsAreNotBool, which do not hold of the code).
Machines == {l.fsm : l \in {k \in Lines : k.op = "implementation"}}

ProgramNames ==
  DOMAIN Globals \cup
  UNION {{t.name : t \in {u \in TransitionsOf(f) : u.op = "define"}} : f \in Machines}

Apart(e) == e.op = "name" => e.name \notin ProgramNames
AllApart(es) == \A e \in ToSet(es) : Apart(e)

SharesNothing(f) ==
  /\ AllApart(f.start.parts)
  /\ \A b \in BranchesOf(f) : b.condition # Anything => Apart(b.condition)
  /\ \A t \in TransitionsOf(f) :
       /\ t.op = "next" => AllApart(t.target.parts)
       /\ t.op = "define" => Apart(t.value)

NothingIsShared ==
  /\ \A l \in Lines : l.op = "call" => AllApart(l.args)
  /\ \A f \in Machines : SharesNothing(f)

\* What the check made before a machine runs is good for (validate_fsm_state_coverage),
\* whatever its guards decide: a state that no arm is written for is entered by a target
\* that is an expression, which the check does not look at, and by no other way.
NamedStatesHaveArms ==
  at # "idle" /\ StateNames(fsm) # {} /\ state.name \notin StateNames(fsm) \cup {Bare} =>
    state.cells = <<>> /\ Bare \in Targets(fsm)

\* A call that was begun returns, halting or not (the limit on steps).
CallsReturn == at # "idle" ~> at = "idle"
=============================================================================
