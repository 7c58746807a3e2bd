--------------------------- MODULE FunctionCalls ---------------------------
(***************************************************************************)
(* Calls of user functions in one interpreter: argument evaluation, the    *)
(* scope each call swaps into the interpreter's state and restores on      *)
(* return, error and panic, match arms with tail calls, statement bodies,  *)
(* and broadcasting.                                                       *)
(*                                                                         *)
(* The Rust call stack is the variable stack: a frame per activation that  *)
(* still has work to do.  focus is what the innermost one is at: an        *)
(* expression to evaluate, a value it was handed, an error passing through.*)
(* The state a FunctionScope saves is one record: the symbol table and the *)
(* number of steps on the plan (the step order is Interpreter's concern).  *)
(***************************************************************************)
EXTENDS FunctionValues

CONSTANTS
  Globals,    \* the symbol table of the program the calls are made from
  MaxPlan,    \* bound: steps on the program's plan when an evaluation begins
  MaxStack    \* bound: the Rust stack (the code has none: it overflows)

ASSUME FunctionsAssumption ==
  /\ Functions \cap Natives = {}
  /\ DOMAIN Globals \subseteq Names
  /\ MaxPlan \in Nat /\ MaxStack \in Nat
  /\ \A f \in Functions : Len(Def[f].output) <= 1

\* The arms of a function and the arguments of a call are sequences.
ASSUME ArmsAssumption ==
  \A f \in Functions :
    /\ Len(Def[f].arms) \in Nat
    /\ \A i \in 1..Len(Def[f].arms) :
         LET body == Def[f].arms[i].body
         IN  body.op = "call" => body.args \in Seq(ToSet(body.args))

VARIABLES
  scope,      \* state.symbol_table and state.plan, the ones a call swaps
  stack,      \* activations, innermost first
  focus,      \* what the innermost activation is at
  program,    \* the top-level expression being evaluated
  answer      \* what the last one came to

vars == <<scope, stack, focus, program, answer>>

Scope(symbols, steps) == [symbols |-> symbols, steps |-> steps]

Idle == [at |-> "idle"]
Evaluate(e, env) == [at |-> "evaluate", expression |-> e, env |-> env]
Continue == [at |-> "continue"]
Returned(v) == [at |-> "returned", value |-> v]
Raised(why) == [at |-> "raised", why |-> why]
Apply(f, args) == [at |-> "apply", fxn |-> f, args |-> args]

\* Evaluating the arguments of a call; tail tells the recursive call of an arm.
ArgumentsFrame(call, env, tail) ==
  [frame |-> "arguments", call |-> call, env |-> env, tail |-> tail,
   rest |-> call.args, done |-> <<>>]

\* One activation of a user function: the arguments it was entered with, the state
\* its FunctionScope gives back, and the statement it is at.
BodyFrame(f, args, saved) ==
  [frame |-> "body", fxn |-> f, args |-> args, saved |-> saved, statement |-> 1]

BroadcastFrame(f, elements) ==
  [frame |-> "broadcast", fxn |-> f, rest |-> elements, done |-> <<>>]

Top == Head(stack)
In(frame) == stack # <<>> /\ Top.frame = frame
Push(frame) == stack' = <<frame>> \o stack /\ Len(stack) < MaxStack
Pop == stack' = Tail(stack)
Replace(frame) == stack' = <<frame>> \o Tail(stack)

(***************************************************************************)
(* Types, and the shape of the stack: an activation is evaluating, waiting *)
(* below the one it started, or done; the arguments of a tail call lie on  *)
(* the activation of the same function whose arm makes the call.           *)
(***************************************************************************)
Body(i) == stack[i].frame = "body"

TypeOK ==
  /\ DOMAIN scope.symbols \subseteq Names /\ scope.steps \in Nat
  /\ program \in Expressions
  /\ answer.at \in {"idle", "returned", "raised"}
  /\ focus.at \in {"idle", "evaluate", "continue", "returned", "raised", "apply"}
  /\ focus.at = "idle" => stack = <<>>
  /\ focus.at = "continue" => stack # <<>>
  /\ \A i \in DOMAIN stack :
       /\ stack[i].frame \in {"arguments", "body", "broadcast"}
       /\ Body(i) => Len(stack[i].args) = Arity(stack[i].fxn)
       /\ stack[i].frame = "arguments" /\ stack[i].tail =>
            i < Len(stack) /\ Body(i + 1) /\ stack[i + 1].fxn = stack[i].call.fxn

Init ==
  /\ scope = Scope(Globals, 0)
  /\ stack = <<>>
  /\ focus = Idle
  /\ program \in Expressions
  /\ answer = Idle

-----------------------------------------------------------------------------
(* The top level.                                                          *)

Begin(e) ==
  /\ focus = Idle /\ scope.steps < MaxPlan
  /\ focus' = Evaluate(e, NoBindings)
  /\ program' = e
  /\ answer' = Idle
  /\ UNCHANGED <<scope, stack>>

\* interpret() returns the value or the error, an error made of the panic included.
End ==
  /\ stack = <<>> /\ focus.at \in {"returned", "raised"}
  /\ answer' = focus
  /\ focus' = Idle
  /\ UNCHANGED <<scope, stack, program>>

-----------------------------------------------------------------------------
(* Expressions.                                                            *)

Evaluating(op) == focus.at = "evaluate" /\ focus.expression.op = op

EvaluateLiteral ==
  /\ Evaluating("literal")
  /\ focus' = Returned(focus.expression.value)
  /\ UNCHANGED <<scope, stack, program, answer>>

MutTableFirst ==
  /\ Evaluating("name")
  /\ LET name == focus.expression.name
     IN focus' = IF name \in DOMAIN scope.symbols THEN Returned(scope.symbols[name])
                 ELSE IF name \in DOMAIN focus.env THEN Returned(focus.env[name])
                 ELSE Raised("undefined variable")
  /\ UNCHANGED <<scope, stack, program, answer>>

\* The arm's bindings first, then the symbol table of the activation, no further.
Variable ==
  /\ Evaluating("name")
  /\ LET name == focus.expression.name
     IN focus' = IF name \in DOMAIN focus.env THEN Returned(focus.env[name])
                 ELSE IF name \in DOMAIN scope.symbols THEN Returned(scope.symbols[name])
                 ELSE Raised("undefined variable")
  /\ UNCHANGED <<scope, stack, program, answer>>

\* A missing function is reported before any argument is evaluated; a built-in of
\* the bytecode loader is a todo!().
FunctionCall ==
  /\ Evaluating("call")
  /\ LET call == focus.expression
     IN \/ /\ call.fxn \in Functions \cup Natives
           /\ Push(ArgumentsFrame(call, focus.env, FALSE))
           /\ focus' = Continue
        \/ /\ call.fxn \notin Functions \cup Natives
           /\ focus' = Raised(IF call.fxn = "builtin" THEN "panic" ELSE "missing function")
           /\ UNCHANGED stack
  /\ UNCHANGED <<scope, program, answer>>

NextArgument ==
  /\ focus = Continue /\ In("arguments") /\ Top.rest # <<>>
  /\ focus' = Evaluate(Head(Top.rest), Top.env)
  /\ Replace([Top EXCEPT !.rest = Tail(@)])
  /\ UNCHANGED <<scope, program, answer>>

ArgumentEvaluated ==
  /\ focus.at = "returned" /\ In("arguments")
  /\ Replace([Top EXCEPT !.done = Append(@, focus.value)])
  /\ focus' = Continue
  /\ UNCHANGED <<scope, program, answer>>

Arguments == focus = Continue /\ In("arguments") /\ Top.rest = <<>>

\* The compiled function is solved once and pushed on the plan of the scope it runs in.
CallNative ==
  /\ Arguments /\ Top.call.fxn \in Natives
  /\ Pop
  /\ IF Operands(Top.done)
       THEN /\ scope' = [scope EXCEPT !.steps = @ + 1]
            /\ focus' = Returned(NativeResult(Top.call.fxn, Top.done))
       ELSE focus' = Raised("no such operation") /\ UNCHANGED scope
  /\ UNCHANGED <<program, answer>>

CallUser ==
  /\ Arguments /\ Top.call.fxn \in Functions /\ ~Top.tail
  /\ Pop
  /\ focus' = Apply(Top.call.fxn, Top.done)
  /\ UNCHANGED <<scope, program, answer>>

-----------------------------------------------------------------------------
(* User functions.                                                         *)

Applying == focus.at = "apply"

WrongArity ==
  /\ Applying /\ Len(focus.args) # Arity(focus.fxn)
  /\ focus' = Raised("wrong number of arguments")
  /\ UNCHANGED <<scope, stack, program, answer>>

StartBroadcast ==
  /\ Applying /\ Len(focus.args) = Arity(focus.fxn)
  /\ Broadcasts(focus.fxn, focus.args)
  /\ Push(BroadcastFrame(focus.fxn, Elements(focus.args[1])))
  /\ focus' = Continue
  /\ UNCHANGED <<scope, program, answer>>

\* FunctionScope::enter and bind_function_inputs: a table of its own, a plan of its
\* own; with an argument that does not convert the scope is left again by the error.
Entered(f, args) ==
  /\ scope' = Scope(IF BindsAll(f, args) THEN Bound(f, args) ELSE NoBindings, 0)
  /\ focus' = IF BindsAll(f, args) THEN Continue ELSE Raised("argument kind")

EnterFunction ==
  /\ Applying /\ Len(focus.args) = Arity(focus.fxn)
  /\ ~Broadcasts(focus.fxn, focus.args)
  /\ Push(BodyFrame(focus.fxn, focus.args, scope))
  /\ Entered(focus.fxn, focus.args)
  /\ UNCHANGED <<program, answer>>

InArms == focus = Continue /\ In("body") /\ IsMatchArms(Top.fxn)

NoArm ==
  /\ InArms /\ SelectArm(Top.fxn, Top.args) = 0
  /\ focus' = Raised("output undefined")
  /\ UNCHANGED <<scope, stack, program, answer>>

MutEveryCallIsTail ==
  /\ InArms /\ SelectArm(Top.fxn, Top.args) # 0
  /\ LET arm == Def[Top.fxn].arms[SelectArm(Top.fxn, Top.args)]
         env == MatchArguments(arm.pattern, Top.args).env
     IN IF arm.body.op = "call"
          THEN Push(ArgumentsFrame(arm.body, env, TRUE)) /\ focus' = Continue
          ELSE focus' = Evaluate(arm.body, env) /\ UNCHANGED stack
  /\ UNCHANGED <<scope, program, answer>>

MutNoTailCalls ==
  /\ InArms /\ SelectArm(Top.fxn, Top.args) # 0
  /\ LET arm == Def[Top.fxn].arms[SelectArm(Top.fxn, Top.args)]
     IN focus' = Evaluate(arm.body, MatchArguments(arm.pattern, Top.args).env)
  /\ UNCHANGED <<scope, stack, program, answer>>

\* The arms see the arguments as passed, before conversion.
MatchArm ==
  /\ InArms /\ SelectArm(Top.fxn, Top.args) # 0
  /\ LET arm == Def[Top.fxn].arms[SelectArm(Top.fxn, Top.args)]
         env == MatchArguments(arm.pattern, Top.args).env
     IN IF arm.body.op = "call" /\ arm.body.fxn = Top.fxn
          THEN Push(ArgumentsFrame(arm.body, env, TRUE)) /\ focus' = Continue
          ELSE focus' = Evaluate(arm.body, env) /\ UNCHANGED stack
  /\ UNCHANGED <<scope, program, answer>>

MutSameArguments ==
  /\ Arguments /\ Top.call.fxn \in Functions /\ Top.tail
  /\ LET body == stack[2]
     IN IF Len(Top.done) = Arity(body.fxn)
          THEN /\ stack' = <<body>> \o Tail(Tail(stack))
               /\ Entered(body.fxn, body.args)
          ELSE Pop /\ focus' = Evaluate(Top.call, Top.env) /\ UNCHANGED scope
  /\ UNCHANGED <<program, answer>>

(***************************************************************************)
(* A recursive call of the right arity replaces the activation it is made  *)
(* from: its scope is left, a new one is entered from the same caller.  No *)
(* broadcast is tried.  With another arity the call is evaluated again as  *)
(* an ordinary expression (and then fails).                                *)
(***************************************************************************)
TailCall ==
  /\ Arguments /\ Top.call.fxn \in Functions /\ Top.tail
  /\ LET body == stack[2]
     IN IF Len(Top.done) = Arity(body.fxn)
          THEN /\ stack' = <<BodyFrame(body.fxn, Top.done, body.saved)>> \o Tail(Tail(stack))
               /\ Entered(body.fxn, Top.done)
          ELSE Pop /\ focus' = Evaluate(Top.call, Top.env) /\ UNCHANGED scope
  /\ UNCHANGED <<program, answer>>

\* Leaving a scope gives the caller its table and its plan back.
Restore == scope' = Top.saved

ReturnFromArm ==
  /\ focus.at = "returned" /\ In("body") /\ IsMatchArms(Top.fxn)
  /\ Pop /\ Restore
  /\ focus' = Returned(IF Def[Top.fxn].output = <<>> THEN focus.value
                       ELSE Coerce(focus.value, Def[Top.fxn].output[1].kind))
  /\ UNCHANGED <<program, answer>>

InStatements == focus = Continue /\ In("body") /\ ~IsMatchArms(Top.fxn)

Statements == Def[Top.fxn].statements

RunStatement ==
  /\ InStatements /\ Top.statement <= Len(Statements)
  /\ LET define == Statements[Top.statement]
     IN focus' = IF define.name \in DOMAIN scope.symbols
                   THEN Raised("already defined")
                   ELSE Evaluate(define.expression, NoBindings)
  /\ UNCHANGED <<scope, stack, program, answer>>

\* Inserting overwrites: that the name is new was checked before its expression ran.
Inserted(table, name, value) ==
  [n \in DOMAIN table \cup {name} |-> IF n = name THEN value ELSE table[n]]

DefineLocal ==
  /\ focus.at = "returned" /\ In("body") /\ ~IsMatchArms(Top.fxn)
  /\ scope' = Scope(Inserted(scope.symbols, Statements[Top.statement].name, focus.value),
                    scope.steps + 1)
  /\ Replace([Top EXCEPT !.statement = @ + 1])
  /\ focus' = Continue
  /\ UNCHANGED <<program, answer>>

OutputNames == {Def[Top.fxn].output[i].name : i \in DOMAIN Def[Top.fxn].output}

\* The declared output, read from the scope before it is left, not converted.
CollectOutput ==
  /\ InStatements /\ Top.statement > Len(Statements)
  /\ Pop /\ Restore
  /\ focus' = IF ~(OutputNames \subseteq DOMAIN scope.symbols) THEN Raised("output undefined")
              ELSE IF OutputNames = {} THEN Returned(Empty)
              ELSE Returned(scope.symbols[Def[Top.fxn].output[1].name])
  /\ UNCHANGED <<program, answer>>

-----------------------------------------------------------------------------
(* Broadcasting.                                                           *)

BroadcastNext ==
  /\ focus = Continue /\ In("broadcast") /\ Top.rest # <<>>
  /\ focus' = Apply(Top.fxn, <<Head(Top.rest)>>)
  /\ Replace([Top EXCEPT !.rest = Tail(@)])
  /\ UNCHANGED <<scope, program, answer>>

BroadcastReturned ==
  /\ focus.at = "returned" /\ In("broadcast")
  /\ Replace([Top EXCEPT !.done = Append(@, focus.value)])
  /\ focus' = Continue
  /\ UNCHANGED <<scope, program, answer>>

BroadcastDone ==
  /\ focus = Continue /\ In("broadcast") /\ Top.rest = <<>>
  /\ Pop
  /\ focus' = IF Assembles(Top.fxn, Top.done) THEN Returned(Assemble(Top.fxn, Top.done))
              ELSE Raised("panic")
  /\ UNCHANGED <<scope, program, answer>>

-----------------------------------------------------------------------------
MutScopeLeaks ==
  /\ focus.at = "raised" /\ stack # <<>>
  /\ Pop
  /\ UNCHANGED <<scope, focus, program, answer>>

\* An error (?) or a panic leaves one activation after another; dropping a scope
\* restores the caller's state on this way out as well.
Unwind ==
  /\ focus.at = "raised" /\ stack # <<>>
  /\ Pop
  /\ IF Top.frame = "body" THEN Restore ELSE UNCHANGED scope
  /\ UNCHANGED <<focus, program, answer>>

Work ==
  \/ EvaluateLiteral \/ Variable \/ FunctionCall
  \/ NextArgument \/ ArgumentEvaluated \/ CallNative \/ CallUser
  \/ WrongArity \/ StartBroadcast \/ EnterFunction
  \/ NoArm \/ MatchArm \/ TailCall \/ ReturnFromArm
  \/ RunStatement \/ DefineLocal \/ CollectOutput
  \/ BroadcastNext \/ BroadcastReturned \/ BroadcastDone
  \/ Unwind \/ End

Next == (\E e \in Expressions : Begin(e)) \/ Work

\* One thread that does nothing else until the expression is evaluated.
Spec == Init /\ [][Next]_vars /\ WF_vars(Work)

-----------------------------------------------------------------------------
(* Properties.                                                             *)

\* The symbol table that activation i runs in: the live one, or the one saved by
\* the activation above it.
Above(i) == {j \in 1..(i - 1) : Body(j)}

TableOf(i) ==
  IF Above(i) = {} THEN scope.symbols
  ELSE stack[CHOOSE j \in Above(i) : \A k \in Above(i) : k <= j].saved.symbols

Extends(table, inputs) ==
  \A name \in DOMAIN inputs : name \in DOMAIN table /\ table[name] = inputs[name]

(***************************************************************************)
(* Locals do not bleed across calls: however calls nest, tail-call, map    *)
(* over rows, fail or panic, the program's own table is unchanged and      *)
(* every activation's table holds its arguments (FunctionScope and its     *)
(* Drop).                                                                  *)
(***************************************************************************)
LocalsDoNotBleed ==
  /\ TableOf(Len(stack) + 1) = Globals
  /\ \A i \in DOMAIN stack :
       Body(i) => \/ focus.at = "raised" /\ Above(i) = {}
                  \/ Extends(TableOf(i), Bound(stack[i].fxn, stack[i].args))

\* A tail call does not grow the Rust stack: where one function of match arms is
\* active twice, something lies between that has work left to do once the inner
\* activation returns.
TailCallsDoNotNest ==
  \A i, j \in DOMAIN stack :
    i < j /\ Body(i) /\ Body(j) /\ stack[i].fxn = stack[j].fxn /\ IsMatchArms(stack[i].fxn) =>
      \E k \in i..j : stack[k].frame # "body" \/ stack[k].fxn # stack[i].fxn

\* An evaluation whose equations have a meaning ends, and so does one that fails:
\* no activation waits for a value that never comes.
EvaluationEnds == focus # Idle ~> focus = Idle

\* functions.rs:184 "keep it in the plan for reactive re-evaluation": a step on the
\* plan stays there for as long as the program's plan is not cleared.  A function's
\* steps are dropped with its scope.
TotalSteps ==
  scope.steps + FoldLeft(LAMBDA n, f : IF f.frame = "body" THEN n + f.saved.steps ELSE n, 0, stack)

StepsAreKept == [][TotalSteps' >= TotalSteps]_vars

=============================================================================
