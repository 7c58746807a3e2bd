---------------------------- MODULE Evaluation ----------------------------
(***************************************************************************)
(* What a function call means, stated without scopes, stacks or loops: the *)
(* first branch whose pattern matches gives the value, functions call each *)
(* other recursively, and a function of scalars maps over a row.  An       *)
(* evaluation is one step from an expression to its meaning.               *)
(***************************************************************************)
EXTENDS FunctionValues

CONSTANT Globals

VARIABLES program, meaning, busy

Error == [kind |-> "error", shape |-> "error", elements |-> <<>>]

IsError(v) == v = Error

RECURSIVE Eval(_, _, _), Call(_, _)

Eval(e, env, symbols) ==
  CASE e.op = "literal" -> e.value
    [] e.op = "name"    -> IF e.name \in DOMAIN env THEN env[e.name]
                           ELSE IF e.name \in DOMAIN symbols THEN symbols[e.name]
                           ELSE Error
    [] e.op = "call"    ->
         LET args == FoldLeft(LAMBDA vs, arg : Append(vs, Eval(arg, env, symbols)), <<>>, e.args)
         IN IF e.fxn \notin Functions \cup Natives \/ Error \in ToSet(args) THEN Error
            ELSE IF e.fxn \in Functions THEN Call(e.fxn, args)
            ELSE IF Operands(args) THEN NativeResult(e.fxn, args) ELSE Error

Define(symbols, statement) ==
  IF symbols = Error \/ statement.name \in DOMAIN symbols THEN Error
  ELSE LET v == Eval(statement.expression, NoBindings, symbols)
       IN IF v = Error THEN Error ELSE symbols @@ (statement.name :> v)

Arms(f, args) ==
  LET arm == Def[f].arms[SelectArm(f, args)]
      v == Eval(arm.body, MatchArguments(arm.pattern, args).env, Bound(f, args))
  IN IF v = Error \/ Def[f].output = <<>> THEN v ELSE Coerce(v, Def[f].output[1].kind)

Statements(f, args) ==
  LET symbols == FoldLeft(Define, Bound(f, args), Def[f].statements)
  IN IF symbols = Error THEN Error
     ELSE IF Def[f].output = <<>> THEN Empty
     ELSE IF Def[f].output[1].name \in DOMAIN symbols
       THEN symbols[Def[f].output[1].name] ELSE Error

Call(f, args) ==
  IF Len(args) # Arity(f) THEN Error
  ELSE IF Broadcasts(f, args)
    THEN LET outputs == FoldLeft(LAMBDA vs, v : Append(vs, Call(f, <<v>>)), <<>>, Elements(args[1]))
         IN IF Error \in ToSet(outputs) \/ ~Assembles(f, outputs) THEN Error
            ELSE Assemble(f, outputs)
  ELSE IF ~BindsAll(f, args) THEN Error
  ELSE IF ~IsMatchArms(f) THEN Statements(f, args)
  ELSE IF SelectArm(f, args) = 0 THEN Error ELSE Arms(f, args)

Meaning(e) == Eval(e, NoBindings, Globals)

-----------------------------------------------------------------------------
Init == program \in Expressions /\ meaning = Empty /\ busy = FALSE

Begin == ~busy /\ busy' = TRUE /\ program' \in Expressions /\ meaning' = Empty

Finish == busy /\ busy' = FALSE /\ meaning' = Meaning(program) /\ UNCHANGED program

Next == Begin \/ Finish

Spec == Init /\ [][Next]_<<program, meaning, busy>>
=============================================================================
