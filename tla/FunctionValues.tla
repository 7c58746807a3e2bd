-------------------------- MODULE FunctionValues --------------------------
(***************************************************************************)
(* The values, patterns and definitions that Mech's function calls work    *)
(* on.  A value is a scalar of some kind or a row of scalars of one kind.  *)
(* Kinds are f64 and u64 (natural numbers that convert into each other)    *)
(* and string, which converts into neither.  A native function stands for  *)
(* every compiled operator, formulas included.                             *)
(***************************************************************************)
EXTENDS Integers, Sequences, SequencesExt

CONSTANTS
  Names,       \* names of variables, arguments and pattern variables
  Functions,   \* names of the user functions
  Def,         \* their definitions
  Natives,     \* names with a native compiler; any other name is unknown
  Expressions  \* what is evaluated at the top level

Numeric == {"f64", "u64"}
Kinds == Numeric \cup {"string"}

Kind(kind, shape) == [kind |-> kind, shape |-> shape]
Scalar(kind, n) == [kind |-> kind, shape |-> "scalar", elements |-> <<n>>]
Row(kind, elements) == [kind |-> kind, shape |-> "row", elements |-> elements]

\* The value of a function that declares no output.
Empty == [kind |-> "empty", shape |-> "empty", elements |-> <<>>]

\* "boxed" is the row of values that a broadcast over anything but f64 returns.
IsRow(v) == v.shape \in {"row", "boxed"}

Elements(v) == [i \in DOMAIN v.elements |-> Scalar(v.kind, v.elements[i])]

-----------------------------------------------------------------------------
(* Conversion to a declared kind.                                          *)

Convertible(v, to) ==
  /\ v.shape = to.shape
  /\ v.kind = to.kind \/ {v.kind, to.kind} \subseteq Numeric

\* A row declared without dimensions is accepted as it is; a scalar is converted.
Convert(v, to) == IF IsRow(v) THEN v ELSE [v EXCEPT !.kind = to.kind]

Coerce(v, to) == IF Convertible(v, to) THEN Convert(v, to) ELSE v

-----------------------------------------------------------------------------
(* Native functions: one or two numeric operands of one kind, rows element *)
(* by element.                                                             *)

Operands(args) ==
  /\ Len(args) = 2
  /\ args[1].kind = args[2].kind /\ args[1].kind \in Numeric
  /\ {args[1].shape, args[2].shape} \subseteq {"scalar", "row"}
  /\ IsRow(args[1]) /\ IsRow(args[2]) => Len(args[1].elements) = Len(args[2].elements)

At(v, i) == IF IsRow(v) THEN v.elements[i] ELSE v.elements[1]

Combine(op, a, b) == IF op = "add" THEN a + b ELSE IF a > b THEN a - b ELSE 0

NativeResult(op, args) ==
  LET rows == SelectSeq(args, IsRow)
      size == IF rows = <<>> THEN 1 ELSE Len(rows[1].elements)
  IN [args[1] EXCEPT
        !.shape = IF rows = <<>> THEN "scalar" ELSE "row",
        !.elements = [i \in 1..size |-> Combine(op, At(args[1], i), At(args[2], i))]]

-----------------------------------------------------------------------------
(* Patterns: wildcard, variable, literal, and the tuple a function of      *)
(* several arguments is matched with.  Matching extends an environment.    *)

Matches(pattern, v, env) ==
  CASE pattern.form = "any"     -> TRUE
    [] pattern.form = "name"    -> pattern.name \in DOMAIN env => env[pattern.name] = v
    [] pattern.form = "literal" ->
         \/ pattern.value = v
         \/ /\ {pattern.value.kind, v.kind} = Numeric
            /\ pattern.value.shape = v.shape /\ v.shape = "scalar"
            /\ pattern.value.elements = v.elements
    [] pattern.form = "tuple"   -> FALSE

Extend(pattern, v, env) ==
  IF pattern.form = "name" THEN env @@ (pattern.name :> v) ELSE env

NoBindings == <<>>

\* Folds the parts of a tuple over the arguments, left to right.
MatchParts(parts, args) ==
  FoldLeft(LAMBDA m, i : IF m.matched /\ Matches(parts[i], args[i], m.env)
                           THEN [m EXCEPT !.env = Extend(parts[i], args[i], @)]
                           ELSE [m EXCEPT !.matched = FALSE],
           [matched |-> TRUE, env |-> NoBindings], [i \in 1..Len(args) |-> i])

MatchArguments(pattern, args) ==
  IF Len(args) = 1
    THEN MatchParts(<<pattern>>, args)
    ELSE IF pattern.form = "tuple" /\ Len(pattern.parts) = Len(args)
           THEN MatchParts(pattern.parts, args)
           ELSE [matched |-> FALSE, env |-> NoBindings]

-----------------------------------------------------------------------------
(* Definitions.                                                            *)

Arity(f) == Len(Def[f].input)

IsMatchArms(f) == Def[f].arms # <<>>

\* The first arm that matches the arguments, 0 if none does.
SelectArm(f, args) ==
  SelectInSeq(Def[f].arms, LAMBDA arm : MatchArguments(arm.pattern, args).matched)

\* One scalar in, one scalar of the same kind out: applied to a row it maps.
Broadcasts(f, args) ==
  /\ Len(args) = 1 /\ Len(Def[f].output) = 1 /\ Arity(f) = 1
  /\ IsRow(args[1])
  /\ Def[f].input[1].kind = Def[f].output[1].kind
  /\ Def[f].input[1].kind.shape # "row"

\* as_f64().expect(): only a function declared to return f64 can panic here.
Assembles(f, outputs) ==
  Def[f].output[1].kind.kind = "f64" =>
    \A i \in DOMAIN outputs : outputs[i].kind \in Numeric /\ outputs[i].shape = "scalar"

Assemble(f, outputs) ==
  LET f64 == Def[f].output[1].kind.kind = "f64"
  IN [kind |-> IF f64 THEN "f64" ELSE Head(outputs).kind,
      shape |-> IF f64 THEN "row" ELSE "boxed",
      elements |-> [i \in DOMAIN outputs |-> Head(outputs[i].elements)]]

\* Arguments are bound by position; the name written at the call is not looked at.
Bound(f, args) ==
  [name \in {Def[f].input[i].name : i \in 1..Arity(f)} |->
     LET i == CHOOSE j \in 1..Arity(f) : Def[f].input[j].name = name
     IN Convert(args[i], Def[f].input[i].kind)]

BindsAll(f, args) == \A i \in 1..Arity(f) : Convertible(args[i], Def[f].input[i].kind)
=============================================================================
