-------------------------- MODULE MCFunctionCalls --------------------------
(* A small library of functions and the expressions that call them.          *)
EXTENDS FunctionCalls

Lit(kind, n) == [op |-> "literal", value |-> Scalar(kind, n)]
RowOf(kind, elements) == [op |-> "literal", value |-> Row(kind, elements)]
Nm(name) == [op |-> "name", name |-> name]
CallOf(fxn, args) == [op |-> "call", fxn |-> fxn, args |-> args, names |-> <<>>]
U64(n) == Lit("u64", n)
Sub1(e) == CallOf("sub", <<e, U64(1)>>)

AnyP == [form |-> "any"]
NameP(name) == [form |-> "name", name |-> name]
U64P(n) == [form |-> "literal", value |-> Scalar("u64", n)]
TupleP(parts) == [form |-> "tuple", parts |-> parts]

Arg(name, kind) == [name |-> name, kind |-> Kind(kind, "scalar")]
ArmOf(pattern, body) == [pattern |-> pattern, body |-> body]
Define(name, e) == [name |-> name, expression |-> e]

ByArms(input, kind, arms) ==
  [input |-> input, output |-> <<Arg("out", kind)>>, arms |-> arms, statements |-> <<>>]
ByStatements(input, output, statements) ==
  [input |-> input, output |-> output, arms |-> <<>>, statements |-> statements]

Library ==
  [ \* triangle(n): not a tail call; countdown(n, k): a tail call
    triangle |-> ByArms(<<Arg("n", "u64")>>, "u64",
      << ArmOf(U64P(0), U64(0)),
         ArmOf(NameP("n"), CallOf("add", <<Nm("n"), CallOf("triangle", <<Sub1(Nm("n"))>>)>>)) >>),
    countdown |-> ByArms(<<Arg("n", "u64"), Arg("k", "u64")>>, "u64",
      << ArmOf(TupleP(<<U64P(0), NameP("k")>>), Nm("k")),
         ArmOf(TupleP(<<NameP("n"), NameP("k")>>),
               CallOf("countdown", <<Sub1(Nm("n")), CallOf("add", <<Nm("k"), U64(1)>>)>>)) >>),
    \* same(n, k): a repeated pattern variable; next: f64, maps over rows
    same |-> ByArms(<<Arg("n", "u64"), Arg("k", "u64")>>, "u64",
      << ArmOf(TupleP(<<NameP("x"), NameP("x")>>), U64(1)), ArmOf(TupleP(<<AnyP, AnyP>>), U64(0)) >>),
    next |-> ByArms(<<Arg("n", "f64")>>, "f64",
      << ArmOf(AnyP, CallOf("add", <<Nm("n"), Lit("f64", 1)>>)) >>),
    \* partial: no arm for 1, a call with an argument too many; outer reads a global
    partial |-> ByArms(<<Arg("n", "u64")>>, "u64",
      << ArmOf(U64P(0), CallOf("builtin", <<>>)), ArmOf(U64P(2), CallOf("partial", <<U64(1), U64(1)>>)),
         ArmOf(U64P(3), Nm("g")) >>),
    double |-> ByStatements(<<Arg("n", "u64")>>, <<Arg("out", "u64")>>,
      << Define("k", CallOf("triangle", <<Nm("n")>>)), Define("out", CallOf("add", <<Nm("k"), Nm("k")>>)) >>),
    again |-> ByStatements(<<Arg("n", "u64")>>, <<>>, << Define("n", U64(0)) >>),
    nothing |-> ByStatements(<<Arg("n", "u64")>>, <<>>, << Define("k", Nm("n")) >>),
    missing |-> ByStatements(<<Arg("n", "u64")>>, <<Arg("out", "u64")>>, << Define("k", Nm("n")) >>),
    text |-> ByArms(<<Arg("n", "f64")>>, "f64", << ArmOf(AnyP, Lit("string", 7)) >>),
    minus |-> ByArms(<<Arg("n", "u64"), Arg("k", "u64")>>, "u64",
      << ArmOf(TupleP(<<NameP("n"), NameP("k")>>), CallOf("sub", <<Nm("n"), Nm("k")>>)) >>),
    \* spread(n): its recursive call passes a row
    spread |-> ByArms(<<Arg("n", "u64")>>, "u64",
      << ArmOf(U64P(0), U64(0)), ArmOf(AnyP, CallOf("spread", <<RowOf("u64", <<0, 0>>)>>)) >>) ]

AllFunctions == DOMAIN Library

SomeGlobals == [g |-> Scalar("u64", 2)]

Small == {U64(0), U64(1), U64(3), Nm("g"), Nm("n"), Lit("f64", 1), Lit("string", 1), RowOf("u64", <<1, 2>>)}

Unary == {"triangle", "next", "partial", "double", "again", "nothing", "missing", "text"}

OneCall == {CallOf(f, <<e>>) : f \in Unary, e \in Small}

TwoCalls == {CallOf("add", <<Nm("g"), CallOf(f, <<U64(3)>>)>>) : f \in Unary}

Binary == {CallOf(f, <<a, b>>) : f \in {"countdown", "same"}, a, b \in Small}

Others == {CallOf("unknown", <<U64(1)>>), CallOf("next", <<RowOf("f64", <<1, 2>>)>>),
           CallOf("next", <<CallOf("next", <<RowOf("f64", <<1, 2>>)>>)>>),
           CallOf("text", <<RowOf("f64", <<1, 2>>)>>),
           CallOf("triangle", <<>>), CallOf("same", <<CallOf("double", <<U64(2)>>), U64(6)>>)}

AllExpressions == OneCall \cup TwoCalls \cup Binary \cup Others

NamedCalls ==
  {[CallOf("minus", <<U64(1), U64(3)>>) EXCEPT !.names = names] : names \in {<<"n", "k">>, <<"k", "n">>}}

KeptSteps == {CallOf("double", <<U64(n)>>) : n \in 0..1}

SpreadingTailCalls == {CallOf("spread", <<U64(n)>>) : n \in 0..1}

DivergingCalls == NamedCalls \cup KeptSteps \cup SpreadingTailCalls

Meant == INSTANCE Evaluation WITH
  meaning <- IF answer.at = "returned" THEN answer.value
             ELSE IF answer.at = "raised" THEN [kind |-> "error", shape |-> "error", elements |-> <<>>]
             ELSE Empty,
  busy <- focus # Idle

\* Functions of Mech mean what their branches say: an evaluation comes to the value
\* (or to an error exactly where there is none) that reading the branches as
\* equations gives (the whole of functions.rs).
ImplementsEvaluation == Meant!Spec

\* functions.rs:492 "if the arm body is a direct recursive call with the same arity,
\* return new arguments instead of recursing": a tail call fails only where the
\* recursive call would.  It does not broadcast, so it fails on a row.
TailCallsMeanCalls == answer.at = "raised" => Meant!IsError(Meant!Meaning(program))

\* The call with its arguments put in the order of the declaration, if they are named.
InDeclaredOrder(e) ==
  IF e.names = <<>> THEN e
  ELSE [e EXCEPT !.args =
          [i \in DOMAIN e.args |-> e.args[CHOOSE j \in DOMAIN e.names :
                                            e.names[j] = Def[e.fxn].input[i].name]]]

\* docs/reference/function.mec:82 "named arguments, which allow arguments to be passed
\* in any order".  function_call binds by position and ignores the names.
NamedArgumentsInAnyOrder ==
  answer.at = "returned" => answer.value = Meant!Meaning(InDeclaredOrder(program))
=============================================================================
