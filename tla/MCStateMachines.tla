-------------------------- MODULE MCStateMachines --------------------------
(* Small programs that define and call state machines.                       *)
EXTENDS StateMachines

U(n) == [op |-> "literal", value |-> Value("u64", n)]
F(n) == [op |-> "literal", value |-> Value("f64", n)]
At(name) == [op |-> "literal", value |-> AtomValue(name)]
Nm(name) == [op |-> "name", name |-> name]
Op(op, l, r) == [op |-> op, left |-> l, right |-> r]
To(name, parts) == [name |-> name, parts |-> parts]

V(name) == [form |-> "name", name |-> name]
Ex(e) == [form |-> "expression", value |-> e]

Go(name, parts) == [op |-> "next", target |-> To(name, parts)]
Out(e) == [op |-> "output", target |-> To(Bare, <<e>>)]
Def(name, mutable, e) == [op |-> "define", name |-> name, mutable |-> mutable, value |-> e]
Set(name, e) == [op |-> "assign", name |-> name, value |-> e, block |-> FALSE]
BlockSet(name, e) == [Set(name, e) EXCEPT !.block = TRUE]

If(condition, transitions) == [condition |-> condition, transitions |-> transitions]
On(name, parts, branches) == [pattern |-> To(name, parts), branches |-> branches]
Does(name, parts, transitions) == On(name, parts, <<If(Anything, transitions)>>)

In(name, kind) == [name |-> name, kind |-> kind]
Impl(name, input, start, arms) ==
  [op |-> "implementation", fsm |-> [name |-> name, input |-> input, start |-> start, arms |-> arms]]
Declare(name, input, states) ==
  [op |-> "specification", spec |-> [name |-> name, input |-> input, states |-> states]]
Run1(name, args) == [op |-> "call", name |-> name, args |-> args]

OneInput == <<In("n", "u64")>>
Positive == Op("gt", Nm("n"), U(0))
Zero == Op("eq", Nm("n"), U(0))
Less == Op("sub", Nm("n"), U(1))

\* Two lights that count down, with their declaration.
Lights == Impl("lights", <<In("n", "any")>>, To("red", <<Nm("n")>>),
  << On("red", <<V("n")>>, <<If(Positive, <<Go("green", <<Less>>)>>), If(Zero, <<Go("done", <<U(0)>>)>>)>>),
     On("green", <<V("n")>>, <<If(Positive, <<Go("red", <<Less>>)>>), If(Zero, <<Go("done", <<U(0)>>)>>)>>),
     Does("done", <<V("out")>>, <<Out(Nm("out"))>>) >>)
LightsDeclared == Declare("lights", OneInput, {"red", "green", "done"})

Fibonacci == Impl("fib", OneInput, To("compute", <<Nm("n"), U(0), U(1)>>),
  << On("compute", <<V("n"), V("a"), V("b")>>,
        << If(Positive, <<Go("compute", <<Less, Nm("b"), Op("add", Nm("a"), Nm("b"))>>)>>),
           If(Zero, <<Go("done", <<Nm("a")>>)>>) >>),
     Does("done", <<V("n")>>, <<Out(Nm("n"))>>) >>)

\* A binding outlives its arm; a failed arm leaves none; guards fall through.
Scopes == Impl("scopes", OneInput, To("a", <<Nm("n"), U(2)>>),
  << Does("a", <<V("x"), Ex(U(9))>>, <<Out(U(9))>>),
     Does("a", <<V("n"), Ex(Nm("n"))>>, <<Go("b", <<Nm("n"), Nm("n")>>)>>),
     On("a", <<V("y"), Anything>>, <<If(Op("gt", Nm("y"), U(5)), <<Out(Nm("y"))>>)>>),
     On("a", <<V("z"), Ex(Op("add", Nm("n"), U(1)))>>, <<If(Op("gt", Nm("z"), U(0)), <<Go("c", <<U(7)>>)>>)>>),
     Does("a", <<Anything, Anything>>, <<Out(Nm("x"))>>),
     Does("b", <<V("w"), V("w")>>, <<Go("c", <<Op("add", Nm("w"), U(1))>>)>>),
     Does("c", <<V("v")>>, <<Out(Op("add", Nm("v"), Nm("z")))>>) >>)

\* A pattern in error, guards that are undefined or no Bool, outputs in error.
Errors == Impl("errors", OneInput, To("a", <<Nm("n")>>),
  << Does("a", <<Ex(U(1))>>, <<Go("a", <<Nm("unknown")>>)>>),
     Does("a", <<Ex(U(2))>>, <<Set("total", Nm("n")), Out(Nm("unknown"))>>),
     On("a", <<Ex(F(3))>>, <<If(Op("add", Nm("n"), U(0)), <<Out(Nm("n"))>>)>>),
     On("a", <<Ex(U(4))>>, <<If(Nm("unknown"), <<Out(Nm("n"))>>)>>),
     Does("a", <<Ex(Nm("unknown"))>>, <<Out(Nm("n"))>>) >>)

\* States no arm takes, a bare scalar as a state, a loop without end.
Halts == Impl("halts", OneInput, To("a", <<Nm("n")>>),
  << Does("a", <<Ex(U(1))>>, <<Go("a", <<U(5), U(5)>>)>>),
     Does("a", <<Ex(U(2))>>, <<Go(Bare, <<U(8)>>)>>),
     Does(Bare, <<Ex(U(8))>>, <<Go(Bare, <<F(9)>>)>>),
     Does("a", <<V("n")>>, <<Go("a", <<Nm("n")>>)>>) >>)
Catches == Impl("catches", <<>>, To(Bare, <<U(1)>>),
  << Does(Bare, <<Ex(U(2))>>, <<Out(U(2))>>), Does(Bare, <<Anything>>, <<Go(Bare, <<U(2)>>)>>) >>)

\* Statements: they change the program, see it, and may fail half way.
Statements == Impl("statements", OneInput, To("a", <<Nm("n")>>),
  << Does("a", <<Ex(U(1))>>, <<Def("local", TRUE, U(4)), Set("local", Nm("n")), BlockSet("total", Nm("local")), Out(Nm("total"))>>),
     Does("a", <<Ex(U(2))>>, <<Set("total", Op("add", Nm("n"), Nm("total"))), Go("a", <<U(3)>>), Go("a", <<U(0)>>)>>),
     Does("a", <<Ex(U(3))>>, <<Set("total", Nm("n")), BlockSet("total", Nm("n"))>>),
     Does("a", <<Ex(U(4))>>, <<Def("other", FALSE, Nm("n"))>>),
     Does("a", <<Ex(U(5))>>, <<Set("fixed", U(1))>>),
     Does("a", <<Ex(U(6))>>, <<Set("total", F(1))>>) >>)

\* A state whose next one is what it was called with, which may be the name of a state:
\* of its own, of one it has no arm for, or of one that sets things and waits to be left.
Relays == Impl("relays", <<In("n", "any"), In("m", "any")>>, To("a", <<Nm("n"), Nm("m")>>),
  << On("a", <<V("x"), V("y")>>, <<If(Op("eq", Nm("x"), Nm("y")), <<Out(Nm("x"))>>),
                                  If(Anything, <<Go(Bare, <<Nm("x")>>)>>)>>),
     On("b", <<>>, <<If(Op("eq", Nm("y"), At("d")), <<Go(Bare, <<Nm("y")>>)>>),
                    If(Op("gt", Nm("y"), At("c")), <<Out(Nm("y"))>>)>>),
     Does("d", <<>>, <<Def("kept", TRUE, At("b")), Set("kept", At("d"))>>),
     Does(Bare, <<Ex(U(1))>>, <<Go("a", <<At("b"), Nm("y")>>)>>) >>)
RelayPrograms ==
  {<<Relays, Run1("relays", <<x, y>>)>> : x \in {At("a"), At("b"), At("c"), U(1), U(2)}, y \in {At("c"), At("d"), U(1)}}

Uncovered == Impl("uncovered", OneInput, To("a", <<Nm("n")>>),
  << On("a", <<V("n")>>, <<If(Positive, <<Go("b", <<Nm("n")>>)>>), If(Zero, <<Out(Nm("n"))>>)>>) >>)
NoStart == Impl("nostart", OneInput, To("b", <<Nm("n")>>), << Does("a", <<V("n")>>, <<Out(Nm("n"))>>) >>)
Renamed == Declare("lights", <<In("k", "u64")>>, {"red"})

Calls(lines, names) ==
  {lines \o <<Run1(name, <<U(n)>>), Run1(name, <<U(n)>>)>> : name \in names, n \in 0..6}

MachinePrograms ==
  Calls(<<Lights, LightsDeclared>>, {"lights"}) \cup Calls(<<Fibonacci>>, {"fib"})
  \cup Calls(<<Scopes>>, {"scopes"}) \cup Calls(<<Errors>>, {"errors", "none"})
  \cup Calls(<<Halts>>, {"halts"}) \cup Calls(<<Statements>>, {"statements"})
  \cup Calls(<<Uncovered>>, {"uncovered"}) \cup Calls(<<NoStart>>, {"nostart"})
  \cup Calls(<<Lights, Renamed>>, {"lights"}) \cup Calls(<<Lights, [Halts EXCEPT !.fsm.name = "lights"]>>, {"lights"})
  \cup { <<Catches, Run1("catches", <<>>), Run1("catches", <<U(1)>>)>>,
         <<Lights, Run1("lights", <<F(0)>>), LightsDeclared, Run1("lights", <<F(0)>>), Run1("lights", <<Op("add", Nm("total"), U(0))>>)>>,
         <<Fibonacci, Run1("fib", <<Nm("unknown")>>), Run1("fib", <<Op("add", U(1), F(1))>>)>> }

\* Every machine of up to three of these arms, in every order, run once or twice.
Pool ==
  { Does("a", <<V("x"), V("x")>>, <<Go("b", <<Nm("x")>>)>>),
    Does("a", <<V("y"), Ex(Nm("y"))>>, <<Out(Nm("y"))>>),
    Does("a", <<V("n"), Ex(U(2))>>, <<Set("total", Nm("n")), Go("b", <<Op("add", Nm("total"), U(0))>>)>>),
    On("a", <<V("x"), V("y")>>, <<If(Op("gt", Nm("x"), Nm("y")), <<Go("a", <<Nm("y"), Nm("x")>>)>>),
                                  If(Op("eq", Nm("x"), Nm("y")), <<Out(Nm("x"))>>)>>),
    On("a", <<V("x"), Anything>>, <<If(Op("eq", Nm("x"), U(0)), <<Go("b", <<Nm("n")>>)>>),
                                    If(Anything, <<Go("a", <<Op("sub", Nm("x"), U(1)), Nm("n")>>)>>)>>),
    Does("a", <<Ex(Nm("total")), V("k")>>, <<Go("b", <<Nm("k")>>), BlockSet("total", U(2))>>),
    Does("b", <<V("z")>>, <<Go("a", <<Nm("z"), Op("add", Nm("z"), U(0))>>)>>),
    On("b", <<V("n")>>, <<If(Op("gt", Nm("total"), Nm("n")), <<Out(Nm("x"))>>)>>),
    Does("b", <<Ex(Nm("x"))>>, <<Out(Nm("total"))>>),
    Does(Bare, <<Anything>>, <<Def("local", TRUE, Op("add", Nm("total"), U(0))), Out(Nm("local"))>>) }

GeneratedPrograms ==
  UNION {{<<Impl("gen", OneInput, To("a", <<Nm("n"), U(1)>>), arms), Run1("gen", <<U(n)>>), Run1("gen", <<U(1)>>)>> :
            arms \in [1..size -> Pool]} : size \in 1..3, n \in 0..2}

\* It halts, with no arm for the state it is in, after n transitions.
Stops == Impl("stops", OneInput, To("a", <<Nm("n")>>), << On("a", <<V("n")>>, <<If(Positive, <<Go("a", <<Less>>)>>)>>) >>)
StopPrograms == {<<Stops, Run1("stops", <<U(n)>>)>> : n \in 0..6}

Overwrites == Impl("overwrites", OneInput, To("a", <<Nm("n")>>), << Does("a", <<V("m")>>, <<Set("total", U(5)), Out(Nm("m"))>>) >>)
OverwritePrograms == {<<Overwrites, Run1("overwrites", <<e>>)>> : e \in {U(1), Nm("fixed"), Nm("total")}}

UndeclaredPrograms == {<<Lights, Renamed, LightsDeclared, Run1("lights", <<U(1)>>)>>,
                       <<Lights, Declare("lights", OneInput, {"red", "green"}), Run1("lights", <<U(1)>>)>>}

Ready == Impl("ready", OneInput, To("a", <<Nm("n")>>), << On("a", <<V("m")>>, <<If(Nm("flag"), <<Out(Nm("m"))>>)>>) >>)
FlagPrograms == {<<Ready, Run1("ready", <<U(1)>>)>>}

DivergingPrograms == UndeclaredPrograms \cup FlagPrograms \cup StopPrograms \cup OverwritePrograms
                     \cup RelayPrograms
DivergingGlobals == [total |-> Value("u64", 1), fixed |-> Value("u64", 2), flag |-> Bool(TRUE)]

AllPrograms == MachinePrograms \cup RelayPrograms \cup GeneratedPrograms

MachineGlobals == [total |-> Value("u64", 1), fixed |-> Value("u64", 2)]

ASSUME Programs = AllPrograms => NothingIsShared

-----------------------------------------------------------------------------
\* state_machines.rs:494 "FSM exceeded maximum transition limit": a machine fails for the
\* limit only if it would make another transition.  The loop ends before it is looked
\* whether any arm still applies.
LimitMeansExceeded ==
  [][answer # answer' /\ answer' = Error("limit") => Meant!Decision # Meant!NoPlace]_vars

\* functions.rs:841 arguments are stored as "plain owned values, not live references into
\* other cells": what a machine's names and state stand for changes by its own
\* transitions, never by an assignment to a variable of the program.
OwnedValues ==
  [][at = "apply" /\ at' = "apply" /\ state' = state =>
       Values(armEnv)' = Values(armEnv) /\ Values(state.cells)' = Values(state.cells)]_vars

\* docs/reference/state-machine.mec:30 "Every transition target must be one of the declared
\* states."  The declared states are never looked at.
EnteredStatesAreDeclared ==
  at # "idle" /\ fsm.name \in DOMAIN specs => state.name \in specs[fsm.name].states

\* docs/reference/state-machine.mec:30 "Every transition target must be one of the declared
\* states." and FsmUndefinedStateError: no named state is entered that no arm is written
\* for.  A target that is an expression is not looked at, and may come to the name of one.
EnteredStatesHaveArms ==
  at # "idle" /\ StateNames(fsm) # {} => state.name \in StateNames(fsm) \cup {Bare}

\* state_machines.rs:474 "must evaluate to Bool": a guard that evaluates to a Bool is not
\* an error.  One that names a variable of the program is, being a reference to a Bool.
GuardErrorsAreNotBool ==
  [][answer # answer' /\ answer' = Error("not bool") =>
       Meant!ConditionVerdict(Branches[branch].condition, Meant!Bindings(fsm.arms[arm].pattern)) = "error"]_vars
=============================================================================
