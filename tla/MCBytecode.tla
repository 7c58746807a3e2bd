------------------------------ MODULE MCBytecode ------------------------------
(***************************************************************************)
(* Every program of up to three statements over numbers, wide integers,    *)
(* strings, flags, matrices, records and kinds, compiled and loaded.       *)
(*                                                                         *)
(* A number's n is the number, a matrix's n its elements as digits, the n  *)
(* of any other value tells it from others of its kind.  An index is a     *)
(* number, too.                                                            *)
(***************************************************************************)
EXTENDS LoadedProgram

Number == 1   Text == 2   Flag == 3   Wide == 4   Mat == 5   Rec == 6   Kind == 7
MCKinds == 1..7
MCSize == <<8, 5, 1, 16, 24, 6, 0>>
MCAlign == <<8, 8, 1, 16, 8, 8, 1>>
MCElement == (Mat :> Number)
MCCompilable == 1..6
MCDecodable == 1..5

Define == 201   Add == 202   Assign == 203   AddAssign == 204   Join == 205   Convert == 206
Spread == 207   SetAt == 208
MCFunctions == 201..208
MCVariadic == {Join}
MCRegistered == MCFunctions \ {Convert}

\* The factory of `matrix += scalar` (op_assign/mod.rs:422) takes one operand more than
\* compile emits (:467); that of `matrix[index] = value` (assign/matrix.rs:155) takes the
\* value first, compile (:196) emits the index first.
MCTakes == [f \in MCFunctions \ MCVariadic |->
              CASE f \in {Define, Add, Spread} -> <<1, 2, 3>>
                [] f \in {Assign, AddAssign, Convert} -> <<1, 2>>
                [] f = SetAt -> <<1, 3, 2>>]

V(kind, n) == [kind |-> kind, n |-> n]
MCSolved(fxn, values) ==
  CASE fxn = Add -> V(Number, values[2].n + values[3].n)
    [] fxn = Assign -> values[2]
    [] fxn = AddAssign -> V(Number, values[1].n + values[2].n)
    [] fxn = Join -> V(Mat, FoldLeft(LAMBDA n, v : 10 * n + v.n, 0, Tail(values)))
    [] fxn = Convert -> V(Wide, values[2].n)
    [] fxn = Spread -> V(Mat, values[1].n + values[2].n)
    [] fxn = SetAt -> V(Mat, 10 * values[2].n + values[3].n)
    [] OTHER -> values[1]

\* Statements append cells and steps; a step is solved when it is appended.
Do(s, step) == [s EXCEPT !.heap = Solve(@, step), !.plan = Append(@, step)]
With(s, values) == [s EXCEPT !.heap = @ \o values]
New(s) == Len(s.heap) + 1
Bound(s, cell) ==
  LET n == New(s)
  IN [Do(With(s, <<V(Text, n), V(Flag, 1)>>), [fxn |-> Define, cells |-> <<cell, n, n + 1>>])
      EXCEPT !.vars = Append(@, cell), !.result = cell]

Literal(s, kind) == Bound(With(s, <<V(kind, New(s))>>), New(s))
Sum(s, a, b) == Bound(Do(With(s, <<V(Number, 0)>>), [fxn |-> Add, cells |-> <<New(s), a, b>>]), New(s))
Update(s, f, a, b) == [Do(s, [fxn |-> f, cells |-> <<a, b>>]) EXCEPT !.result = a]
Row(s, as) == Bound(Do(With(s, <<V(Mat, 0)>>), [fxn |-> Join, cells |-> <<New(s)>> \o as]), New(s))
Put(s, m) ==
  LET i == New(s)
      put == [fxn |-> SetAt, cells |-> <<m, i, i + 1>>]
  IN [Do(With(s, <<V(Number, 1), V(Number, 2)>>), put) EXCEPT !.result = m]
Cast(s, a) == Bound(Do(With(s, <<V(Wide, 0)>>), [fxn |-> Convert, cells |-> <<New(s), a>>]), New(s))
Show(s, a) == [s EXCEPT !.result = a]

Vars(s, kind) == {c \in ToSet(s.vars) : s.heap[c].kind = kind}
After(s) ==
  {Literal(s, k) : k \in {Number, Wide, Mat}} \cup {Show(s, a) : a \in ToSet(s.vars)}
    \cup UNION {{Sum(s, a, b), Update(s, Assign, a, b), Update(s, AddAssign, a, b)} :
                  a, b \in Vars(s, Number)}
    \cup {Row(s, <<a, b>>) : a, b \in Vars(s, Mat)} \cup {Cast(s, a) : a \in Vars(s, Number)}
    \cup {Row(s, <<a, b, a, b, a>>) : a, b \in Vars(s, Mat)}
    \cup {Update(s, Spread, m, a) : m \in Vars(s, Mat), a \in Vars(s, Number)}
    \cup {Put(s, m) : m \in Vars(s, Mat)}
Blank == [heap |-> <<>>, plan |-> <<>>, vars |-> <<>>, result |-> 0]

One == {Literal(Blank, k) : k \in MCKinds}
Two == UNION {After(s) : s \in One}
Three == UNION {After(s) : s \in Two}
MCSources == {Blank} \cup One \cup Two \cup Three

-----------------------------------------------------------------------------
(* Properties.                                                             *)

Settled == \A i \in DOMAIN plan : Solve(heap, plan[i]) = heap

\* If stepping the compiled plan would change nothing, stepping the loaded one changes
\* nothing either, although its steps share no cells (a plan with a step whose operands
\* changed places is not stepped here, StepMisread).
SettledStaysSettled ==
  phase = "ran" /\ Settled =>
    \A i \in DOMAIN plan :
      Values(cells, steps[i]) = AsTaken(plan[i].fxn, Values(heap, plan[i]))

\* Running the loaded program gives what interpreting the source gave
\* (tests/bytecode.rs:34, assert_eq!(result, $expected)).
ResultIsTheSources ==
  phase = "ran" /\ passes = 0 /\ out # Empty =>
    cells[out] = heap[source.result]

\* A function built from its instruction reads what the step that compile was called on
\* read, operand by operand.
OperandsKeepTheirPlaces ==
  phase = "ran" /\ passes = 0 =>
    \A i \in DOMAIN plan : Values(cells, steps[i]) = Values(heap, plan[i])

\* A function's factory takes what its own compile emits.
FactoriesTakeWhatIsEmitted ==
  phase = "failed" =>
    \/ \E c \in ToSet(consts) : types[c.type + 1] \notin Decodable
    \/ \E i \in DOMAIN plan : plan[i].fxn \notin Registered

\* Stepping the loaded plan does what stepping the compiled one does.
StepsLikeTheSource ==
  phase = "ran" /\ passes = 1 =>
    \A i \in DOMAIN plan : Values(cells, steps[i]) = Values(Pass(heap, plan), plan[i])
=============================================================================
