---------------------------- MODULE SetPrograms -----------------------------
(***************************************************************************)
(* Programs over sets: statements that define sets by literals, operators, *)
(* library functions and comprehensions, interleaved with assignments to   *)
(* the numbers they were made from, and steps of the plan.                 *)
(*                                                                         *)
(* A statement appends its functions to the plan and solves them.  A step  *)
(* solves the functions of the plan one after the other, each on what its  *)
(* operands are by then.  (The function that gives a set its name solves   *)
(* to nothing and is not kept here.)                                       *)
(***************************************************************************)
EXTENDS Sets, FiniteSets

CONSTANTS
  Initials,  \* what the variables of Names hold when the statements begin
  Script,    \* bound: Script[i] is the set of statements the i-th may be
  MaxSteps   \* bound: how often the plan is stepped

VARIABLES
  values,    \* the results of functions: sets, truths and counts
  names,     \* names[i]: the result that the i-th statement gave a name
  plan,      \* the functions that a step solves
  at,        \* the function a running step solves next; 0 when none runs
  steps,     \* how often the plan was stepped
  solved,    \* the function solved last (for the properties)
  outcome    \* whether the last statement was an error

vars == <<numbers, values, names, plan, at, steps, solved, outcome>>

-----------------------------------------------------------------------------
(* Expressions and statements.                                             *)

Variable(i)      == [source |-> "variable", index |-> i]
Inline(elems)    == [source |-> "inline", elems |-> elems]

Literal(elems)   == [op |-> "define", elems |-> elems]
Unary(op, s)     == [op |-> op, sets |-> <<s>>]
Binary(op, s, t) == [op |-> op, sets |-> <<s, t>>]
Element(op, s, e) == [op |-> op, sets |-> <<s>>, elem |-> e]
Comprehend(s)    == [op |-> "comprehension", sets |-> <<s>>]
Filtered(s, t)   == [op |-> "comprehension", sets |-> <<s, t>>]

Define(expr)     == [do |-> "define", expr |-> expr]
Assign(x, n)     == [do |-> "assign", name |-> x, to |-> n]
AddAssign(x, n)  == [do |-> "add_assign", name |-> x, to |-> n]

UnaryOps   == {"powerset", "size"}
Relations  == {"subset", "superset", "proper_subset", "proper_superset", "equals",
               "not_equals", "disjoint"}
BinaryOps  == {"union", "intersection", "difference", "symmetric_difference",
               "cartesian_product"} \cup Relations
Memberships == {"element_of", "not_element_of"}
ElementOps == {"insert", "remove"} \cup Memberships

Truth(b) == [truth |-> b]
Count(n) == [count |-> n]
IsSet(v) == "items" \in DOMAIN v

-----------------------------------------------------------------------------
(* Functions: what solving one gives, on the results vs.                   *)

Solved(f, vs) ==
  LET lhs == vs[f.args[1]]
      rhs == vs[f.args[Len(f.args)]]
  IN  CASE f.op = "define" -> vs[f.out]
        [] f.op = "union" -> SetUnion(lhs, rhs)
        [] f.op = "intersection" -> SetIntersection(lhs, rhs)
        [] f.op = "difference" -> SetDifference(lhs, rhs)
        [] f.op = "symmetric_difference" -> SetSymDifference(lhs, rhs)
        [] f.op = "cartesian_product" -> SetCartesianProduct(lhs, rhs)
        [] f.op = "powerset" -> SetPowerset(lhs)
        [] f.op = "size" -> Count(SetSize(lhs))
        [] f.op = "insert" -> SetInsert(lhs, f.elem, vs[f.out])
        [] f.op = "remove" -> SetRemove(lhs, f.elem)
        [] f.op = "element_of" -> Truth(SetElementOf(f.elem, lhs))
        [] f.op = "not_element_of" -> Truth(SetNotElementOf(f.elem, lhs))
        [] f.op = "subset" -> Truth(SetSubset(lhs, rhs))
        [] f.op = "superset" -> Truth(SetSuperset(lhs, rhs))
        [] f.op = "proper_subset" -> Truth(SetProperSubset(lhs, rhs))
        [] f.op = "proper_superset" -> Truth(SetProperSuperset(lhs, rhs))
        [] f.op = "equals" -> Truth(SetEquals(lhs, rhs))
        [] f.op = "not_equals" -> Truth(SetNotEquals(lhs, rhs))
        [] f.op = "disjoint" -> Truth(SetDisjoint(lhs, rhs))
        [] f.op = "comprehension" ->
             FromVec([i \in DOMAIN f.elems |-> Detached(f.elems[i])])

\* What a function holds before it is solved for the first time.
New(op, args, vs) ==
  IF op = "insert" THEN MechSet(vs[args[1]].kind, << >>) ELSE FromSet(<< >>)

-----------------------------------------------------------------------------
(* Evaluation, on a state [values, plan, error] of the program.            *)

Now == [values |-> values, plan |-> plan, error |-> FALSE]

\* Plausible bug: the newest function is solved first in a step.
MutNewestFirst(st, f, result) ==
  [st EXCEPT !.values = Append(@, result), !.plan = <<f>> \o @]

Pushed(st, f, result) ==
  [st EXCEPT !.values = Append(@, result), !.plan = Append(@, f)]

\* Plausible bug: insert adds to the set it is given, to save a copy.
MutInPlace(st, f) ==
  LET place == IF f.op = "insert" THEN f.args[1] ELSE Len(st.values) + 1
      g == [f EXCEPT !.out = place]
      vs == Append(st.values, New(f.op, f.args, st.values))
      result == Solved(g, vs)
  IN  Pushed([st EXCEPT !.values = IF f.op = "insert" THEN [@ EXCEPT ![place] = result] ELSE @], g, result)

\* f, with its result in a place of its own, is solved and joins the plan.
Run(st, f) ==
  LET out == Len(st.values) + 1
      g == [f EXCEPT !.out = out]
      vs == Append(st.values, New(f.op, f.args, st.values))
  IN  Pushed(st, g, Solved(g, vs))

OneKind(elems) == \A i \in DOMAIN elems : Kind(elems[i]) = Kind(elems[1])

Set(st, elems) ==
  IF ~OneKind(elems) THEN [st EXCEPT !.error = TRUE]
  ELSE Pushed(st, [op |-> "define", args |-> << >>, out |-> Len(st.values) + 1], FromVec(elems))

\* An operand: the state after it, and the result it is.
Operand(st, s) ==
  IF s.source = "variable" THEN [st |-> st, at |-> names[s.index]]
  ELSE [st |-> Set(st, s.elems), at |-> Len(st.values) + 1]

\* The arguments are dereferenced when the set is behind a reference, and
\* taken as they are when it is not.
Deref(e, s) == IF s.source = "variable" THEN Detached(e) ELSE e

ClearPlan(st) == [st EXCEPT !.plan = << >>]

\* The environments of {e | e <- s, e \in t}: the filter is a function for
\* every element of s, and those it is true of are kept.
Environments(st, s, filters) ==
  LET source == Operand(ClearPlan(st), s)
      elems == Elements(source.st.values[source.at].items)
      Test(acc, e) ==
        LET t == Operand(acc.st, filters[1])
            after == Run(t.st, [op |-> "element_of", args |-> <<t.at>>,
                                elem |-> Deref(e, filters[1]), out |-> 0])
        IN  [st |-> after,
             kept |-> IF after.values[Len(after.values)].truth THEN Append(acc.kept, e) ELSE acc.kept]
  IN  IF filters = << >> THEN [st |-> source.st, kept |-> elems]
      ELSE FoldLeft(Test, [st |-> source.st, kept |-> << >>], elems)

SetComprehension(st, expr) ==
  LET envs == Environments(st, expr.sets[1], Tail(expr.sets))
  IN  Run(envs.st, [op |-> "comprehension", args |-> << >>, elems |-> envs.kept, out |-> 0])

Expression(st, expr) ==
  IF expr.op = "define" THEN Set(st, expr.elems)
  ELSE IF expr.op = "comprehension" THEN SetComprehension(st, expr)
  ELSE LET first == Operand(st, expr.sets[1])
           last == IF Len(expr.sets) = 1 THEN first ELSE Operand(first.st, expr.sets[2])
           f == [op |-> expr.op, args |-> <<first.at, last.at>>, out |-> 0]
       IN  IF expr.op \in ElementOps
             THEN Run(last.st, f @@ [elem |-> Deref(expr.elem, expr.sets[1])])
             ELSE Run(last.st, f)

-----------------------------------------------------------------------------
(* Behaviour.                                                              *)

Init ==
  /\ numbers \in Initials
  /\ values = << >> /\ names = << >> /\ plan = << >>
  /\ at = 0 /\ steps = 0 /\ solved = 0
  /\ outcome = "ok"

AtRest == at = 0 /\ outcome = "ok"

\* Whether the sets an expression names are sets.
Defined(expr) ==
  "sets" \in DOMAIN expr =>
    \A i \in DOMAIN expr.sets : expr.sets[i].source = "variable" =>
      /\ expr.sets[i].index \in DOMAIN names /\ names[expr.sets[i].index] # 0
      /\ IsSet(values[names[expr.sets[i].index]])

VariableDefine(s) ==
  LET st == Expression(Now, s.expr)
  IN  /\ s.do = "define" /\ Defined(s.expr)
      /\ \/ st.error /\ outcome' = "error"
            /\ UNCHANGED <<values, names, plan, solved>>
         \/ ~st.error /\ outcome' = "ok"
            /\ values' = st.values /\ plan' = st.plan
            /\ names' = Append(names, Len(st.values)) /\ solved' = Len(st.plan)
      /\ UNCHANGED <<numbers, at, steps>>

Assigned(f) ==
  [numbers EXCEPT ![f.name] = IF f.op = "assign" THEN f.to ELSE @ + f.to]

VariableAssign(s) ==
  LET f == [op |-> s.do, name |-> s.name, to |-> s.to]
  IN  /\ s.do \in {"assign", "add_assign"}
      /\ numbers' = Assigned(f) /\ plan' = Append(plan, f)
      /\ names' = Append(names, 0) /\ solved' = Len(plan')
      /\ UNCHANGED <<values, at, steps, outcome>>

Statement ==
  /\ AtRest /\ steps = 0 /\ Len(names) < Len(Script)
  /\ \E s \in Script[Len(names) + 1] : VariableDefine(s) \/ VariableAssign(s)

Step ==
  /\ AtRest /\ plan # << >> /\ steps < MaxSteps
  /\ at' = 1 /\ steps' = steps + 1 /\ solved' = 0
  /\ UNCHANGED <<numbers, values, names, plan, outcome>>

IsAssign(f) == f.op \in {"assign", "add_assign"}

Solve ==
  /\ at # 0
  /\ LET f == plan[at]
     IN  IF IsAssign(f) THEN numbers' = Assigned(f) /\ UNCHANGED values
         ELSE values' = [values EXCEPT ![f.out] = Solved(f, values)] /\ UNCHANGED numbers
  /\ solved' = at
  /\ at' = IF at = Len(plan) THEN 0 ELSE at + 1
  /\ UNCHANGED <<names, plan, steps, outcome>>

Next == Statement \/ Step \/ Solve

Spec == Init /\ [][Next]_vars

-----------------------------------------------------------------------------
(* What the functions promise, stated on the values in the sets.           *)

Pairs(l, r) == {[form |-> "pair", of |-> {a \o b : a \in x.of, b \in y.of}] : x \in l, y \in r}

SubsetsOf(l) == {[form |-> "set", of |-> UNION {x.of : x \in part}] : part \in SUBSET l}

OperationOf(op, l, r) ==
  CASE op = "union" -> l \cup r
    [] op = "intersection" -> l \cap r
    [] op = "difference" -> l \ r
    [] op = "symmetric_difference" -> (l \ r) \cup (r \ l)
    [] op = "cartesian_product" -> Pairs(l, r)
    [] op = "powerset" -> SubsetsOf(l)

RelationOf(op, l, r) ==
  CASE op = "subset" -> l \subseteq r
    [] op = "superset" -> r \subseteq l
    [] op = "proper_subset" -> l \subseteq r /\ l # r
    [] op = "proper_superset" -> r \subseteq l /\ l # r
    [] op = "equals" -> l = r
    [] op = "not_equals" -> l # r
    [] op = "disjoint" -> l \cap r = {}

Flat(s) == \A i \in DOMAIN s.items : s.items[i].elem.form \in {"number", "named"}

\* The operands of f hold each value once, under its hash, and can be compared;
\* Meaning looks two levels deep.
Sound(f) ==
  /\ f.op \in {"powerset", "cartesian_product"} => \A a \in ToSet(f.args) : Flat(values[a])
  /\ \A a \in ToSet(f.args) : Fresh(values[a]) /\ Distinct(values[a])
  /\ \A a, b \in ToSet(f.args) : Alike(values[a], values[b])

\* insert, remove and the memberships mean nothing for an element of another kind.
SameKind(f) == f.op \in ElementOps => values[f.args[1]].kind = Kind(f.elem)

\* The result of f is what its operator means for the operands it has now.
Agrees(f) ==
  LET l == Members(values[f.args[1]])
      r == Members(values[f.args[Len(f.args)]])
      e == Meaning(f.elem)
      out == values[f.out]
  IN  CASE f.op \in Relations -> out.truth = RelationOf(f.op, l, r)
        [] f.op = "size" -> out.count = Cardinality(l)
        [] f.op = "element_of" -> out.truth = (e \in l)
        [] f.op = "not_element_of" -> out.truth = (e \notin l)
        [] f.op = "insert" -> Members(out) = l \cup {e} /\ Distinct(out)
        [] f.op = "remove" -> Members(out) = l \ {e} /\ Distinct(out)
        [] OTHER -> Members(out) = OperationOf(f.op, l, r) /\ Distinct(out)

Operators == BinaryOps \cup UnaryOps \cup ElementOps
AgreesIfSound(f) == f.op \in Operators /\ Sound(f) /\ SameKind(f) => Agrees(f)

-----------------------------------------------------------------------------
(* Properties.                                                             *)

\* Every function of the set library, at every solve, gives the set, the
\* relation or the count that mathematics gives for what its operands hold at
\* that moment, if they hold values of one kind under their hashes.
FunctionsAgree == solved # 0 => AgreesIfSound(plan[solved])

OnlyLiterals == \A k \in DOMAIN plan : plan[k].op # "add_assign"

\* A step leaves the whole plan solved: every function agrees with the operands
\* as the step left them, not as they were when its turn came, unless the
\* program changes a number again each time it is stepped.
StepsLeaveThePlanSolved ==
  AtRest /\ steps > 0 /\ OnlyLiterals => \A k \in DOMAIN plan : AgreesIfSound(plan[k])

\* Solving a plan that assigns nothing, once more or at all after the statements
\* solved it, leaves every result as it is, its kind included, although insert
\* reads its result so far and elements are hashed as they are stored anew.
SolvingAgainChangesNothing ==
  [][at # 0 /\ (\A k \in DOMAIN plan : ~IsAssign(plan[k])) => values' = values]_vars

Collecting == {"union", "intersection", "difference", "symmetric_difference",
               "cartesian_product", "comprehension"}

\* What these collect holds each value once, also when the tables they collect
\* from were filled before a variable in them was assigned.
CollectedAreDistinct ==
  solved # 0 /\ plan[solved].op \in Collecting => Distinct(values[plan[solved].out])

-----------------------------------------------------------------------------
(* What the repository says and the code does not do.                      *)

\* src/interpreter/src/functions.rs, execute_native_function_compiler: what was
\* called is kept "in the plan for reactive re-evaluation".
CalledStaysInPlan == [][IsPrefix(plan, plan')]_vars

\* docs/reference/set.mec:160: "Sets are immutable, meaning that once they are
\* created you cannot add or remove elements from them": what a set holds is the
\* same after every statement.
SetsAreImmutable ==
  [][at = 0 => \A i \in DOMAIN values :
       IsSet(values[i]) => Members(values[i])' = Members(values[i])]_vars

\* docs/reference/set.mec: a set is a "collection of unique values".
SetsAreUnique == \A i \in DOMAIN values : IsSet(values[i]) => Distinct(values[i])

\* machines/set/docs/ops/element-of.mec: x \in S is "true if `x` is an element
\* of `S`, otherwise false".
MembershipIsOfValues ==
  solved # 0 /\ plan[solved].op = "element_of" /\ Sound(plan[solved]) =>
    LET f == plan[solved]
    IN  values[f.out].truth <=> Meaning(f.elem) \in Members(values[f.args[1]])

Shallow(s) ==
  \A e \in ToSet(Elements(s.items)) :
    CASE e.form = "set"  -> Flat(e.of)
      [] e.form = "pair" -> \A part \in ToSet(e.of) : part.form \in {"number", "named"}
      [] OTHER -> TRUE

\* docs/reference/set.mec: "The order in which elements appear does not affect
\* equality or behavior."
OrderDoesNotMatter ==
  \A i, j \in DOMAIN values :
    LET s == values[i]
        t == values[j]
    IN  IsSet(s) /\ IsSet(t) /\ Shallow(s) /\ Shallow(t) /\ Fresh(s) /\ Fresh(t)
        /\ Alike(s, t) /\ Members(s) = Members(t) => SetEquals(s, t)
=============================================================================
