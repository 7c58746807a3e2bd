------------------------- MODULE MachineDefinitions -------------------------
(***************************************************************************)
(* State machine definitions as the parser hands them to the interpreter,  *)
(* and the scalar operations their expressions use.  An implementation has *)
(* a start target and arms; an arm has a pattern and branches, each with a *)
(* condition and the transitions it fires (an arm without guards has one   *)
(* branch whose condition is the wildcard).  A state is a name with a      *)
(* payload of scalars and atoms; the atom of a name is the state of that   *)
(* name without payload.  A target without a name is the value of an       *)
(* expression, which may be an atom; a pattern without a name is the       *)
(* wildcard or one literal.  Expressions are one operator deep, and no     *)
(* subtraction goes below zero.                                            *)
(***************************************************************************)
EXTENDS Integers, Sequences, SequencesExt

Value(kind, n) == [kind |-> kind, n |-> n]
Bool(b) == Value("bool", IF b THEN 1 ELSE 0)
AtomValue(name) == [kind |-> "atom", name |-> name]

\* Both operands are of one kind: nothing is converted.
Operable(op, a, b) == a.kind = b.kind /\ (op = "eq" \/ a.kind \notin {"bool", "atom"})

Operated(op, a, b) ==
  CASE op = "add" -> Value(a.kind, a.n + b.n)
    [] op = "sub" -> Value(a.kind, a.n - b.n)
    [] op = "gt"  -> Bool(a.n > b.n)
    [] op = "eq"  -> Bool(a = b)

\* Equal, or the same number as u64 and as f64.
ValuesMatch(a, b) ==
  \/ a = b
  \/ {a.kind, b.kind} = {"u64", "f64"} /\ a.n = b.n

NoBindings == <<>>
Bind(env, name, v) == [n \in DOMAIN env \cup {name} |-> IF n = name THEN v ELSE env[n]]
Unbind(env, names) == [name \in DOMAIN env \ names |-> env[name]]

Bare == ""
Anything == [form |-> "any"]
Wildcard == [name |-> Bare, parts |-> <<Anything>>]

\* The variables an arm's pattern introduces.
BoundBy(pattern) ==
  {pattern.parts[i].name : i \in {j \in DOMAIN pattern.parts : pattern.parts[j].form = "name"}}

-----------------------------------------------------------------------------
(* What the parser builds.  An arm has at least one branch.                *)

Kinds == {"bool", "u8", "u16", "u32", "u64", "u128", "i8", "i16", "i32", "i64", "i128", "f32", "f64"}
Atoms == [kind : {"atom"}, name : STRING \ {Bare}]
Scalars == [kind : Kinds, n : Int] \cup Atoms
IsSequence(s) == s \in Seq(ToSet(s))

IsAtom(e) == \/ e.op = "literal" /\ e.value \in Scalars
             \/ e.op = "name"

IsExpression(e) ==
  \/ IsAtom(e)
  \/ e.op \in {"add", "sub", "gt", "eq"} /\ IsAtom(e.left) /\ IsAtom(e.right)

AreExpressions(es) == IsSequence(es) /\ \A e \in ToSet(es) : IsExpression(e)

IsPattern(pattern) ==
  /\ IsSequence(pattern.parts)
  /\ \A part \in ToSet(pattern.parts) :
       \/ part.form \in {"any", "name"}
       \/ part.form = "expression" /\ IsExpression(part.value)
  /\ pattern.name = Bare /\ pattern # Wildcard =>
       /\ Len(pattern.parts) = 1
       /\ pattern.parts[1].form = "expression" /\ pattern.parts[1].value.op = "literal"
       /\ pattern.parts[1].value.value \notin Atoms

IsTransition(t) ==
  \/ t.op \in {"next", "output"} /\ AreExpressions(t.target.parts)
  \/ t.op \in {"define", "assign"} /\ IsExpression(t.value)

IsBranch(branch) ==
  /\ branch.condition = Anything \/ IsExpression(branch.condition)
  /\ IsSequence(branch.transitions) /\ \A t \in ToSet(branch.transitions) : IsTransition(t)

IsArm(arm) ==
  /\ IsPattern(arm.pattern)
  /\ IsSequence(arm.branches) /\ arm.branches # <<>>
  /\ \A branch \in ToSet(arm.branches) : IsBranch(branch)

IsMachine(fsm) ==
  /\ {"arms", "start", "input"} \subseteq DOMAIN fsm
  /\ IsSequence(fsm.input) /\ AreExpressions(fsm.start.parts)
  /\ IsSequence(fsm.arms) /\ \A arm \in ToSet(fsm.arms) : IsArm(arm)

BranchesOf(fsm) == UNION {ToSet(arm.branches) : arm \in ToSet(fsm.arms)}
TransitionsOf(fsm) == UNION {ToSet(branch.transitions) : branch \in BranchesOf(fsm)}

-----------------------------------------------------------------------------
(* Coverage: the start state and every named target has an arm.            *)

StateNames(fsm) == {fsm.arms[i].pattern.name : i \in DOMAIN fsm.arms} \ {Bare}
Targets(fsm) == {t.target.name : t \in {u \in TransitionsOf(fsm) : u.op = "next"}}

MutStartCovered(fsm) == StateNames(fsm) # {} => fsm.start.name \in StateNames(fsm)

Covered(fsm) ==
  StateNames(fsm) # {} =>
    fsm.start.name \in StateNames(fsm) /\ Targets(fsm) \subseteq StateNames(fsm) \cup {Bare}
=============================================================================
