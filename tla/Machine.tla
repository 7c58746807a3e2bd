------------------------------ MODULE Machine ------------------------------
(***************************************************************************)
(* What a state machine does, stated without loops, environments or cells: *)
(* of the branches in source order the first one that can decide does, all *)
(* at once, and binds the names of its pattern; then its transitions       *)
(* happen one after the other.  A machine runs until no branch applies, a  *)
(* transition outputs, something is in error, or the limit is reached.     *)
(***************************************************************************)
EXTENDS MachineDefinitions

CONSTANT MaxSteps

VARIABLES
  fsm, state,         \* the machine that runs and its state, a name and values
  scope,              \* what its names stand for
  fired,              \* branches fired
  pending,            \* transitions of the last one that have yet to happen
  globals, mutables,  \* the variables of the program
  outcome             \* what the last machine came to

vars == <<fsm, state, scope, fired, pending, globals, mutables, outcome>>

None == [op |-> "none"]
NoState == [name |-> Bare, payload |-> <<>>]
Error == [op |-> "error"]
Undefined == Value("undefined", 0)

-----------------------------------------------------------------------------
Atom(e, bound) ==
  IF e.op = "literal" THEN e.value
  ELSE IF e.name \in DOMAIN bound THEN bound[e.name]
  ELSE IF e.name \in DOMAIN globals THEN globals[e.name]
  ELSE Undefined

Meaning(e, bound) ==
  IF e.op \in {"literal", "name"} THEN Atom(e, bound)
  ELSE LET a == Atom(e.left, bound)
           b == Atom(e.right, bound)
       IN IF Undefined \notin {a, b} /\ Operable(e.op, a, b) THEN Operated(e.op, a, b) ELSE Undefined

\* The atom of a name is the state of that name.
Reached(name, values) ==
  IF name = Bare /\ Len(values) = 1 /\ values[1].kind = "atom"
    THEN [name |-> values[1].name, payload |-> <<>>]
    ELSE [name |-> name, payload |-> values]

StateOf(target, bound) ==
  Reached(target.name, [i \in DOMAIN target.parts |-> Meaning(target.parts[i], bound)])

Defined(st) == Undefined \notin ToSet(st.payload)

-----------------------------------------------------------------------------
(* Which branch decides.                                                   *)

\* The names bound by the parts of a pattern before part n, each by its first occurrence.
BoundBefore(pattern, n) ==
  LET named == {i \in 1..(n - 1) : pattern.parts[i].form = "name"}
  IN [name \in {pattern.parts[i].name : i \in named} |->
        LET i == CHOOSE i \in named :
                   /\ pattern.parts[i].name = name
                   /\ \A j \in named : pattern.parts[j].name = name => i <= j
        IN state.payload[i]]

\* What a pattern's names stand for left of part n, once the machine's own are unbound.
ScopeAt(pattern, n) ==
  LET new == BoundBefore(pattern, n)
      kept == Unbind(scope, BoundBy(pattern))
  IN [name \in DOMAIN new \cup DOMAIN kept |-> IF name \in DOMAIN new THEN new[name] ELSE kept[name]]

PartVerdict(pattern, n) ==
  LET part == pattern.parts[n]
      before == ScopeAt(pattern, n)
  IN CASE part.form = "any" -> "yes"
       [] part.form = "name" ->
            IF part.name \in DOMAIN before /\ before[part.name] # state.payload[n] THEN "no" ELSE "yes"
       [] part.form = "expression" ->
            IF Meaning(part.value, before) = Undefined THEN "error"
            ELSE IF ValuesMatch(Meaning(part.value, before), state.payload[n]) THEN "yes" ELSE "no"

\* The first part that does not match decides against the pattern.
PatternVerdict(pattern) ==
  IF pattern = Wildcard THEN "yes"
  ELSE IF pattern.name # state.name \/ Len(pattern.parts) # Len(state.payload) THEN "no"
  ELSE LET others == {n \in DOMAIN pattern.parts : PartVerdict(pattern, n) # "yes"}
       IN IF others = {} THEN "yes"
          ELSE PartVerdict(pattern, CHOOSE n \in others : \A m \in others : n <= m)

Bindings(pattern) ==
  IF pattern = Wildcard THEN scope ELSE ScopeAt(pattern, Len(pattern.parts) + 1)

ConditionVerdict(condition, bound) ==
  IF condition = Anything THEN "yes"
  ELSE LET v == Meaning(condition, bound)
       IN IF v.kind # "bool" THEN "error" ELSE IF v = Bool(TRUE) THEN "yes" ELSE "no"

BranchVerdict(a, b) ==
  LET arm == fsm.arms[a]
      pattern == PatternVerdict(arm.pattern)
  IN IF pattern # "yes" THEN pattern
     ELSE ConditionVerdict(arm.branches[b].condition, Bindings(arm.pattern))

\* The first place, arm and branch, whose verdict is not "no"; NoPlace if there is none.
Places == UNION {{<<a, b>> : b \in DOMAIN fsm.arms[a].branches} : a \in DOMAIN fsm.arms}
NoPlace == <<0, 0>>

Decision ==
  LET deciding == {place \in Places : BranchVerdict(place[1], place[2]) # "no"}
  IN IF deciding = {} THEN NoPlace
     ELSE CHOOSE p \in deciding :
            \A q \in deciding : p[1] < q[1] \/ (p[1] = q[1] /\ p[2] <= q[2])

-----------------------------------------------------------------------------
Init ==
  /\ fsm = None /\ state = NoState /\ scope = NoBindings /\ fired = 0 /\ pending = <<>>
  /\ outcome = None

Begin ==
  /\ fsm = None /\ fsm' # None /\ Covered(fsm')
  /\ state' = StateOf(fsm'.start, scope') /\ Defined(state')
  /\ fired' = 0 /\ pending' = <<>> /\ outcome' = None
  /\ UNCHANGED <<globals, mutables>>

Refuse ==
  /\ fsm = None /\ outcome' = Error
  /\ UNCHANGED <<fsm, state, scope, fired, pending, globals, mutables>>

End(o) ==
  /\ fsm' = None /\ state' = NoState /\ scope' = NoBindings /\ fired' = 0 /\ pending' = <<>>
  /\ outcome' = o
  /\ UNCHANGED <<globals, mutables>>

Ready == fsm # None /\ pending = <<>>

Fire ==
  /\ Ready /\ fired < MaxSteps
  /\ LET place == Decision
         arm == fsm.arms[place[1]]
     IN /\ place # NoPlace /\ BranchVerdict(place[1], place[2]) = "yes"
        /\ scope' = Bindings(arm.pattern)
        /\ pending' = arm.branches[place[2]].transitions
  /\ fired' = fired + 1
  /\ UNCHANGED <<fsm, state, globals, mutables, outcome>>

Halt ==
  /\ Ready /\ fired < MaxSteps /\ Decision = NoPlace
  /\ End([op |-> "value", value |-> state])

Fail ==
  /\ Ready /\ fired < MaxSteps
  /\ LET place == Decision
     IN place # NoPlace /\ BranchVerdict(place[1], place[2]) = "error"
  /\ End(Error)

Exceed == Ready /\ fired = MaxSteps /\ End(Error)

Happening(op) == fsm # None /\ pending # <<>> /\ Head(pending).op = op
Target == StateOf(Head(pending).target, scope)
Source == Meaning(Head(pending).value,
                  IF Head(pending).op = "assign" /\ ~Head(pending).block THEN scope ELSE NoBindings)

EnterState ==
  /\ Happening("next") /\ Defined(Target)
  /\ state' = Target
  /\ UNCHANGED <<globals, mutables>>

Define ==
  /\ Happening("define") /\ Head(pending).name \notin DOMAIN globals /\ Source # Undefined
  /\ globals' = Bind(globals, Head(pending).name, Source)
  /\ mutables' = IF Head(pending).mutable THEN mutables \cup {Head(pending).name} ELSE mutables
  /\ UNCHANGED state

Assign ==
  /\ Happening("assign") /\ Head(pending).name \in mutables
  /\ Source # Undefined /\ Source.kind \in {globals[Head(pending).name].kind} \ {"atom"}
  /\ globals' = [globals EXCEPT ![Head(pending).name] = Source]
  /\ UNCHANGED <<mutables, state>>

Transition ==
  /\ EnterState \/ Define \/ Assign
  /\ pending' = Tail(pending)
  /\ UNCHANGED <<fsm, scope, fired, outcome>>

Output ==
  /\ Happening("output") /\ Defined(Target)
  /\ End([op |-> "value", value |-> Target])

TransitionFails ==
  /\ \/ \E op \in {"next", "output"} : Happening(op) /\ ~Defined(Target)
     \/ Happening("define") /\ (Head(pending).name \in DOMAIN globals \/ Source = Undefined)
     \/ Happening("assign") /\ ( \/ Head(pending).name \notin mutables
                                 \/ Source = Undefined
                                 \/ Source.kind \notin {globals[Head(pending).name].kind} \ {"atom"} )
  /\ End(Error)

Next ==
  \/ Begin \/ Refuse \/ Fire \/ Halt \/ Fail \/ Exceed
  \/ Transition \/ Output \/ TransitionFails

Spec == Init /\ [][Next]_vars
=============================================================================
