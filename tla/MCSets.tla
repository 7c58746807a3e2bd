------------------------------- MODULE MCSets -------------------------------
(***************************************************************************)
(* Small programs for SetPrograms: two sets, defined by numbers or by      *)
(* variables, every function of the library on them, an assignment to a    *)
(* variable in between, and two steps.                                     *)
(***************************************************************************)
EXTENDS SetPrograms

CONSTANTS width, depth   \* variables that hold a number

HeldNumbers == {width :> 1 @@ depth :> 2}

N(s) == [i \in DOMAIN s |-> Number(s[i])]
R(s) == [i \in DOMAIN s |-> Named(s[i])]

FirstSets == {Literal(e) : e \in {N(<< >>), N(<<1>>), N(<<1, 2>>), N(<<2, 1, 2>>),
                                  R(<<width, depth>>), R(<<width>>), <<Named(width), Number(3)>>}}
A == Variable(1)
B == Variable(2)
C == Variable(3)

\* The second set may be made from the first one.
SecondSets == {Binary("union", A, A)} \cup
              {Literal(e) : e \in {N(<<2, 3>>), N(<<2, 1>>), N(<<1>>), R(<<depth>>), R(<<depth, width>>)}}

Elems == {Number(1), Number(3), Named(width), Nested(FromVec(N(<<1>>)))}
Inlines == {Inline(N(<<1, 2>>)), Inline(R(<<width, depth>>))}

Calls ==
  {Unary(op, A) : op \in UnaryOps} \cup {Unary(op, B) : op \in UnaryOps} \cup {Binary(op, A, B) : op \in BinaryOps}
  \cup {Element(op, s, e) : op \in ElementOps, s \in {A} \cup Inlines, e \in Elems}
  \cup {Comprehend(A), Comprehend(Inline(N(<<1, 2>>))), Filtered(A, B)}

Defines(exprs) == {Define(e) : e \in exprs}
Assigns == {Assign(width, 2), Assign(depth, 1), AddAssign(width, 1)}

Later ==
  {Unary(op, C) : op \in UnaryOps} \cup {Binary(op, C, A) : op \in BinaryOps}
  \cup {Element(op, C, e) : op \in ElementOps, e \in {Number(2), Named(width), Nested(FromVec(N(<<1>>)))}}
  \cup {Comprehend(C), Comprehend(A)}

Programs == <<Defines(FirstSets), Defines(SecondSets),
              Defines(Calls) \cup Assigns, Defines(Later \cup Calls) \cup Assigns>>
=============================================================================
