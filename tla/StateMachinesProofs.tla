------------------------ MODULE StateMachinesProofs ------------------------
(***************************************************************************)
(* Theorems about any programs of state machines: a machine is in a named  *)
(* state without an arm only where an expression led it there, and the interpreter's search, environments  *)
(* and handles on cells implement Machine, which has none of them, for     *)
(* programs where machine and program share no cell.                       *)
(*                                                                         *)
(* Expressions and patterns first, evaluated to what they mean; then the   *)
(* invariant of the loop; then, action by action, the step of Machine that *)
(* an action of StateMachines is.                                          *)
(***************************************************************************)
EXTENDS StateMachines, BasicLemmas

ValuesIn(h, cells) == [i \in DOMAIN cells |-> h[cells[i]]]

\* g is h with more cells.
Grows(h, g) ==
  /\ h \in Seq(Scalars) /\ g \in Seq(Scalars)
  /\ Len(h) <= Len(g) /\ \A i \in 1..Len(h) : g[i] = h[i]

IsEnv(bound, h) == bound \in [DOMAIN bound -> 1..Len(h)]

\* What the evaluation of an expression comes to, compared with what it means.
Delivers(r, h, v) ==
  /\ r.ok \in BOOLEAN
  /\ r.ok <=> v # Meant!Undefined
  /\ r.ok => /\ Grows(h, r.heap) /\ r.cell \in 1..Len(r.heap)
             /\ r.heap[r.cell] = v /\ v \in Scalars

LEMMA GrowsTransitive ==
  ASSUME NEW f, NEW g, NEW h, Grows(f, g), Grows(g, h)
  PROVE  Grows(f, h)
BY DEF Grows

LEMMA GrowsAppend ==
  ASSUME NEW h \in Seq(Scalars), NEW v \in Scalars
  PROVE  LET g == Append(h, v) IN
         Grows(h, g) /\ Len(g) = Len(h) + 1 /\ g[Len(h) + 1] = v
BY DEF Grows

LEMMA GrowsKeeps ==
  ASSUME NEW h, NEW g, NEW bound, Grows(h, g), IsEnv(bound, h)
  PROVE  IsEnv(bound, g) /\ ValuesIn(g, bound) = ValuesIn(h, bound)
<1>1. Len(h) \in Nat /\ Len(g) \in Nat
  BY DEF Grows
<1>2. \A n \in DOMAIN bound : bound[n] \in 1..Len(h)
  BY DEF IsEnv
<1>3. IsEnv(bound, g)
  BY <1>1, <1>2 DEF IsEnv, Grows
<1>4. \A n \in DOMAIN bound : g[bound[n]] = h[bound[n]]
  BY <1>2 DEF Grows
<1> QED BY <1>3, <1>4 DEF ValuesIn

LEMMA UndefinedIsNone ==
  ASSUME NEW v \in Scalars
  PROVE  /\ v # Meant!Undefined /\ v.kind # "undefined"
         /\ v.kind = "bool" => v = Value(v.kind, v.n)
<1>1. v.kind # "undefined"
  BY DEF Scalars, Atoms, Kinds
<1>2. v.kind = "bool" => v = Value(v.kind, v.n)
  BY DEF Scalars, Atoms, Value
<1> QED BY <1>1, <1>2 DEF Meant!Undefined, Meant!Value

LEMMA OperandDelivers ==
  ASSUME NEW h, NEW e, NEW bound,
         Grows(heap, h), IsEnv(symbols, heap), IsEnv(bound, h), IsAtom(e)
  PROVE  LET r == Operand(h, e, bound) IN
         /\ Delivers(r, h, Meant!Atom(e, ValuesIn(h, bound)))
         /\ r.ok => \/ r.cell = Len(h) + 1
                    \/ e.op = "name" /\ e.name \in DOMAIN bound /\ r.cell = bound[e.name]
                    \/ e.op = "name" /\ e.name \in DOMAIN symbols /\ r.cell = symbols[e.name]
         /\ r.ok /\ r.reference => e.op = "name" /\ e.name \in DOMAIN symbols
<1> DEFINE r == Operand(h, e, bound)
           v == Meant!Atom(e, ValuesIn(h, bound))
           Goal == /\ Delivers(r, h, v)
                   /\ r.ok => \/ r.cell = Len(h) + 1
                              \/ e.op = "name" /\ e.name \in DOMAIN bound /\ r.cell = bound[e.name]
                              \/ e.op = "name" /\ e.name \in DOMAIN symbols /\ r.cell = symbols[e.name]
                   /\ r.ok /\ r.reference => e.op = "name" /\ e.name \in DOMAIN symbols
<1>0. h \in Seq(Scalars) /\ heap \in Seq(Scalars) /\ Len(h) \in Nat /\ Len(heap) \in Nat /\ Len(heap) <= Len(h)
  BY DEF Grows
<1>1. ASSUME e.op = "literal" PROVE Goal
  <2>1. e.value \in Scalars /\ v = e.value /\ r = New(h, e.value)
    BY <1>1 DEF IsAtom, Meant!Atom, Operand
  <2>2. e.value # Meant!Undefined
    BY <2>1, UndefinedIsNone
  <2>3. r = [ok |-> TRUE, heap |-> Append(h, e.value), cell |-> Len(h) + 1, reference |-> FALSE]
    BY <2>1 DEF New, Found
  <2> HIDE DEF r, v
  <2> QED BY <2>1, <2>2, <2>3, <1>0, GrowsAppend DEF Delivers
<1>2. ASSUME e.op # "literal" /\ e.name \in DOMAIN bound PROVE Goal
  <2>1. e.op = "name" /\ v = h[bound[e.name]]
    BY <1>2 DEF IsAtom, Meant!Atom, ValuesIn
  <2>2. r = [ok |-> TRUE, heap |-> h, cell |-> bound[e.name], reference |-> FALSE]
    BY <1>2 DEF Operand, Found
  <2>3. bound[e.name] \in 1..Len(h) /\ h[bound[e.name]] \in Scalars
    BY <1>2, <1>0 DEF IsEnv
  <2>4. v # Meant!Undefined
    BY <2>1, <2>3, UndefinedIsNone
  <2>5. Grows(h, h)
    BY <1>0 DEF Grows
  <2> HIDE DEF r, v
  <2> QED BY <2>1, <2>2, <2>3, <2>4, <2>5, <1>2 DEF Delivers
<1>3. ASSUME e.op # "literal" /\ e.name \notin DOMAIN bound /\ e.name \in DOMAIN symbols PROVE Goal
  <2>1. e.op = "name" /\ v = heap[symbols[e.name]]
    BY <1>3 DEF IsAtom, Meant!Atom, ValuesIn, Values
  <2>2. r = [ok |-> TRUE, heap |-> h, cell |-> symbols[e.name], reference |-> TRUE]
    BY <1>3 DEF Operand, Found
  <2>3. symbols[e.name] \in 1..Len(heap)
    BY <1>3, <1>0 DEF IsEnv
  <2>4. symbols[e.name] \in 1..Len(h) /\ h[symbols[e.name]] = heap[symbols[e.name]] /\ v \in Scalars
    BY <2>1, <2>3, <1>0 DEF Grows
  <2>5. v # Meant!Undefined
    BY <2>4, UndefinedIsNone
  <2>6. Grows(h, h)
    BY <1>0 DEF Grows
  <2> HIDE DEF r, v
  <2> QED BY <2>1, <2>2, <2>4, <2>5, <2>6, <1>3 DEF Delivers
<1>4. ASSUME e.op # "literal" /\ e.name \notin DOMAIN bound /\ e.name \notin DOMAIN symbols PROVE Goal
  <2>1. v = Meant!Undefined
    BY <1>4 DEF Meant!Atom, ValuesIn, Values
  <2>2. r = [ok |-> FALSE]
    BY <1>4 DEF Operand, NotFound
  <2> HIDE DEF r, v
  <2> QED BY <2>1, <2>2 DEF Delivers
<1>5. Goal
  <2> HIDE DEF Goal
  <2> QED BY <1>1, <1>2, <1>3, <1>4
<1> QED BY <1>5

LEMMA SameOperations ==
  ASSUME NEW a, NEW b, NEW op
  PROVE  /\ Meant!Operable(op, a, b) <=> Operable(op, a, b)
         /\ Meant!Operated(op, a, b) = Operated(op, a, b)
         /\ Meant!ValuesMatch(a, b) <=> ValuesMatch(a, b)
BY DEF Operable, Operated, ValuesMatch, Bool, Value,
       Meant!Operable, Meant!Operated, Meant!ValuesMatch, Meant!Bool, Meant!Value

LEMMA OperatedType ==
  ASSUME NEW a \in Scalars, NEW b \in Scalars, NEW op \in {"add", "sub", "gt", "eq"}, Operable(op, a, b)
  PROVE  Operated(op, a, b) \in Scalars
<1>1. \A k \in Kinds, n \in Int : Value(k, n) \in Scalars
  BY DEF Scalars, Value
<1>2. Value("bool", 1) \in Scalars /\ Value("bool", 0) \in Scalars
  BY <1>1 DEF Kinds
<1>3. ASSUME op # "eq" PROVE a.kind \in Kinds /\ a.n \in Int /\ b.n \in Int
  BY <1>3 DEF Scalars, Atoms, Operable
<1>4. ASSUME op # "eq" PROVE a.n + b.n \in Int /\ a.n - b.n \in Int
  BY <1>3, <1>4
<1>5. CASE op = "add"
  BY <1>5, <1>1, <1>3, <1>4 DEF Operated
<1>6. CASE op = "sub"
  BY <1>6, <1>1, <1>3, <1>4 DEF Operated
<1>7. CASE op = "gt"
  BY <1>7, <1>2 DEF Operated, Bool
<1>8. CASE op = "eq"
  BY <1>8, <1>2 DEF Operated, Bool
<1> QED BY <1>5, <1>6, <1>7, <1>8

\* Where a value that was delivered lies.
Placed(r, h, e, bound) ==
  /\ r.ok => \/ r.cell > Len(h)
             \/ e.op = "name" /\ e.name \in DOMAIN bound /\ r.cell = bound[e.name]
             \/ e.op = "name" /\ e.name \in DOMAIN symbols /\ r.cell = symbols[e.name]
  /\ r.ok /\ r.reference => e.op = "name" /\ e.name \in DOMAIN symbols

LEMMA OperationDelivers ==
  ASSUME NEW h, NEW e, NEW bound,
         Grows(heap, h), IsEnv(symbols, heap), IsEnv(bound, h),
         e.op \in {"add", "sub", "gt", "eq"}, IsAtom(e.left), IsAtom(e.right)
  PROVE  /\ Delivers(Eval(h, e, bound), h, Meant!Meaning(e, ValuesIn(h, bound)))
         /\ Placed(Eval(h, e, bound), h, e, bound)
<1> DEFINE vals == ValuesIn(h, bound)
           a == Meant!Atom(e.left, vals)
           b == Meant!Atom(e.right, vals)
           l == Operand(h, e.left, bound)
           k == IF l.ok THEN l.heap ELSE h
           r == Operand(k, e.right, bound)
           res == Operation(e, l, r)
           v == IF Meant!Undefined \notin {a, b} /\ Operable(e.op, a, b) THEN Operated(e.op, a, b) ELSE Meant!Undefined
<1>1. Eval(h, e, bound) = res /\ Meant!Meaning(e, vals) = v
  BY SameOperations DEF Eval, Meant!Meaning
<1>2. Delivers(l, h, a)
  BY OperandDelivers
<1>3. Grows(h, k)
  BY <1>2 DEF Delivers, Grows
<1>4. Grows(heap, k) /\ IsEnv(bound, k) /\ ValuesIn(k, bound) = vals
  BY <1>3, GrowsTransitive, GrowsKeeps
<1>5. Delivers(r, k, b)
  <2> HIDE DEF k, vals
  <2> QED BY <1>4, OperandDelivers
<1> HIDE DEF a, b, l, r, vals
<1>6. l.ok \in BOOLEAN /\ r.ok \in BOOLEAN /\ (l.ok <=> a # Meant!Undefined) /\ (r.ok <=> b # Meant!Undefined)
  <2> HIDE DEF k
  <2> QED BY <1>2, <1>5 DEF Delivers
<1>7. ASSUME l.ok, r.ok PROVE /\ Grows(h, r.heap)
                             /\ r.heap[l.cell] = a /\ r.heap[r.cell] = b /\ a \in Scalars /\ b \in Scalars
  <2>1. k = l.heap
    BY <1>7
  <2>2. Grows(h, l.heap) /\ l.cell \in 1..Len(l.heap) /\ l.heap[l.cell] = a /\ a \in Scalars
    BY <1>2, <1>7 DEF Delivers
  <2>3. Grows(l.heap, r.heap) /\ r.heap[r.cell] = b /\ b \in Scalars
    BY <1>5, <1>7, <2>1 DEF Delivers
  <2>4. r.heap[l.cell] = a
    BY <2>2, <2>3 DEF Grows
  <2>5. Grows(h, r.heap)
    BY <2>2, <2>3, GrowsTransitive
  <2> QED BY <2>2, <2>3, <2>4, <2>5
<1> HIDE DEF k
<1> DEFINE Goal == Delivers(res, h, v) /\ Placed(res, h, e, bound)
<1>8. ASSUME l.ok, r.ok, Operable(e.op, a, b) PROVE Goal
  <2>1. res = New(r.heap, Operated(e.op, a, b))
    BY <1>7, <1>8 DEF Operation
  <2>2. v = Operated(e.op, a, b) /\ v \in Scalars /\ v # Meant!Undefined
    <3>1. v = Operated(e.op, a, b)
      BY <1>6, <1>8
    <3>2. Operated(e.op, a, b) \in Scalars
      BY <1>7, <1>8, OperatedType
    <3> QED BY <3>1, <3>2, UndefinedIsNone
  <2>3. res = [ok |-> TRUE, heap |-> Append(r.heap, v), cell |-> Len(r.heap) + 1, reference |-> FALSE]
    BY <2>1, <2>2 DEF New, Found
  <2>4. r.heap \in Seq(Scalars) /\ Len(h) \in Nat /\ Len(h) <= Len(r.heap) /\ Len(r.heap) \in Nat
    BY <1>7, <1>8 DEF Grows
  <2>5. /\ Grows(r.heap, Append(r.heap, v)) /\ Append(r.heap, v)[Len(r.heap) + 1] = v
        /\ Len(Append(r.heap, v)) = Len(r.heap) + 1
    <3> HIDE DEF v
    <3> QED BY <2>2, <2>4, GrowsAppend
  <2>6. Grows(h, Append(r.heap, v))
    BY <1>7, <1>8, <2>5, GrowsTransitive
  <2> HIDE DEF res, v
  <2>7. Delivers(res, h, v)
    BY <2>2, <2>3, <2>4, <2>5, <2>6 DEF Delivers
  <2>8. Placed(res, h, e, bound)
    BY <2>3, <2>4 DEF Placed
  <2> QED BY <2>7, <2>8
<1>9. ASSUME ~(l.ok /\ r.ok /\ Operable(e.op, a, b)) PROVE Goal
  <2>1. res = [ok |-> FALSE]
    BY <1>9, <1>7 DEF Operation, NotFound
  <2>2. v = Meant!Undefined
    BY <1>9, <1>6
  <2> HIDE DEF res, v
  <2> QED BY <2>1, <2>2 DEF Delivers, Placed
<1> HIDE DEF res, v
<1>10. Goal
  <2> HIDE DEF Goal
  <2> QED BY <1>8, <1>9
<1> QED BY <1>1, <1>10 DEF vals

\* An expression is evaluated to what it means, into a new cell unless it is a name.
LEMMA EvalDelivers ==
  ASSUME NEW h, NEW e, NEW bound,
         Grows(heap, h), IsEnv(symbols, heap), IsEnv(bound, h), IsExpression(e)
  PROVE  /\ Delivers(Eval(h, e, bound), h, Meant!Meaning(e, ValuesIn(h, bound)))
         /\ Placed(Eval(h, e, bound), h, e, bound)
<1>1. ASSUME IsAtom(e)
      PROVE  /\ Delivers(Eval(h, e, bound), h, Meant!Meaning(e, ValuesIn(h, bound)))
             /\ Placed(Eval(h, e, bound), h, e, bound)
  <2>1. Eval(h, e, bound) = Operand(h, e, bound)
    BY <1>1 DEF IsAtom, Eval
  <2>2. Meant!Meaning(e, ValuesIn(h, bound)) = Meant!Atom(e, ValuesIn(h, bound))
    BY <1>1 DEF IsAtom, Meant!Meaning
  <2>3. Len(h) \in Nat
    BY DEF Grows
  <2>4. Delivers(Operand(h, e, bound), h, Meant!Atom(e, ValuesIn(h, bound)))
    BY <1>1, OperandDelivers
  <2>5. Placed(Operand(h, e, bound), h, e, bound)
    <3>1. LET r == Operand(h, e, bound) IN
          /\ r.ok => \/ r.cell = Len(h) + 1
                     \/ e.op = "name" /\ e.name \in DOMAIN bound /\ r.cell = bound[e.name]
                     \/ e.op = "name" /\ e.name \in DOMAIN symbols /\ r.cell = symbols[e.name]
          /\ r.ok /\ r.reference => e.op = "name" /\ e.name \in DOMAIN symbols
      BY <1>1, OperandDelivers
    <3> QED BY <3>1, <2>3 DEF Placed
  <2> QED BY <2>1, <2>2, <2>4, <2>5
<1>2. CASE ~IsAtom(e)
  BY <1>2, OperationDelivers DEF IsExpression
<1> QED BY <1>1, <1>2

-----------------------------------------------------------------------------
(* Sequences of expressions.                                               *)

\* What EvalAll has after each of the expressions.
AllUpto(h, es, bound) ==
  LET all[n \in 0..Len(es)] ==
        IF n = 0 THEN [ok |-> TRUE, heap |-> h, cells |-> <<>>]
        ELSE EvalNext(all[n - 1], es[n], bound)
  IN all

LEMMA AllUptoEquation ==
  ASSUME NEW h, NEW es, NEW bound, Len(es) \in Nat
  PROVE  AllUpto(h, es, bound) =
           [n \in 0..Len(es) |->
              IF n = 0 THEN [ok |-> TRUE, heap |-> h, cells |-> <<>>]
              ELSE EvalNext(AllUpto(h, es, bound)[n - 1], es[n], bound)]
<1> DEFINE N == Len(es)
           First == [ok |-> TRUE, heap |-> h, cells |-> <<>>]
           After(g, n) == IF n = 0 THEN First ELSE EvalNext(g[n - 1], es[n], bound)
           Solves(g, k) == g = [n \in 0..k |-> After(g, n)]
           S == {k \in Nat : \E g : Solves(g, k)}
<1>1. 0 \in S
  <2> DEFINE g == [n \in 0..0 |-> First]
  <2>1. \A n \in 0..0 : After(g, n) = g[n]
    BY DEF After
  <2>2. Solves(g, 0)
    <3> HIDE DEF After
    <3> QED BY <2>1
  <2> QED
    <3> HIDE DEF g, Solves
    <3> QED BY <2>2
<1>2. ASSUME NEW k \in Nat, k \in S PROVE k + 1 \in S
  <2>1. PICK g : Solves(g, k)
    BY <1>2
  <2> DEFINE more == [n \in 0..(k+1) |-> After(g, n)]
  <2>2. \A n \in 0..k : more[n] = g[n]
    <3> HIDE DEF After
    <3> QED BY <2>1
  <2>3. \A n \in 0..(k+1) : more[n] = After(more, n)
    <3> SUFFICES ASSUME NEW n \in 0..(k+1) PROVE After(g, n) = After(more, n)
      <4> HIDE DEF After
      <4> QED OBVIOUS
    <3>1. CASE n = 0
      BY <3>1
    <3>2. CASE n # 0
      <4>1. n - 1 \in 0..k
        BY <3>2
      <4>2. more[n - 1] = g[n - 1]
        BY <2>2, <4>1
      <4> HIDE DEF more
      <4> QED BY <4>2
    <3> QED BY <3>1, <3>2
  <2>4. Solves(more, k + 1)
    <3>1. more = [n \in 0..(k+1) |-> more[n]]
      OBVIOUS
    <3> HIDE DEF more, After
    <3> QED BY <2>3, <3>1
  <2> QED
    <3> HIDE DEF more, Solves
    <3> QED BY <2>4
<1>3. PICK g : Solves(g, N)
  <2>1. Nat \subseteq S
    <3> HIDE DEF S
    <3> QED BY <1>1, <1>2, NatSetInduction
  <2> QED BY <2>1
<1> QED BY <1>3 DEF AllUpto

\* The first n of the expressions, in bound, have been evaluated into r.
AllDelivered(r, h, es, n, bound) ==
  /\ r = [ok |-> r.ok, heap |-> r.heap, cells |-> r.cells] /\ r.ok \in BOOLEAN
  /\ r.ok <=> \A i \in 1..n : Meant!Meaning(es[i], ValuesIn(h, bound)) # Meant!Undefined
  /\ r.ok => /\ Grows(h, r.heap)
             /\ r.cells \in Seq(1..Len(r.heap)) /\ Len(r.cells) = n
             /\ \A i \in 1..n :
                  /\ r.heap[r.cells[i]] = Meant!Meaning(es[i], ValuesIn(h, bound))
                  /\ \/ r.cells[i] > Len(h)
                     \/ es[i].op = "name" /\ es[i].name \in DOMAIN bound /\ r.cells[i] = bound[es[i].name]
                     \/ es[i].op = "name" /\ es[i].name \in DOMAIN symbols /\ r.cells[i] = symbols[es[i].name]

LEMMA OneMore ==
  ASSUME NEW r, NEW h, NEW es, NEW n \in Nat, NEW bound, AllDelivered(r, h, es, n, bound),
         Grows(heap, h), IsEnv(symbols, heap), IsEnv(bound, h), IsExpression(es[n + 1])
  PROVE  AllDelivered(EvalNext(r, es[n + 1], bound), h, es, n + 1, bound)
<1> DEFINE e == es[n + 1]
           M(i) == Meant!Meaning(es[i], ValuesIn(h, bound))
           v == Eval(r.heap, e, bound)
           q == EvalNext(r, e, bound)
<1>1. ASSUME ~r.ok PROVE AllDelivered(q, h, es, n + 1, bound)
  <2>1. q = [r EXCEPT !.ok = FALSE]
    BY <1>1 DEF EvalNext, NotFound
  <2>2. r = [ok |-> r.ok, heap |-> r.heap, cells |-> r.cells]
    BY DEF AllDelivered
  <2>3. q.ok = FALSE /\ q = [ok |-> q.ok, heap |-> q.heap, cells |-> q.cells]
    BY <2>1, <2>2
  <2>4. \E i \in 1..n : M(i) = Meant!Undefined
    BY <1>1 DEF AllDelivered
  <2>5. \E i \in 1..(n+1) : M(i) = Meant!Undefined
    <3> HIDE DEF M
    <3> QED BY <2>4
  <2> HIDE DEF q
  <2> QED BY <2>3, <2>5 DEF AllDelivered
<1>2. ASSUME r.ok PROVE AllDelivered(q, h, es, n + 1, bound)
  <2>1. Grows(h, r.heap) /\ Grows(heap, r.heap) /\ IsEnv(bound, r.heap)
          /\ ValuesIn(r.heap, bound) = ValuesIn(h, bound)
    <3>1. Grows(h, r.heap)
      BY <1>2 DEF AllDelivered
    <3> QED BY <3>1, GrowsTransitive, GrowsKeeps
  <2>2. Delivers(v, r.heap, M(n + 1)) /\ Placed(v, r.heap, e, bound)
    <3>1. Delivers(v, r.heap, Meant!Meaning(e, ValuesIn(r.heap, bound))) /\ Placed(v, r.heap, e, bound)
      BY <2>1, EvalDelivers
    <3> QED BY <3>1, <2>1
  <2>3. q = IF v.ok THEN [ok |-> TRUE, heap |-> v.heap, cells |-> Append(r.cells, v.cell)]
            ELSE [r EXCEPT !.ok = FALSE]
    BY <1>2 DEF EvalNext
  <2>4. \A i \in 1..n : M(i) # Meant!Undefined
    BY <1>2 DEF AllDelivered
  <2>5. ASSUME ~v.ok PROVE AllDelivered(q, h, es, n + 1, bound)
    <3>1. r = [ok |-> r.ok, heap |-> r.heap, cells |-> r.cells]
      BY DEF AllDelivered
    <3>2. q.ok = FALSE /\ q = [ok |-> q.ok, heap |-> q.heap, cells |-> q.cells]
      BY <2>3, <2>5, <3>1
    <3>3. M(n + 1) = Meant!Undefined
      BY <2>2, <2>5 DEF Delivers
    <3>4. \E i \in 1..(n+1) : M(i) = Meant!Undefined
      <4>1. n + 1 \in 1..(n+1)
        OBVIOUS
      <4> HIDE DEF M
      <4> QED BY <3>3, <4>1
    <3> HIDE DEF q
    <3> QED BY <3>2, <3>4 DEF AllDelivered
  <2>6. ASSUME v.ok PROVE AllDelivered(q, h, es, n + 1, bound)
    <3>1. q = [ok |-> TRUE, heap |-> v.heap, cells |-> Append(r.cells, v.cell)]
      BY <2>3, <2>6
    <3>2. Grows(r.heap, v.heap) /\ v.cell \in 1..Len(v.heap) /\ v.heap[v.cell] = M(n + 1)
            /\ M(n + 1) # Meant!Undefined
      BY <2>2, <2>6 DEF Delivers
    <3>3. \A i \in 1..(n+1) : M(i) # Meant!Undefined
      <4> HIDE DEF M
      <4> QED BY <2>4, <3>2
    <3>4. Grows(h, v.heap) /\ Len(h) \in Nat /\ Len(r.heap) \in Nat /\ Len(v.heap) \in Nat
            /\ Len(h) <= Len(r.heap) /\ Len(r.heap) <= Len(v.heap)
      BY <2>1, <3>2, GrowsTransitive DEF Grows
    <3>5. r.cells \in Seq(1..Len(r.heap)) /\ Len(r.cells) = n
      BY <1>2 DEF AllDelivered
    <3>6. r.cells \in Seq(1..Len(v.heap))
      BY <3>4, <3>5
    <3>7. q.cells \in Seq(1..Len(v.heap)) /\ Len(q.cells) = n + 1
      BY <3>1, <3>2, <3>5, <3>6
    <3>8. \A i \in 1..n : q.cells[i] = r.cells[i] /\ r.cells[i] \in 1..Len(r.heap)
      BY <3>1, <3>5
    <3>9. q.cells[n + 1] = v.cell
      BY <3>1, <3>5
    <3> DEFINE Good(i) ==
          /\ v.heap[q.cells[i]] = M(i)
          /\ \/ q.cells[i] > Len(h)
             \/ es[i].op = "name" /\ es[i].name \in DOMAIN bound /\ q.cells[i] = bound[es[i].name]
             \/ es[i].op = "name" /\ es[i].name \in DOMAIN symbols /\ q.cells[i] = symbols[es[i].name]
    <3>10. ASSUME NEW i \in 1..n PROVE Good(i)
      <4>1. /\ r.heap[r.cells[i]] = M(i)
            /\ \/ r.cells[i] > Len(h)
               \/ es[i].op = "name" /\ es[i].name \in DOMAIN bound /\ r.cells[i] = bound[es[i].name]
               \/ es[i].op = "name" /\ es[i].name \in DOMAIN symbols /\ r.cells[i] = symbols[es[i].name]
        BY <1>2 DEF AllDelivered
      <4>2. v.heap[r.cells[i]] = r.heap[r.cells[i]]
        BY <3>2, <3>8 DEF Grows
      <4> HIDE DEF q, v, M
      <4> QED BY <3>8, <4>1, <4>2
    <3>11. Good(n + 1)
      <4>1. \/ v.cell > Len(r.heap)
            \/ e.op = "name" /\ e.name \in DOMAIN bound /\ v.cell = bound[e.name]
            \/ e.op = "name" /\ e.name \in DOMAIN symbols /\ v.cell = symbols[e.name]
        BY <2>2, <2>6 DEF Placed
      <4>2. v.cell \in Nat
        BY <3>2, <3>4
      <4> HIDE DEF q, v, M
      <4> QED BY <3>2, <3>4, <3>9, <4>1, <4>2
    <3>12. \A i \in 1..(n+1) : Good(i)
      <4> SUFFICES ASSUME NEW i \in 1..(n+1) PROVE Good(i)
        OBVIOUS
      <4>1. i \in 1..n \/ i = n + 1
        OBVIOUS
      <4> HIDE DEF Good
      <4> QED BY <3>10, <3>11, <4>1
    <3>13. q.heap = v.heap /\ q.ok /\ q = [ok |-> q.ok, heap |-> q.heap, cells |-> q.cells]
      BY <3>1
    <3> HIDE DEF q, v
    <3> QED BY <3>3, <3>4, <3>7, <3>12, <3>13 DEF AllDelivered
  <2> QED BY <2>2, <2>5, <2>6 DEF Delivers
<1>3. r.ok \in BOOLEAN
  BY DEF AllDelivered
<1> QED BY <1>1, <1>2, <1>3

\* Expressions are evaluated to what they mean, all of them or none.
LEMMA EvalAllDelivers ==
  ASSUME NEW h, NEW es, NEW bound,
         Grows(heap, h), IsEnv(symbols, heap), IsEnv(bound, h), AreExpressions(es)
  PROVE  AllDelivered(EvalAll(h, es, bound), h, es, Len(es), bound)
<1> DEFINE N == Len(es)
           all == AllUpto(h, es, bound)
           S == {n \in Nat : n <= N => AllDelivered(all[n], h, es, n, bound)}
<1>1. N \in Nat /\ \A i \in 1..N : IsExpression(es[i])
  BY DEF AreExpressions, IsSequence, ToSet
<1>2. \A n \in 0..N : all[n] = IF n = 0 THEN [ok |-> TRUE, heap |-> h, cells |-> <<>>]
                                ELSE EvalNext(all[n - 1], es[n], bound)
  <2>1. all = [n \in 0..N |-> IF n = 0 THEN [ok |-> TRUE, heap |-> h, cells |-> <<>>]
                              ELSE EvalNext(all[n - 1], es[n], bound)]
    BY <1>1, AllUptoEquation
  <2> HIDE DEF all
  <2> QED BY <2>1
<1> HIDE DEF all
<1>3. 0 \in S
  <2>1. all[0] = [ok |-> TRUE, heap |-> h, cells |-> <<>>]
    <3>1. 0 \in 0..N
      BY <1>1
    <3> QED BY <1>2, <3>1
  <2>2. Grows(h, h) /\ <<>> \in Seq(1..Len(h)) /\ Len(<<>>) = 0
    BY DEF Grows
  <2>3. 1..0 = {}
    OBVIOUS
  <2>4. AllDelivered(all[0], h, es, 0, bound)
    BY <2>1, <2>2, <2>3 DEF AllDelivered
  <2> QED BY <2>4
<1>4. ASSUME NEW n \in Nat, n \in S PROVE n + 1 \in S
  <2> SUFFICES ASSUME n + 1 <= N PROVE AllDelivered(all[n + 1], h, es, n + 1, bound)
    OBVIOUS
  <2>1. AllDelivered(all[n], h, es, n, bound) /\ n + 1 \in 0..N /\ n + 1 # 0 /\ (n + 1) - 1 = n /\ n + 1 \in 1..N
    BY <1>1, <1>4
  <2>2. all[n + 1] = EvalNext(all[n], es[n + 1], bound)
    BY <1>2, <2>1
  <2>3. AllDelivered(EvalNext(all[n], es[n + 1], bound), h, es, n + 1, bound)
    BY <1>1, <2>1, OneMore
  <2> QED BY <2>2, <2>3
<1>5. Nat \subseteq S
  <2> HIDE DEF S
  <2> QED BY <1>3, <1>4, NatSetInduction
<1>6. EvalAll(h, es, bound) = all[N]
  BY DEF EvalAll, AllUpto, all
<1> QED BY <1>1, <1>5, <1>6

\* The state entered holds what is meant, in cells of its own or none.
LEMMA EnteredMeans ==
  ASSUME NEW h, NEW name, NEW cells \in Seq(1..Len(h))
  PROVE  LET st == Entered(h, name, cells)
         IN /\ st.cells \in {cells, <<>>}
            /\ [name |-> st.name, payload |-> ValuesIn(h, st.cells)] = Meant!Reached(name, ValuesIn(h, cells))
<1> DEFINE vs == ValuesIn(h, cells)
           st == Entered(h, name, cells)
<1>1. /\ Len(vs) = Len(cells)
      /\ Len(cells) = 1 => vs[1] = h[cells[1]]
  <2>1. vs = [i \in 1..Len(cells) |-> h[cells[i]]]
    BY DEF ValuesIn
  <2> QED BY <2>1
<1>2. ValuesIn(h, <<>>) = <<>>
  BY DEF ValuesIn
<1> HIDE DEF vs
<1>3. CASE name = Bare /\ Len(cells) = 1 /\ h[cells[1]].kind = "atom"
  <2>1. st = [name |-> h[cells[1]].name, cells |-> <<>>]
    BY <1>3 DEF Entered
  <2>2. Meant!Reached(name, vs) = [name |-> vs[1].name, payload |-> <<>>]
    BY <1>1, <1>3 DEF Meant!Reached, Meant!Bare, Bare
  <2> HIDE DEF st
  <2>3. st.cells = <<>> /\ st.name = h[cells[1]].name
    BY <2>1
  <2> QED BY <1>1, <1>2, <1>3, <2>2, <2>3 DEF vs, st
<1>4. CASE ~(name = Bare /\ Len(cells) = 1 /\ h[cells[1]].kind = "atom")
  <2>1. st = [name |-> name, cells |-> cells]
    BY <1>4 DEF Entered
  <2>2. Meant!Reached(name, vs) = [name |-> name, payload |-> vs]
    BY <1>1, <1>4 DEF Meant!Reached, Meant!Bare, Bare
  <2> QED BY <2>1, <2>2 DEF vs
<1> QED BY <1>3, <1>4

\* The state that a target stands for is entered, or the evaluation fails.
LEMMA TargetDelivers ==
  ASSUME NEW h, NEW target, NEW bound,
         Grows(heap, h), IsEnv(symbols, heap), IsEnv(bound, h), AreExpressions(target.parts)
  PROVE  LET p == EvalAll(h, target.parts, bound)
             meant == Meant!StateOf(target, ValuesIn(h, bound))
             st == Entered(p.heap, target.name, p.cells)
         IN /\ p.ok \in BOOLEAN
            /\ p.ok <=> Meant!Defined(meant)
            /\ p.ok => /\ meant = [name |-> st.name, payload |-> ValuesIn(p.heap, st.cells)]
                       /\ Grows(h, p.heap) /\ p.cells \in Seq(1..Len(p.heap))
                       /\ st.cells \in Seq(1..Len(p.heap)) /\ st.cells \in {p.cells, <<>>}
<1> DEFINE p == EvalAll(h, target.parts, bound)
           es == target.parts
           M == [i \in DOMAIN es |-> Meant!Meaning(es[i], ValuesIn(h, bound))]
           meant == Meant!Reached(target.name, M)
<1>1. meant = Meant!StateOf(target, ValuesIn(h, bound))
  BY DEF Meant!StateOf
<1>2. AllDelivered(p, h, es, Len(es), bound)
  BY EvalAllDelivers
<1>3. DOMAIN es = 1..Len(es)
  BY DEF AreExpressions, IsSequence
<1>4. Meant!Defined(meant) <=> \A i \in 1..Len(es) : M[i] # Meant!Undefined
  <2>1. DOMAIN M = 1..Len(es) /\ Len(es) \in Nat /\ Len(M) = Len(es)
    BY <1>3 DEF AreExpressions, IsSequence
  <2> HIDE DEF M
  <2>2. CASE target.name = Meant!Bare /\ Len(M) = 1 /\ M[1].kind = "atom"
    <3>1. meant.payload = <<>>
      BY <2>2 DEF Meant!Reached
    <3>2. Meant!Defined(meant)
      BY <3>1 DEF Meant!Defined, Meant!ToSet
    <3>3. M[1] # Meant!Undefined
      BY <2>2 DEF Meant!Undefined, Meant!Value
    <3> QED BY <2>1, <2>2, <3>2, <3>3
  <2>3. CASE ~(target.name = Meant!Bare /\ Len(M) = 1 /\ M[1].kind = "atom")
    <3>1. meant.payload = M
      BY <2>3 DEF Meant!Reached
    <3> HIDE DEF meant
    <3> QED BY <2>1, <3>1 DEF Meant!Defined, Meant!ToSet
  <2> QED BY <2>2, <2>3
<1>5. p.ok \in BOOLEAN /\ (p.ok <=> \A i \in 1..Len(es) : M[i] # Meant!Undefined)
  <2>1. \A i \in 1..Len(es) : M[i] = Meant!Meaning(es[i], ValuesIn(h, bound))
    BY <1>3
  <2> HIDE DEF M, p
  <2> QED BY <1>2, <2>1 DEF AllDelivered
<1>6. ASSUME p.ok
      PROVE  M = ValuesIn(p.heap, p.cells) /\ Grows(h, p.heap) /\ p.cells \in Seq(1..Len(p.heap))
  <2>1. /\ Grows(h, p.heap) /\ p.cells \in Seq(1..Len(p.heap)) /\ Len(p.cells) = Len(es)
        /\ \A i \in 1..Len(es) : p.heap[p.cells[i]] = Meant!Meaning(es[i], ValuesIn(h, bound))
    <3> HIDE DEF p
    <3> QED BY <1>2, <1>6 DEF AllDelivered
  <2>2. DOMAIN p.cells = DOMAIN es
    BY <1>3, <2>1
  <2>3. M = [i \in DOMAIN p.cells |-> p.heap[p.cells[i]]]
    <3> HIDE DEF p
    <3> QED BY <1>3, <2>1, <2>2
  <2> QED BY <2>1, <2>3 DEF ValuesIn
<1> DEFINE st == Entered(p.heap, target.name, p.cells)
<1> HIDE DEF M, p
<1>7. ASSUME p.ok
      PROVE  /\ meant = [name |-> st.name, payload |-> ValuesIn(p.heap, st.cells)]
             /\ st.cells \in {p.cells, <<>>} /\ st.cells \in Seq(1..Len(p.heap))
  <2>1. /\ st.cells \in {p.cells, <<>>}
        /\ [name |-> st.name, payload |-> ValuesIn(p.heap, st.cells)]
             = Meant!Reached(target.name, ValuesIn(p.heap, p.cells))
    BY <1>6, <1>7, EnteredMeans
  <2>2. <<>> \in Seq(1..Len(p.heap))
    OBVIOUS
  <2> QED BY <1>6, <1>7, <2>1, <2>2
<1> HIDE DEF meant, st
<1> QED BY <1>1, <1>4, <1>5, <1>6, <1>7 DEF p, st

-----------------------------------------------------------------------------
(* Patterns.                                                               *)

LEMMA LeastExists ==
  ASSUME NEW S, S \subseteq Nat, S # {}
  PROVE  \E i \in S : \A j \in S : i <= j
<1> SUFFICES ASSUME \A i \in S : \E j \in S : ~(i <= j) PROVE FALSE
  OBVIOUS
<1> DEFINE T == {n \in Nat : \A i \in S : i > n}
<1>1. 0 \in T
  <2> SUFFICES ASSUME NEW i \in S PROVE i > 0
    OBVIOUS
  <2>1. PICK j \in S : ~(i <= j)
    OBVIOUS
  <2> QED BY <2>1
<1>2. ASSUME NEW n \in Nat, n \in T PROVE n + 1 \in T
  <2> SUFFICES ASSUME NEW i \in S PROVE i > n + 1
    OBVIOUS
  <2>1. PICK j \in S : ~(i <= j)
    OBVIOUS
  <2>2. j > n
    BY <1>2
  <2> QED BY <2>1, <2>2
<1>3. Nat \subseteq T
  <2> HIDE DEF T
  <2> QED BY <1>1, <1>2, NatSetInduction
<1>4. PICK i \in S : TRUE
  OBVIOUS
<1>5. i > i
  BY <1>3
<1> QED BY <1>5

Named(pattern, n) == {i \in 1..(n - 1) : pattern.parts[i].form = "name"}
NamesBefore(pattern, n) == {pattern.parts[i].name : i \in Named(pattern, n)}
IsFirst(pattern, n, x, i) ==
  /\ i \in Named(pattern, n) /\ pattern.parts[i].name = x
  /\ \A j \in Named(pattern, n) : pattern.parts[j].name = x => i <= j

LEMMA FirstExists ==
  ASSUME NEW pattern, NEW n \in Nat, NEW x \in NamesBefore(pattern, n)
  PROVE  \E i : IsFirst(pattern, n, x, i)
<1> DEFINE S == {i \in Named(pattern, n) : pattern.parts[i].name = x}
<1>1. S \subseteq Nat /\ S # {}
  BY DEF Named, NamesBefore
<1>2. \E i \in S : \A j \in S : i <= j
  <2> HIDE DEF S
  <2> QED BY <1>1, LeastExists
<1> QED BY <1>2 DEF IsFirst

\* A name stands for the value at its first occurrence.
LEMMA BoundBeforeMeans ==
  ASSUME NEW pattern, NEW n \in Nat, Named(pattern, n) \subseteq DOMAIN state.cells
  PROVE  LET f == Meant!BoundBefore(pattern, n) IN
         /\ f = [x \in NamesBefore(pattern, n) |-> f[x]]
         /\ \A x, i : IsFirst(pattern, n, x, i) => f[x] = heap[state.cells[i]]
<1> DEFINE f == Meant!BoundBefore(pattern, n)
           named == Named(pattern, n)
           Pick(x) == CHOOSE i \in named : /\ pattern.parts[i].name = x
                                           /\ \A j \in named : pattern.parts[j].name = x => i <= j
<1>1. f = [x \in NamesBefore(pattern, n) |-> Values(state.cells)[Pick(x)]]
  BY DEF Meant!BoundBefore, Named, NamesBefore
<1>2. ASSUME NEW x, NEW i, IsFirst(pattern, n, x, i) PROVE f[x] = heap[state.cells[i]]
  <2>1. i \in named /\ pattern.parts[i].name = x /\ \A j \in named : pattern.parts[j].name = x => i <= j
    BY <1>2 DEF IsFirst
  <2>2. named \subseteq Int
    BY DEF Named
  <2>3. Pick(x) = i
    <3> HIDE DEF named
    <3>1. /\ Pick(x) \in named /\ pattern.parts[Pick(x)].name = x
          /\ \A j \in named : pattern.parts[j].name = x => Pick(x) <= j
      BY <2>1
    <3> HIDE DEF Pick
    <3>2. i <= Pick(x) /\ Pick(x) <= i
      BY <2>1, <3>1
    <3>3. i \in Int /\ Pick(x) \in Int
      BY <2>1, <2>2, <3>1
    <3> QED BY <3>2, <3>3
  <2>4. x \in NamesBefore(pattern, n)
    BY <2>1 DEF NamesBefore
  <2> HIDE DEF Pick, named
  <2>5. f[x] = Values(state.cells)[i]
    <3> HIDE DEF f
    <3> QED BY <1>1, <2>3, <2>4
  <2>6. i \in DOMAIN state.cells
    BY <2>1 DEF named
  <2> QED BY <2>5, <2>6 DEF Values
<1> HIDE DEF Pick
<1> QED BY <1>1, <1>2

LEMMA NamedNext ==
  ASSUME NEW pattern, NEW n \in Nat \ {0}
  PROVE  Named(pattern, n + 1) =
           IF pattern.parts[n].form = "name" THEN Named(pattern, n) \cup {n} ELSE Named(pattern, n)
<1>1. 1..((n + 1) - 1) = 1..(n - 1) \cup {n}
  OBVIOUS
<1> QED BY <1>1 DEF Named

LEMMA FirstStaysFirst ==
  ASSUME NEW pattern, NEW n \in Nat \ {0}, NEW x, NEW i, IsFirst(pattern, n, x, i)
  PROVE  IsFirst(pattern, n + 1, x, i)
<1>1. i \in 1..(n - 1)
  BY DEF IsFirst, Named
<1>2. i <= n
  BY <1>1
<1> QED BY <1>2, NamedNext DEF IsFirst

LEMMA BoundBeforeSame ==
  ASSUME NEW pattern, NEW n \in Nat \ {0}, Named(pattern, n + 1) \subseteq DOMAIN state.cells,
         pattern.parts[n].form # "name" \/ pattern.parts[n].name \in NamesBefore(pattern, n)
  PROVE  Meant!BoundBefore(pattern, n + 1) = Meant!BoundBefore(pattern, n)
<1> DEFINE f == Meant!BoundBefore(pattern, n)
           g == Meant!BoundBefore(pattern, n + 1)
<1>1. NamesBefore(pattern, n + 1) = NamesBefore(pattern, n) /\ Named(pattern, n) \subseteq DOMAIN state.cells
  BY NamedNext DEF NamesBefore
<1>2. /\ f = [x \in NamesBefore(pattern, n) |-> f[x]]
      /\ \A x, i : IsFirst(pattern, n, x, i) => f[x] = heap[state.cells[i]]
  BY <1>1, BoundBeforeMeans
<1>3. /\ g = [x \in NamesBefore(pattern, n + 1) |-> g[x]]
      /\ \A x, i : IsFirst(pattern, n + 1, x, i) => g[x] = heap[state.cells[i]]
  <2>1. n + 1 \in Nat
    OBVIOUS
  <2> QED BY <2>1, BoundBeforeMeans
<1> HIDE DEF f, g
<1>4. ASSUME NEW x \in NamesBefore(pattern, n) PROVE g[x] = f[x]
  <2>1. PICK i : IsFirst(pattern, n, x, i)
    BY FirstExists
  <2>2. IsFirst(pattern, n + 1, x, i)
    BY <2>1, FirstStaysFirst
  <2>3. f[x] = heap[state.cells[i]]
    BY <2>1, <1>2
  <2>4. g[x] = heap[state.cells[i]]
    BY <2>2, <1>3
  <2> QED BY <2>3, <2>4
<1>5. f = g
  BY <1>1, <1>2, <1>3, <1>4
<1> QED BY <1>5 DEF f, g

LEMMA BoundBeforeMore ==
  ASSUME NEW pattern, NEW n \in Nat \ {0}, Named(pattern, n + 1) \subseteq DOMAIN state.cells,
         pattern.parts[n].form = "name", pattern.parts[n].name \notin NamesBefore(pattern, n)
  PROVE  Meant!BoundBefore(pattern, n + 1) =
           Bind(Meant!BoundBefore(pattern, n), pattern.parts[n].name, heap[state.cells[n]])
<1> DEFINE f == Meant!BoundBefore(pattern, n)
           g == Meant!BoundBefore(pattern, n + 1)
           y == pattern.parts[n].name
<1>1. /\ NamesBefore(pattern, n + 1) = NamesBefore(pattern, n) \cup {y}
      /\ Named(pattern, n) \subseteq DOMAIN state.cells
  BY NamedNext DEF NamesBefore
<1>2. /\ f = [x \in NamesBefore(pattern, n) |-> f[x]]
      /\ \A x, i : IsFirst(pattern, n, x, i) => f[x] = heap[state.cells[i]]
  BY <1>1, BoundBeforeMeans
<1>3. /\ g = [x \in NamesBefore(pattern, n + 1) |-> g[x]]
      /\ \A x, i : IsFirst(pattern, n + 1, x, i) => g[x] = heap[state.cells[i]]
  <2>1. n + 1 \in Nat
    OBVIOUS
  <2> QED BY <2>1, BoundBeforeMeans
<1>4. IsFirst(pattern, n + 1, y, n)
  <2>1. \A j \in Named(pattern, n) : pattern.parts[j].name # y
    BY DEF NamesBefore
  <2>2. Named(pattern, n + 1) = Named(pattern, n) \cup {n}
    BY NamedNext
  <2>3. n <= n
    OBVIOUS
  <2> QED BY <2>1, <2>2, <2>3 DEF IsFirst
<1> HIDE DEF f, g, y
<1>5. ASSUME NEW x \in NamesBefore(pattern, n) PROVE g[x] = f[x]
  <2>1. PICK i : IsFirst(pattern, n, x, i)
    BY FirstExists
  <2>2. IsFirst(pattern, n + 1, x, i)
    BY <2>1, FirstStaysFirst
  <2>3. f[x] = heap[state.cells[i]]
    BY <2>1, <1>2
  <2>4. g[x] = heap[state.cells[i]]
    BY <2>2, <1>3
  <2> QED BY <2>3, <2>4
<1>6. g[y] = heap[state.cells[n]]
  BY <1>3, <1>4
<1>7. y \notin NamesBefore(pattern, n)
  BY DEF y
<1>8. DOMAIN f = NamesBefore(pattern, n)
  BY <1>2
<1>9. g = Bind(f, y, heap[state.cells[n]])
  BY <1>1, <1>2, <1>3, <1>5, <1>6, <1>7, <1>8 DEF Bind
<1> QED BY <1>9 DEF f, g, y

\* What the names of a machine stand for.
MScope == Values(IF at = "apply" THEN armEnv ELSE env)

LEMMA ScopeAtMeans ==
  ASSUME NEW pattern, NEW n
  PROVE  Meant!ScopeAt(pattern, n) =
           LET new == Meant!BoundBefore(pattern, n)
               kept == Unbind(MScope, BoundBy(pattern))
           IN [x \in DOMAIN new \cup DOMAIN kept |-> IF x \in DOMAIN new THEN new[x] ELSE kept[x]]
BY DEF Meant!ScopeAt, Meant!Unbind, Unbind, Meant!BoundBy, BoundBy, MScope

LEMMA ScopeBeforeAll ==
  ASSUME NEW pattern
  PROVE  Meant!ScopeAt(pattern, 1) = Unbind(MScope, BoundBy(pattern))
<1>1. Named(pattern, 1) = {} /\ NamesBefore(pattern, 1) = {}
  BY DEF Named, NamesBefore
<1>2. DOMAIN Meant!BoundBefore(pattern, 1) = {}
  <2> DEFINE f == Meant!BoundBefore(pattern, 1)
  <2>1. f = [x \in NamesBefore(pattern, 1) |-> f[x]]
    BY <1>1, BoundBeforeMeans
  <2> HIDE DEF f
  <2>2. DOMAIN f = {}
    BY <2>1, <1>1
  <2> QED BY <2>2 DEF f
<1> DEFINE kept == Unbind(MScope, BoundBy(pattern))
<1>3. kept = [x \in DOMAIN kept |-> kept[x]]
  BY DEF Unbind
<1> HIDE DEF kept
<1>4. Meant!ScopeAt(pattern, 1) = kept
  BY <1>2, <1>3, ScopeAtMeans DEF kept
<1> QED BY <1>4 DEF kept

LEMMA ScopeDomain ==
  ASSUME NEW pattern, NEW n \in Nat, Named(pattern, n) \subseteq DOMAIN state.cells,
         NEW x \in BoundBy(pattern)
  PROVE  x \in DOMAIN Meant!ScopeAt(pattern, n) <=> x \in NamesBefore(pattern, n)
<1> DEFINE f == Meant!BoundBefore(pattern, n)
<1>1. f = [y \in NamesBefore(pattern, n) |-> f[y]]
  BY BoundBeforeMeans
<1> HIDE DEF f
<1>2. DOMAIN f = NamesBefore(pattern, n)
  BY <1>1
<1>3. x \notin DOMAIN Unbind(MScope, BoundBy(pattern))
  BY DEF Unbind
<1> QED BY <1>2, <1>3, ScopeAtMeans DEF f

LEMMA ScopeSame ==
  ASSUME NEW pattern, NEW n \in Nat \ {0}, Named(pattern, n + 1) \subseteq DOMAIN state.cells,
         pattern.parts[n].form # "name" \/ pattern.parts[n].name \in NamesBefore(pattern, n)
  PROVE  Meant!ScopeAt(pattern, n + 1) = Meant!ScopeAt(pattern, n)
<1>1. Meant!BoundBefore(pattern, n + 1) = Meant!BoundBefore(pattern, n)
  BY BoundBeforeSame
<1> QED BY <1>1 DEF Meant!ScopeAt

LEMMA ScopeMore ==
  ASSUME NEW pattern, NEW n \in Nat \ {0}, Named(pattern, n + 1) \subseteq DOMAIN state.cells,
         pattern.parts[n].form = "name", pattern.parts[n].name \notin NamesBefore(pattern, n)
  PROVE  Meant!ScopeAt(pattern, n + 1) =
           Bind(Meant!ScopeAt(pattern, n), pattern.parts[n].name, heap[state.cells[n]])
<1> DEFINE f == Meant!BoundBefore(pattern, n)
           y == pattern.parts[n].name
           v == heap[state.cells[n]]
           kept == Unbind(MScope, BoundBy(pattern))
<1>1. Meant!BoundBefore(pattern, n + 1) = Bind(f, y, v)
  BY BoundBeforeMore
<1>2. /\ Meant!ScopeAt(pattern, n) =
           [x \in DOMAIN f \cup DOMAIN kept |-> IF x \in DOMAIN f THEN f[x] ELSE kept[x]]
      /\ Meant!ScopeAt(pattern, n + 1) =
           [x \in DOMAIN Bind(f, y, v) \cup DOMAIN kept |->
              IF x \in DOMAIN Bind(f, y, v) THEN Bind(f, y, v)[x] ELSE kept[x]]
  BY <1>1, ScopeAtMeans
<1> HIDE DEF f, y, v, kept
<1>3. Meant!ScopeAt(pattern, n + 1) = Bind(Meant!ScopeAt(pattern, n), y, v)
  BY <1>2 DEF Bind
<1> QED BY <1>3 DEF y, v

\* What Match has after each of the parts.
MatchUpto(pattern, bound) ==
  LET m[n \in 0..Len(pattern.parts)] ==
        IF n = 0 THEN [heap |-> heap, env |-> Unbind(bound, BoundBy(pattern)), verdict |-> "yes"]
        ELSE MatchPart(m[n - 1], pattern.parts[n], state.cells[n])
  IN m

LEMMA MatchUptoEquation ==
  ASSUME NEW pattern, NEW bound, Len(pattern.parts) \in Nat
  PROVE  MatchUpto(pattern, bound) =
           [n \in 0..Len(pattern.parts) |->
              IF n = 0 THEN [heap |-> heap, env |-> Unbind(bound, BoundBy(pattern)), verdict |-> "yes"]
              ELSE MatchPart(MatchUpto(pattern, bound)[n - 1], pattern.parts[n], state.cells[n])]
<1> DEFINE N == Len(pattern.parts)
           First == [heap |-> heap, env |-> Unbind(bound, BoundBy(pattern)), verdict |-> "yes"]
           After(g, n) == IF n = 0 THEN First ELSE MatchPart(g[n - 1], pattern.parts[n], state.cells[n])
           Solves(g, k) == g = [n \in 0..k |-> After(g, n)]
           S == {k \in Nat : \E g : Solves(g, k)}
<1>1. 0 \in S
  <2> DEFINE g == [n \in 0..0 |-> First]
  <2>1. \A n \in 0..0 : After(g, n) = g[n]
    BY DEF After
  <2>2. Solves(g, 0)
    <3> HIDE DEF After
    <3> QED BY <2>1
  <2> QED
    <3> HIDE DEF g, Solves
    <3> QED BY <2>2
<1>2. ASSUME NEW k \in Nat, k \in S PROVE k + 1 \in S
  <2>1. PICK g : Solves(g, k)
    BY <1>2
  <2> DEFINE more == [n \in 0..(k+1) |-> After(g, n)]
  <2>2. \A n \in 0..k : more[n] = g[n]
    <3> HIDE DEF After
    <3> QED BY <2>1
  <2>3. \A n \in 0..(k+1) : more[n] = After(more, n)
    <3> SUFFICES ASSUME NEW n \in 0..(k+1) PROVE After(g, n) = After(more, n)
      <4> HIDE DEF After
      <4> QED OBVIOUS
    <3>1. CASE n = 0
      BY <3>1
    <3>2. CASE n # 0
      <4>1. n - 1 \in 0..k
        BY <3>2
      <4>2. more[n - 1] = g[n - 1]
        BY <2>2, <4>1
      <4> HIDE DEF more
      <4> QED BY <4>2
    <3> QED BY <3>1, <3>2
  <2>4. Solves(more, k + 1)
    <3>1. more = [n \in 0..(k+1) |-> more[n]]
      OBVIOUS
    <3> HIDE DEF more, After
    <3> QED BY <2>3, <3>1
  <2> QED
    <3> HIDE DEF more, Solves
    <3> QED BY <2>4
<1>3. PICK g : Solves(g, N)
  <2>1. Nat \subseteq S
    <3> HIDE DEF S
    <3> QED BY <1>1, <1>2, NatSetInduction
  <2> QED BY <2>1
<1> QED BY <1>3 DEF MatchUpto

\* The cells of an environment are those of the machine's and of its state.
KeepsCells(bound) ==
  \A x \in DOMAIN bound : \/ x \in DOMAIN env /\ bound[x] = env[x]
                          \/ \E i \in DOMAIN state.cells : bound[x] = state.cells[i]

\* The first n parts have been matched, or one of them has decided against the pattern.
PartsMatched(m, pattern, n) ==
  /\ m = [heap |-> m.heap, env |-> m.env, verdict |-> m.verdict]
  /\ m.verdict = "yes" =>
       /\ \A i \in 1..n : Meant!PartVerdict(pattern, i) = "yes"
       /\ Grows(heap, m.heap) /\ IsEnv(m.env, m.heap) /\ KeepsCells(m.env)
       /\ ValuesIn(m.heap, m.env) = Meant!ScopeAt(pattern, n + 1)
  /\ m.verdict # "yes" =>
       \E i \in 1..n : /\ Meant!PartVerdict(pattern, i) = m.verdict
                       /\ \A j \in 1..(i - 1) : Meant!PartVerdict(pattern, j) = "yes"

MatchReady ==
  /\ at # "apply"
  /\ heap \in Seq(Scalars) /\ IsEnv(symbols, heap) /\ IsEnv(env, heap)
  /\ state.cells \in Seq(1..Len(heap))

LEMMA PartVerdictMeans ==
  ASSUME NEW pattern, NEW n \in DOMAIN state.cells
  PROVE  LET part == pattern.parts[n]
             before == Meant!ScopeAt(pattern, n)
             v == Meant!Meaning(part.value, before)
             cell == state.cells[n]
             verdict == Meant!PartVerdict(pattern, n)
         IN /\ part.form = "any" => verdict = "yes"
            /\ part.form = "name" =>
                 verdict = IF part.name \in DOMAIN before /\ before[part.name] # heap[cell] THEN "no" ELSE "yes"
            /\ part.form = "expression" =>
                 verdict = IF v = Meant!Undefined THEN "error"
                           ELSE IF ValuesMatch(v, heap[cell]) THEN "yes" ELSE "no"
<1>1. Values(state.cells)[n] = heap[state.cells[n]]
  BY DEF Values
<1> DEFINE before == Meant!ScopeAt(pattern, n)
           v == Meant!Meaning(pattern.parts[n].value, before)
<1>2. Meant!PartVerdict(pattern, n) =
        CASE pattern.parts[n].form = "any" -> "yes"
          [] pattern.parts[n].form = "name" ->
               IF pattern.parts[n].name \in DOMAIN before /\ before[pattern.parts[n].name] # heap[state.cells[n]]
               THEN "no" ELSE "yes"
          [] pattern.parts[n].form = "expression" ->
               IF v = Meant!Undefined THEN "error"
               ELSE IF ValuesMatch(v, heap[state.cells[n]]) THEN "yes" ELSE "no"
  BY <1>1, SameOperations DEF Meant!PartVerdict
<1> HIDE DEF before, v
<1> QED BY <1>2 DEF before, v

LEMMA OneMorePart ==
  ASSUME MatchReady, NEW pattern, NEW m, NEW n \in Nat, IsPattern(pattern),
         Len(pattern.parts) = Len(state.cells), n + 1 \in 1..Len(state.cells),
         PartsMatched(m, pattern, n)
  PROVE  PartsMatched(MatchPart(m, pattern.parts[n + 1], state.cells[n + 1]), pattern, n + 1)
<1> DEFINE k == n + 1
           part == pattern.parts[k]
           cell == state.cells[k]
           q == MatchPart(m, part, cell)
           before == Meant!ScopeAt(pattern, k)
           V(i) == Meant!PartVerdict(pattern, i)
<1>1. k \in Nat \ {0} /\ k \in 1..Len(pattern.parts) /\ k \in DOMAIN state.cells
      /\ cell \in 1..Len(heap) /\ Len(heap) \in Nat
  BY DEF MatchReady
<1>2. DOMAIN pattern.parts = 1..Len(pattern.parts)
  BY DEF IsPattern, IsSequence
<1>3. part \in ToSet(pattern.parts) /\ \/ part.form \in {"any", "name"}
                                       \/ part.form = "expression" /\ IsExpression(part.value)
  BY <1>1, <1>2 DEF IsPattern, ToSet
<1>4. m = [heap |-> m.heap, env |-> m.env, verdict |-> m.verdict]
  BY DEF PartsMatched
<1>5. Named(pattern, k + 1) \subseteq DOMAIN state.cells /\ Named(pattern, k) \subseteq DOMAIN state.cells
  BY <1>1 DEF Named, MatchReady
<1> DEFINE Goal == PartsMatched(q, pattern, k)
<1>6. ASSUME m.verdict # "yes" PROVE Goal
  <2>1. q = m
    BY <1>6 DEF MatchPart
  <2>2. PICK i \in 1..n : V(i) = m.verdict /\ \A j \in 1..(i - 1) : V(j) = "yes"
    BY <1>6 DEF PartsMatched
  <2>3. i \in 1..k
    OBVIOUS
  <2> HIDE DEF q, V, k
  <2> QED BY <1>6, <2>1, <2>2, <2>3, <1>4 DEF PartsMatched, V
<1>7. ASSUME m.verdict = "yes" PROVE Goal
  <2>1. /\ \A i \in 1..n : V(i) = "yes"
        /\ Grows(heap, m.heap) /\ IsEnv(m.env, m.heap) /\ KeepsCells(m.env)
        /\ ValuesIn(m.heap, m.env) = before
    BY <1>7 DEF PartsMatched
  <2>2. DOMAIN before = DOMAIN m.env /\ \A x \in DOMAIN m.env : before[x] = m.heap[m.env[x]]
    <3> HIDE DEF before
    <3> QED BY <2>1 DEF ValuesIn
  <2>3. m.heap[cell] = heap[cell]
    BY <1>1, <2>1 DEF Grows
  <2> DEFINE NewScope == Meant!ScopeAt(pattern, k + 1)
  \* The part decides against the pattern.
  <2>4. ASSUME V(k) # "yes", q = [m EXCEPT !.verdict = V(k)] \/ q = [m EXCEPT !.heap = q.heap, !.verdict = V(k)]
        PROVE  Goal
    <3>1. q = [heap |-> q.heap, env |-> q.env, verdict |-> q.verdict] /\ q.verdict = V(k)
      <4> HIDE DEF V, q
      <4> QED BY <2>4, <1>4
    <3>2. k \in 1..k /\ 1..(k - 1) = 1..n
      OBVIOUS
    <3> HIDE DEF q, V, k
    <3> QED BY <2>1, <2>4, <3>1, <3>2 DEF PartsMatched, V
  \* The part matches.
  <2>5. ASSUME V(k) = "yes", q = [heap |-> q.heap, env |-> q.env, verdict |-> "yes"],
               Grows(heap, q.heap), IsEnv(q.env, q.heap), KeepsCells(q.env),
               ValuesIn(q.heap, q.env) = NewScope
        PROVE  Goal
    <3>1. \A i \in 1..k : V(i) = "yes"
      <4> HIDE DEF V
      <4> QED BY <2>1, <2>5
    <3>2. q.verdict = "yes"
      <4> HIDE DEF q
      <4> QED BY <2>5
    <3> HIDE DEF q, V, k
    <3> QED BY <2>5, <3>1, <3>2 DEF PartsMatched, V, NewScope
  <2>6. CASE part.form = "any"
    <3>1. V(k) = "yes"
      BY <1>1, <2>6, PartVerdictMeans
    <3>2. q = m
      BY <2>6 DEF MatchPart
    <3>3. NewScope = before
      BY <1>1, <1>5, <2>6, ScopeSame
    <3> HIDE DEF q, V, NewScope, before, Goal, part, k
    <3> QED BY <1>4, <1>7, <2>1, <2>5, <3>1, <3>2, <3>3
  <2>7. CASE part.form = "name"
    <3>1. V(k) = IF part.name \in DOMAIN before /\ before[part.name] # heap[cell] THEN "no" ELSE "yes"
      BY <1>1, <2>7, PartVerdictMeans
    <3>2. q = MatchName(m, part.name, cell)
      BY <1>7, <2>7 DEF MatchPart
    <3>3. part.name \in BoundBy(pattern)
      BY <1>1, <1>2, <2>7 DEF BoundBy
    <3>4. part.name \in DOMAIN before <=> part.name \in NamesBefore(pattern, k)
      BY <1>1, <1>5, <3>3, ScopeDomain
    <3>5. ASSUME part.name \in DOMAIN m.env PROVE Goal
      <4>1. q = [m EXCEPT !.verdict = IF m.heap[m.env[part.name]] = m.heap[cell] THEN "yes" ELSE "no"]
        BY <3>2, <3>5 DEF MatchName
      <4>2. m.heap[m.env[part.name]] = before[part.name] /\ part.name \in DOMAIN before
        BY <2>2, <3>5
      <4> HIDE DEF q, V, before, Goal, part, cell
      <4>3. q = [m EXCEPT !.verdict = V(k)]
        BY <4>1, <4>2, <3>1, <2>3
      <4>4. CASE V(k) # "yes"
        BY <4>3, <4>4, <2>4
      <4>5. CASE V(k) = "yes"
        <5>1. NewScope = before
          BY <1>1, <1>5, <2>7, <3>4, <4>2, ScopeSame DEF before, part
        <5> HIDE DEF NewScope
        <5>2. q = m
          BY <4>3, <4>5, <1>7, <1>4
        <5> QED BY <1>4, <1>7, <2>1, <2>5, <4>5, <5>1, <5>2
      <4> QED BY <4>4, <4>5
    <3>6. ASSUME part.name \notin DOMAIN m.env PROVE Goal
      <4>1. q = [m EXCEPT !.env = Bind(@, part.name, cell)]
        BY <3>2, <3>6 DEF MatchName
      <4>2. part.name \notin DOMAIN before
        BY <2>2, <3>6
      <4>3. V(k) = "yes"
        BY <3>1, <4>2
      <4>4. NewScope = Bind(before, part.name, heap[cell])
        BY <1>1, <1>5, <2>7, <3>4, <4>2, ScopeMore
      <4> DEFINE more == Bind(m.env, part.name, cell)
      <4>5. q = [heap |-> m.heap, env |-> more, verdict |-> "yes"]
        BY <4>1, <1>4, <1>7
      <4>6. cell \in 1..Len(m.heap)
        BY <1>1, <2>1 DEF Grows
      <4>7. IsEnv(more, m.heap)
        BY <2>1, <4>6 DEF IsEnv, Bind
      <4>8. KeepsCells(more)
        <5>1. DOMAIN more = DOMAIN m.env \cup {part.name} /\ more[part.name] = cell
              /\ \A x \in DOMAIN m.env : more[x] = m.env[x]
          BY <3>6 DEF Bind
        <5> HIDE DEF more
        <5> QED BY <1>1, <2>1, <5>1 DEF KeepsCells
      <4>9. ValuesIn(m.heap, more) = NewScope
        <5> HIDE DEF NewScope, before, cell, part
        <5> QED BY <2>2, <2>3, <4>2, <4>4 DEF ValuesIn, Bind
      <4> HIDE DEF q, V, NewScope, Goal, more, before, part, cell
      <4> QED BY <2>1, <2>5, <4>3, <4>5, <4>7, <4>8, <4>9
    <3> QED BY <3>5, <3>6
  <2>8. CASE part.form = "expression"
    <3> DEFINE v == Meant!Meaning(part.value, before)
               r == Eval(m.heap, part.value, m.env)
    <3>1. V(k) = IF v = Meant!Undefined THEN "error" ELSE IF ValuesMatch(v, heap[cell]) THEN "yes" ELSE "no"
      BY <1>1, <2>8, PartVerdictMeans
    <3>2. q = IF ~r.ok THEN [m EXCEPT !.verdict = "error"]
              ELSE [m EXCEPT !.heap = r.heap,
                             !.verdict = IF ValuesMatch(r.heap[r.cell], r.heap[cell]) THEN "yes" ELSE "no"]
      BY <1>7, <2>8 DEF MatchPart, MatchExpression
    <3>3. Delivers(r, m.heap, v)
      <4>1. IsExpression(part.value)
        BY <1>3, <2>8
      <4>2. Delivers(r, m.heap, Meant!Meaning(part.value, ValuesIn(m.heap, m.env)))
        BY <2>1, <4>1, EvalDelivers DEF MatchReady
      <4> QED BY <2>1, <4>2
    <3>4. r.ok \in BOOLEAN /\ (r.ok <=> v # Meant!Undefined)
      <4> HIDE DEF r, v
      <4> QED BY <3>3 DEF Delivers
    <3>5. ASSUME ~r.ok PROVE Goal
      <4>1. V(k) = "error" /\ q = [m EXCEPT !.verdict = "error"]
        BY <3>1, <3>2, <3>4, <3>5
      <4> HIDE DEF q, V, Goal
      <4> QED BY <4>1, <2>4
    <3>6. ASSUME r.ok PROVE Goal
      <4>1. Grows(m.heap, r.heap) /\ r.heap[r.cell] = v
        BY <3>3, <3>6 DEF Delivers
      <4>2. r.heap[cell] = heap[cell]
        BY <1>1, <2>1, <2>3, <4>1 DEF Grows
      <4> HIDE DEF q, V, Goal, r, v, cell
      <4>3. q = [m EXCEPT !.heap = r.heap, !.verdict = V(k)]
        BY <3>1, <3>2, <3>4, <3>6, <4>1, <4>2
      <4>4. q.heap = r.heap /\ q = [heap |-> r.heap, env |-> m.env, verdict |-> V(k)]
        BY <4>3, <1>4
      <4>5. CASE V(k) # "yes"
        BY <4>3, <4>4, <4>5, <2>4
      <4>6. CASE V(k) = "yes"
        <5>1. NewScope = before
          BY <1>1, <1>5, <2>8, ScopeSame
        <5>2. Grows(heap, r.heap) /\ IsEnv(m.env, r.heap) /\ ValuesIn(r.heap, m.env) = ValuesIn(m.heap, m.env)
          BY <2>1, <4>1, GrowsTransitive, GrowsKeeps
        <5> HIDE DEF NewScope, before
        <5> QED BY <2>1, <2>5, <4>4, <4>6, <5>1, <5>2
      <4> QED BY <4>5, <4>6
    <3> QED BY <3>4, <3>5, <3>6
  <2> QED BY <1>3, <2>6, <2>7, <2>8
<1> QED BY <1>6, <1>7

LEMMA PartsAreMatched ==
  ASSUME MatchReady, NEW pattern, IsPattern(pattern), Len(pattern.parts) = Len(state.cells)
  PROVE  PartsMatched(MatchUpto(pattern, env)[Len(pattern.parts)], pattern, Len(pattern.parts))
<1> DEFINE N == Len(pattern.parts)
           all == MatchUpto(pattern, env)
           start == [heap |-> heap, env |-> Unbind(env, BoundBy(pattern)), verdict |-> "yes"]
           S == {n \in Nat : n <= N => PartsMatched(all[n], pattern, n)}
<1>1. N \in Nat
  BY DEF MatchReady
<1>2. \A n \in 0..N : all[n] = IF n = 0 THEN start ELSE MatchPart(all[n - 1], pattern.parts[n], state.cells[n])
  <2>1. all = [n \in 0..N |-> IF n = 0 THEN start ELSE MatchPart(all[n - 1], pattern.parts[n], state.cells[n])]
    BY <1>1, MatchUptoEquation
  <2> HIDE DEF all, start
  <2> QED BY <2>1
<1> HIDE DEF all
<1>3. 0 \in S
  <2> DEFINE free == Unbind(env, BoundBy(pattern))
  <2>1. 0 \in 0..N
    BY <1>1
  <2>2. all[0] = start
    BY <1>2, <2>1
  <2>3. Grows(heap, heap)
    BY DEF Grows, MatchReady
  <2>4. free = [x \in DOMAIN env \ BoundBy(pattern) |-> env[x]]
    BY DEF Unbind
  <2>5. IsEnv(free, heap) /\ KeepsCells(free)
    <3> HIDE DEF free
    <3> QED BY <2>4 DEF IsEnv, KeepsCells, MatchReady
  <2>6. ValuesIn(heap, free) = Unbind(MScope, BoundBy(pattern))
    <3>1. MScope = Values(env)
      BY DEF MatchReady, MScope
    <3> HIDE DEF free
    <3> QED BY <2>4, <3>1 DEF ValuesIn, Unbind, Values
  <2>7. ValuesIn(heap, free) = Meant!ScopeAt(pattern, 0 + 1)
    BY <2>6, ScopeBeforeAll
  <2>8. 1..0 = {}
    OBVIOUS
  <2>9. PartsMatched(start, pattern, 0)
    <3> HIDE DEF free
    <3> QED BY <2>3, <2>5, <2>7, <2>8 DEF PartsMatched, free
  <2> HIDE DEF start
  <2> QED BY <2>2, <2>9
<1>4. ASSUME NEW n \in Nat, n \in S PROVE n + 1 \in S
  <2> SUFFICES ASSUME n + 1 <= N PROVE PartsMatched(all[n + 1], pattern, n + 1)
    OBVIOUS
  <2>1. /\ PartsMatched(all[n], pattern, n) /\ n + 1 \in 0..N /\ n + 1 # 0 /\ (n + 1) - 1 = n
        /\ n + 1 \in 1..Len(state.cells)
    BY <1>1, <1>4
  <2>2. all[n + 1] = MatchPart(all[n], pattern.parts[n + 1], state.cells[n + 1])
    BY <1>2, <2>1
  <2>3. PartsMatched(MatchPart(all[n], pattern.parts[n + 1], state.cells[n + 1]), pattern, n + 1)
    BY <2>1, OneMorePart
  <2> QED BY <2>2, <2>3
<1>5. Nat \subseteq S
  <2> HIDE DEF S
  <2> QED BY <1>3, <1>4, NatSetInduction
<1>6. PartsMatched(all[N], pattern, N)
  BY <1>1, <1>5
<1> QED BY <1>6 DEF all

LEMMA PatternVerdictMeans ==
  ASSUME NEW pattern, pattern # Wildcard, pattern.name = state.name,
         Len(pattern.parts) = Len(state.cells), IsPattern(pattern), state.cells \in Seq(1..Len(heap))
  PROVE  LET N == Len(pattern.parts) IN
         /\ (\A i \in 1..N : Meant!PartVerdict(pattern, i) = "yes") => Meant!PatternVerdict(pattern) = "yes"
         /\ \A i \in 1..N :
              /\ Meant!PartVerdict(pattern, i) # "yes"
              /\ \A j \in 1..(i - 1) : Meant!PartVerdict(pattern, j) = "yes"
              => Meant!PatternVerdict(pattern) = Meant!PartVerdict(pattern, i)
<1> DEFINE N == Len(pattern.parts)
           V(i) == Meant!PartVerdict(pattern, i)
           others == {n \in 1..N : V(n) # "yes"}
           Pick == CHOOSE n \in others : \A m \in others : n <= m
<1>1. DOMAIN pattern.parts = 1..N /\ N \in Nat
  BY DEF IsPattern, IsSequence
<1>2. DOMAIN state.cells = 1..Len(state.cells)
  OBVIOUS
<1>3. Len(Values(state.cells)) = Len(state.cells)
  BY <1>2 DEF Values
<1>4. pattern # Meant!Wildcard
  BY DEF Wildcard, Meant!Wildcard, Bare, Meant!Bare, Anything, Meant!Anything
<1>5. Meant!PatternVerdict(pattern) = IF others = {} THEN "yes" ELSE V(Pick)
  BY <1>1, <1>3, <1>4 DEF Meant!PatternVerdict
<1>6. ASSUME NEW i \in 1..N, V(i) # "yes", \A j \in 1..(i - 1) : V(j) = "yes"
      PROVE  Meant!PatternVerdict(pattern) = V(i)
  <2>1. i \in others /\ others \subseteq Int
    BY <1>6
  <2>2. \A m \in others : i <= m
    <3> SUFFICES ASSUME NEW m \in others, ~(i <= m) PROVE FALSE
      OBVIOUS
    <3>1. m \in 1..(i - 1) /\ V(m) # "yes"
      BY <1>1
    <3> HIDE DEF V
    <3> QED BY <1>6, <3>1
  <2>3. Pick \in others /\ \A m \in others : Pick <= m
    <3> HIDE DEF others
    <3> QED BY <2>1, <2>2
  <2> HIDE DEF Pick, others
  <2>4. Pick <= i /\ i <= Pick /\ i \in Int /\ Pick \in Int
    BY <2>1, <2>2, <2>3
  <2>5. Pick = i
    BY <2>4
  <2> HIDE DEF V
  <2> QED BY <1>5, <2>1, <2>5
<1>7. ASSUME \A i \in 1..N : V(i) = "yes" PROVE Meant!PatternVerdict(pattern) = "yes"
  <2>1. others = {}
    <3> HIDE DEF V
    <3> QED BY <1>7
  <2> QED BY <1>5, <2>1
<1> QED BY <1>6, <1>7

\* Matching decides as the verdict of the pattern does, and extends the environment as
\* its bindings say.
LEMMA MatchMeans ==
  ASSUME MatchReady, NEW pattern, IsPattern(pattern)
  PROVE  LET m == Match(pattern, env) IN
         /\ m.verdict = Meant!PatternVerdict(pattern)
         /\ m.verdict = "yes" =>
              /\ Grows(heap, m.heap) /\ IsEnv(m.env, m.heap) /\ KeepsCells(m.env)
              /\ ValuesIn(m.heap, m.env) = Meant!Bindings(pattern)
<1> DEFINE N == Len(pattern.parts)
           m == Match(pattern, env)
           start == [heap |-> heap, env |-> Unbind(env, BoundBy(pattern)), verdict |-> "yes"]
           all == MatchUpto(pattern, env)
           Goal == /\ m.verdict = Meant!PatternVerdict(pattern)
                   /\ m.verdict = "yes" =>
                        /\ Grows(heap, m.heap) /\ IsEnv(m.env, m.heap) /\ KeepsCells(m.env)
                        /\ ValuesIn(m.heap, m.env) = Meant!Bindings(pattern)
<1>1. pattern = Meant!Wildcard <=> pattern = Wildcard
  BY DEF Wildcard, Meant!Wildcard, Bare, Meant!Bare, Anything, Meant!Anything
<1>2. m = IF pattern = Wildcard THEN start
          ELSE IF pattern.name # state.name \/ Len(pattern.parts) # Len(state.cells)
            THEN [start EXCEPT !.verdict = "no"]
          ELSE all[N]
  BY DEF Match, MatchUpto
<1>3. DOMAIN state.cells = 1..Len(state.cells)
  BY DEF MatchReady
<1>4. Len(Values(state.cells)) = Len(state.cells)
  BY <1>3 DEF Values, MatchReady
<1>5. ASSUME pattern = Wildcard PROVE Goal
  <2>1. BoundBy(pattern) = {}
    <3>1. pattern.parts = <<Anything>>
      BY <1>5 DEF Wildcard
    <3>2. DOMAIN pattern.parts = {1} /\ pattern.parts[1] = [form |-> "any"]
      BY <3>1 DEF Anything
    <3>3. \A j \in DOMAIN pattern.parts : pattern.parts[j].form # "name"
      BY <3>2
    <3> QED BY <3>3 DEF BoundBy
  <2>2. env = [x \in DOMAIN env |-> env[x]]
    BY DEF MatchReady, IsEnv
  <2>3. Unbind(env, BoundBy(pattern)) = env
    BY <2>1, <2>2 DEF Unbind
  <2>4. m = [heap |-> heap, env |-> env, verdict |-> "yes"]
    BY <1>2, <1>5, <2>3
  <2>5. Meant!PatternVerdict(pattern) = "yes"
    BY <1>1, <1>5 DEF Meant!PatternVerdict
  <2>6. Meant!Bindings(pattern) = ValuesIn(heap, env)
    BY <1>1, <1>5 DEF Meant!Bindings, ValuesIn, Values, MatchReady
  <2>7. Grows(heap, heap) /\ IsEnv(env, heap) /\ KeepsCells(env)
    BY DEF MatchReady, Grows, KeepsCells
  <2> HIDE DEF m
  <2> QED BY <2>4, <2>5, <2>6, <2>7
<1>6. ASSUME pattern # Wildcard, pattern.name # state.name \/ Len(pattern.parts) # Len(state.cells) PROVE Goal
  <2>1. m.verdict = "no"
    BY <1>2, <1>6
  <2>2. Meant!PatternVerdict(pattern) = "no"
    BY <1>1, <1>4, <1>6 DEF Meant!PatternVerdict
  <2> HIDE DEF m
  <2> QED BY <2>1, <2>2
<1>7. ASSUME pattern # Wildcard, pattern.name = state.name, Len(pattern.parts) = Len(state.cells) PROVE Goal
  <2>1. m = all[N]
    BY <1>2, <1>7
  <2>2. PartsMatched(m, pattern, N)
    BY <1>7, <2>1, PartsAreMatched
  <2> HIDE DEF m
  <2>3. ASSUME m.verdict = "yes" PROVE Goal
    <3>1. /\ \A i \in 1..N : Meant!PartVerdict(pattern, i) = "yes"
          /\ Grows(heap, m.heap) /\ IsEnv(m.env, m.heap) /\ KeepsCells(m.env)
          /\ ValuesIn(m.heap, m.env) = Meant!ScopeAt(pattern, N + 1)
      BY <2>2, <2>3 DEF PartsMatched
    <3>2. Meant!PatternVerdict(pattern) = "yes"
      BY <1>7, <3>1, PatternVerdictMeans DEF MatchReady
    <3>3. Meant!Bindings(pattern) = Meant!ScopeAt(pattern, N + 1)
      BY <1>1, <1>7 DEF Meant!Bindings
    <3> QED BY <2>3, <3>1, <3>2, <3>3
  <2>4. ASSUME m.verdict # "yes" PROVE Goal
    <3>1. PICK i \in 1..N : /\ Meant!PartVerdict(pattern, i) = m.verdict
                            /\ \A j \in 1..(i - 1) : Meant!PartVerdict(pattern, j) = "yes"
      BY <2>2, <2>4 DEF PartsMatched
    <3>2. Meant!PatternVerdict(pattern) = m.verdict
      BY <1>7, <2>4, <3>1, PatternVerdictMeans DEF MatchReady
    <3> QED BY <2>4, <3>2
  <2> QED BY <2>3, <2>4
<1> QED BY <1>5, <1>6, <1>7

-----------------------------------------------------------------------------
(* Where the loop is: of any machine, at any depth of its run, the arm, the*)
(* branch and the transitions are of the machine that runs, and it is in a *)
(* state that an arm is written for.                                       *)

ProgramOK ==
  /\ program \in Programs /\ line \in Nat \ {0}
  /\ \A name \in DOMAIN machines : machines[name] \in Machines
  /\ \A name \in DOMAIN specs : IsSequence(specs[name].input)

ControlOK ==
  /\ at \in {"idle", "step", "arm", "branch", "apply"}
  /\ at = "idle" => fsm = None /\ state = NoState /\ env = NoBindings /\ steps = 0
  /\ at # "idle" => fsm \in Machines /\ Covered(fsm)
  /\ at # "apply" => todo = <<>>
  /\ at = "apply" => todo \in Seq(TransitionsOf(fsm))
  /\ steps \in 0..MaxSteps
  /\ at \in {"arm", "branch", "apply"} => steps < MaxSteps
  /\ at = "arm" => arm \in 1..(Len(fsm.arms) + 1)
  /\ at \in {"branch", "apply"} => arm \in 1..Len(fsm.arms)
  /\ at = "branch" => branch \in Nat \ {0}

LoopInv == ProgramOK /\ ControlOK /\ NamedStatesHaveArms

LEMMA MachinesAreMachines ==
  ASSUME NEW f \in Machines
  PROVE  IsMachine(f) /\ f # None
<1>1. PICK l \in Lines : l.op = "implementation" /\ l.fsm = f
  BY DEF Machines
<1>2. IsMachine(f)
  BY <1>1, ProgramsAssumption
<1>3. "arms" \in DOMAIN f /\ "arms" \notin DOMAIN None
  BY <1>2 DEF IsMachine, None
<1> QED BY <1>2, <1>3

LEMMA ArmsAreArms ==
  ASSUME NEW f \in Machines
  PROVE  /\ Len(f.arms) \in Nat /\ DOMAIN f.arms = 1..Len(f.arms)
         /\ \A a \in 1..Len(f.arms) :
              /\ IsPattern(f.arms[a].pattern)
              /\ Len(f.arms[a].branches) \in Nat \ {0} /\ DOMAIN f.arms[a].branches = 1..Len(f.arms[a].branches)
              /\ \A b \in 1..Len(f.arms[a].branches) :
                   /\ f.arms[a].branches[b] \in BranchesOf(f)
                   /\ IsBranch(f.arms[a].branches[b])
                   /\ f.arms[a].branches[b].transitions \in Seq(TransitionsOf(f))
<1>1. IsMachine(f)
  BY MachinesAreMachines
<1>2. Len(f.arms) \in Nat /\ DOMAIN f.arms = 1..Len(f.arms)
  BY <1>1 DEF IsMachine, IsSequence
<1>3. ASSUME NEW a \in 1..Len(f.arms)
      PROVE  /\ IsPattern(f.arms[a].pattern)
             /\ Len(f.arms[a].branches) \in Nat \ {0} /\ DOMAIN f.arms[a].branches = 1..Len(f.arms[a].branches)
             /\ \A b \in 1..Len(f.arms[a].branches) :
                  /\ f.arms[a].branches[b] \in BranchesOf(f)
                  /\ IsBranch(f.arms[a].branches[b])
                  /\ f.arms[a].branches[b].transitions \in Seq(TransitionsOf(f))
  <2> DEFINE row == f.arms[a]
             bs == row.branches
  <2>1. row \in ToSet(f.arms) /\ IsArm(row)
    BY <1>1, <1>2 DEF IsMachine, ToSet
  <2>2. IsPattern(row.pattern) /\ Len(bs) \in Nat \ {0} /\ DOMAIN bs = 1..Len(bs)
    BY <2>1 DEF IsArm, IsSequence
  <2>3. ASSUME NEW b \in 1..Len(bs)
        PROVE  bs[b] \in BranchesOf(f) /\ IsBranch(bs[b]) /\ bs[b].transitions \in Seq(TransitionsOf(f))
    <3>1. bs[b] \in ToSet(bs)
      BY <2>2 DEF ToSet
    <3>2. bs[b] \in BranchesOf(f)
      BY <2>1, <3>1 DEF BranchesOf
    <3>3. IsBranch(bs[b])
      BY <2>1, <3>1 DEF IsArm
    <3>4. bs[b].transitions \in Seq(ToSet(bs[b].transitions))
      BY <3>3 DEF IsBranch, IsSequence
    <3>5. ToSet(bs[b].transitions) \subseteq TransitionsOf(f)
      BY <3>2 DEF TransitionsOf
    <3> HIDE DEF bs, row
    <3> QED BY <3>2, <3>3, <3>4, <3>5
  <2> HIDE DEF bs
  <2> QED BY <2>2, <2>3 DEF bs
<1> QED BY <1>2, <1>3

LEMMA TransitionsAreTransitions ==
  ASSUME NEW f \in Machines, NEW t \in TransitionsOf(f)
  PROVE  IsTransition(t)
<1>1. PICK b \in BranchesOf(f) : t \in ToSet(b.transitions)
  BY DEF TransitionsOf
<1>2. PICK a \in ToSet(f.arms) : b \in ToSet(a.branches)
  BY DEF BranchesOf
<1>3. IsArm(a)
  BY MachinesAreMachines DEF IsMachine
<1>4. IsBranch(b)
  BY <1>2, <1>3 DEF IsArm
<1> QED BY <1>1, <1>4 DEF IsBranch

LEMMA LinesAreLines ==
  ASSUME ProgramOK, line <= Len(program)
  PROVE  /\ Line \in Lines
         /\ Line.op = "implementation" => Line.fsm \in Machines
         /\ Line.op = "specification" => IsSequence(Line.spec.input)
         /\ Line.op = "call" => AreExpressions(Line.args)
<1>1. IsSequence(program)
  BY ProgramsAssumption DEF ProgramOK
<1>2. line \in DOMAIN program
  BY <1>1 DEF ProgramOK, IsSequence
<1>3. Line \in Lines
  BY <1>2 DEF ProgramOK, Line, Lines, ToSet
<1>4. Line.op = "implementation" => Line.fsm \in Machines
  BY <1>3 DEF Machines
<1> QED BY <1>3, <1>4, ProgramsAssumption

LEMMA ProgramStep ==
  ASSUME ProgramOK, [Next]_vars
  PROVE  ProgramOK'
<1>1. CASE UNCHANGED <<definitions, line>>
  BY <1>1 DEF ProgramOK, definitions
<1>2. CASE UNCHANGED definitions /\ line' = line + 1
  BY <1>2 DEF ProgramOK, definitions
<1>3. CASE RegisterImplementation
  <2>1. Line.fsm \in Machines
    BY <1>3, LinesAreLines DEF RegisterImplementation, AtLine
  <2>2. program' = program /\ specs' = specs /\ line' = line + 1
          /\ machines' = Bind(machines, Line.fsm.name, Line.fsm)
    BY <1>3 DEF RegisterImplementation
  <2>3. \A name \in DOMAIN machines' : machines'[name] \in Machines
    BY <2>1, <2>2 DEF Bind, ProgramOK
  <2> QED BY <2>2, <2>3 DEF ProgramOK
<1>4. CASE RegisterSpecification
  <2>1. IsSequence(Line.spec.input)
    BY <1>4, LinesAreLines DEF RegisterSpecification, AtLine
  <2>2. program' = program /\ machines' = machines /\ line' = line + 1
          /\ specs' = Bind(specs, Line.spec.name, Line.spec)
    BY <1>4 DEF RegisterSpecification
  <2>3. \A name \in DOMAIN specs' : IsSequence(specs'[name].input)
    BY <2>1, <2>2 DEF Bind, ProgramOK
  <2> QED BY <2>2, <2>3 DEF ProgramOK
<1>5. CASE UNCHANGED vars
  BY <1>1, <1>5 DEF vars, definitions
<1>6. CASE Refuse \/ Start
  BY <1>1, <1>2, <1>6 DEF Refuse, Start
<1>7. CASE LimitReached \/ Halt \/ PatternFails \/ GuardFails \/ Output \/ TransitionFails
  BY <1>2, <1>7 DEF LimitReached, Halt, PatternFails, GuardFails, Output, TransitionFails, Return
<1>8. CASE BeginStep \/ SkipArm \/ MatchArm \/ SkipBranch \/ Fire \/ FallThrough
  BY <1>1, <1>8 DEF BeginStep, SkipArm, MatchArm, SkipBranch, Fire, FallThrough
<1>9. CASE EnterState \/ Define \/ Assign \/ EndStep
  BY <1>1, <1>9 DEF EnterState, Define, Assign, EndStep
<1> QED BY <1>3, <1>4, <1>5, <1>6, <1>7, <1>8, <1>9 DEF Next, Run

LEMMA ReturnEnds ==
  ASSUME LoopInv, NEW a, Return(a)
  PROVE  ControlOK' /\ NamedStatesHaveArms'
<1>1. /\ at' = "idle" /\ fsm' = None /\ state' = NoState /\ env' = NoBindings /\ steps' = 0 /\ todo' = <<>>
  BY DEF Return
<1>2. 0 \in 0..MaxSteps
  BY MachinesAssumption
<1> QED BY <1>1, <1>2 DEF ControlOK, NamedStatesHaveArms

LEMMA LoopStep ==
  ASSUME LoopInv, [Next]_vars
  PROVE  ControlOK' /\ NamedStatesHaveArms'
<1> USE DEF LoopInv
<1>0. MaxSteps \in Nat
  BY MachinesAssumption
<1>1. CASE UNCHANGED <<at, fsm, state, env, steps, search>>
  BY <1>1 DEF ControlOK, NamedStatesHaveArms, search
<1>2. CASE RegisterImplementation \/ RegisterSpecification \/ Refuse \/ UNCHANGED vars
  BY <1>1, <1>2 DEF RegisterImplementation, RegisterSpecification, Refuse, vars, search
<1>3. CASE LimitReached \/ Halt \/ PatternFails \/ GuardFails \/ Output \/ TransitionFails
  BY <1>3, ReturnEnds DEF LimitReached, Halt, PatternFails, GuardFails, Output, TransitionFails
<1>4. CASE Start
  <2> DEFINE f == machines[Line.name]
  <2>1. /\ at = "idle" /\ at' = "step" /\ steps' = 0 /\ fsm' = f /\ state' = Admission.state /\ UNCHANGED search
        /\ Admission.why = "admitted"
    BY <1>4 DEF Start, AtLine
  <2>2. /\ Line.name \in DOMAIN machines /\ Covered(f)
        /\ f.start.name # Bare => Admission.state.name = f.start.name
    BY <2>1 DEF Admission, Refused, Entered
  <2>3. f \in Machines
    BY <2>2 DEF ProgramOK
  <2>4. StateNames(f) # {} => f.start.name \in StateNames(f) /\ f.start.name # Bare
    BY <2>2 DEF Covered, StateNames
  <2>5. todo' = <<>>
    BY <2>1 DEF ControlOK, search
  <2>6. NamedStatesHaveArms'
    <3> HIDE DEF f
    <3> QED BY <2>1, <2>2, <2>4 DEF NamedStatesHaveArms
  <2>7. ControlOK'
    <3> HIDE DEF f
    <3> QED BY <1>0, <2>1, <2>2, <2>3, <2>5 DEF ControlOK
  <2> QED BY <2>6, <2>7
\* Within a run the machine is the same; all but EnterState leave it in its state.
<1>5. ASSUME at # "idle", UNCHANGED <<fsm, state>> PROVE NamedStatesHaveArms'
  BY <1>5 DEF NamedStatesHaveArms
<1>6. ASSUME at # "idle"
      PROVE  /\ fsm \in Machines /\ Covered(fsm)
             /\ Len(fsm.arms) \in Nat
             /\ \A a \in 1..Len(fsm.arms) :
                  /\ Len(fsm.arms[a].branches) \in Nat \ {0}
                  /\ \A b \in 1..Len(fsm.arms[a].branches) :
                       fsm.arms[a].branches[b].transitions \in Seq(TransitionsOf(fsm))
  BY <1>6, ArmsAreArms DEF ControlOK
<1>7. CASE BeginStep
  <2>1. /\ at = "step" /\ steps < MaxSteps /\ at' = "arm" /\ arm' = 1
        /\ UNCHANGED <<fsm, state, steps, todo>>
    BY <1>7 DEF BeginStep
  <2>2. 1 \in 1..(Len(fsm.arms) + 1)
    BY <1>6, <2>1
  <2> QED BY <1>5, <1>6, <2>1, <2>2 DEF ControlOK
<1>8. CASE SkipArm
  <2>1. /\ at = "arm" /\ arm <= Len(fsm.arms) /\ arm' = arm + 1
        /\ UNCHANGED <<at, fsm, state, steps, todo>>
    BY <1>8 DEF SkipArm, Trying
  <2>2. arm + 1 \in 1..(Len(fsm.arms) + 1)
    BY <1>6, <2>1 DEF ControlOK
  <2> QED BY <1>5, <1>6, <2>1, <2>2 DEF ControlOK
<1>9. CASE MatchArm
  <2>1. /\ at = "arm" /\ arm <= Len(fsm.arms) /\ at' = "branch" /\ branch' = 1
        /\ UNCHANGED <<fsm, state, steps, arm, todo>>
    BY <1>9 DEF MatchArm, Trying
  <2>2. arm \in 1..Len(fsm.arms)
    BY <1>6, <2>1 DEF ControlOK
  <2> QED BY <1>5, <1>6, <2>1, <2>2 DEF ControlOK
<1>10. CASE SkipBranch
  <2>1. /\ at = "branch" /\ branch' = branch + 1
        /\ UNCHANGED <<at, fsm, state, steps, arm, todo>>
    BY <1>10 DEF SkipBranch, Deciding
  <2>2. branch + 1 \in Nat \ {0}
    BY <2>1 DEF ControlOK
  <2> QED BY <1>5, <1>6, <2>1, <2>2 DEF ControlOK
<1>11. CASE Fire
  <2>1. /\ at = "branch" /\ branch <= Len(Branches) /\ at' = "apply"
        /\ todo' = Branches[branch].transitions
        /\ UNCHANGED <<fsm, state, steps, arm>>
    BY <1>11 DEF Fire, Deciding
  <2>2. arm \in 1..Len(fsm.arms) /\ branch \in 1..Len(fsm.arms[arm].branches)
    BY <1>6, <2>1 DEF ControlOK, Branches
  <2>3. todo' \in Seq(TransitionsOf(fsm))
    BY <1>6, <2>1, <2>2 DEF Branches
  <2> QED BY <1>5, <1>6, <2>1, <2>2, <2>3 DEF ControlOK
<1>12. CASE FallThrough
  <2>1. /\ at = "branch" /\ at' = "arm" /\ arm' = arm + 1
        /\ UNCHANGED <<fsm, state, steps, todo>>
    BY <1>12 DEF FallThrough
  <2>2. arm + 1 \in 1..(Len(fsm.arms) + 1)
    BY <1>6, <2>1 DEF ControlOK
  <2> QED BY <1>5, <1>6, <2>1, <2>2 DEF ControlOK
<1>13. ASSUME at = "apply", todo # <<>>, todo' = Tail(todo), UNCHANGED <<at, fsm, steps, arm>>
       PROVE  ControlOK'
  <2>1. todo' \in Seq(TransitionsOf(fsm))
    BY <1>13 DEF ControlOK
  <2> QED BY <1>13, <2>1 DEF ControlOK
<1>14. CASE Define \/ Assign
  <2>1. /\ at = "apply" /\ todo # <<>> /\ todo' = Tail(todo) /\ UNCHANGED <<at, fsm, state, steps, arm>>
    BY <1>14 DEF Define, Assign, Applying
  <2> QED BY <1>5, <1>13, <2>1
<1>15. CASE EnterState
  <2>1. /\ at = "apply" /\ todo # <<>> /\ todo' = Tail(todo) /\ UNCHANGED <<at, fsm, steps, arm>>
        /\ Head(todo).op = "next" /\ state' = Destination
    BY <1>15 DEF EnterState, Applying
  <2>2. Head(todo) \in TransitionsOf(fsm)
    BY <2>1 DEF ControlOK
  <2>3. Head(todo).target.name \in Targets(fsm)
    BY <2>1, <2>2 DEF Targets
  <2>4. Covered(fsm)
    BY <1>6, <2>1
  <2>5. \/ state'.name = Head(todo).target.name
        \/ state'.cells = <<>> /\ Head(todo).target.name = Bare
    BY <2>1 DEF Destination, Entered, Transition
  <2>6. Head(todo).target.name = Bare \/ (StateNames(fsm) # {} => Head(todo).target.name \in StateNames(fsm))
    BY <2>3, <2>4 DEF Covered
  <2>7. NamedStatesHaveArms'
    BY <2>1, <2>3, <2>5, <2>6 DEF NamedStatesHaveArms
  <2> QED BY <1>13, <2>1, <2>7
<1>16. CASE EndStep
  <2>1. /\ at = "apply" /\ todo = <<>> /\ steps' = steps + 1 /\ at' = "step" /\ UNCHANGED <<fsm, state, todo>>
    BY <1>16 DEF EndStep
  <2>2. steps + 1 \in 0..MaxSteps
    BY <1>0, <2>1 DEF ControlOK
  <2> QED BY <1>5, <1>6, <2>1, <2>2 DEF ControlOK
<1> QED BY <1>2, <1>3, <1>4, <1>7, <1>8, <1>9, <1>10, <1>11, <1>12, <1>14, <1>15, <1>16 DEF Next, Run

LEMMA LoopInit ==
  ASSUME Init
  PROVE  LoopInv
<1>1. 0 \in 0..MaxSteps
  BY MachinesAssumption
<1>2. /\ program \in Programs /\ line = 1 /\ DOMAIN machines = {} /\ DOMAIN specs = {}
      /\ at = "idle" /\ fsm = None /\ state = NoState /\ env = NoBindings /\ steps = 0 /\ todo = <<>>
  BY DEF Init
<1> QED BY <1>1, <1>2 DEF LoopInv, ProgramOK, ControlOK, NamedStatesHaveArms

LEMMA SpecLoopInv == Spec => []LoopInv
<1>1. Init => LoopInv
  BY LoopInit
<1>2. LoopInv /\ [Next]_vars => LoopInv'
  BY LoopStep, ProgramStep DEF LoopInv
<1> QED BY <1>1, <1>2, PTL DEF Spec

\* What the check made before a machine runs is good for (validate_fsm_state_coverage),
\* whatever its guards decide: a state that no arm is written for is entered by a target
\* that is an expression, which the check does not look at, and by no other way.
THEOREM StatesHaveArms == Spec => []NamedStatesHaveArms
BY SpecLoopInv, PTL DEF LoopInv

-----------------------------------------------------------------------------
(* The verdicts, with what they depend on as arguments: the payload pl and *)
(* the name nm of the state, the scope sc and the program's variables gl.  *)

AtomIn(e, bound, gl) ==
  IF e.op = "literal" THEN e.value
  ELSE IF e.name \in DOMAIN bound THEN bound[e.name]
  ELSE IF e.name \in DOMAIN gl THEN gl[e.name]
  ELSE Meant!Undefined

MeaningIn(e, bound, gl) ==
  IF e.op \in {"literal", "name"} THEN AtomIn(e, bound, gl)
  ELSE LET a == AtomIn(e.left, bound, gl)
           b == AtomIn(e.right, bound, gl)
       IN IF Meant!Undefined \notin {a, b} /\ Operable(e.op, a, b) THEN Operated(e.op, a, b) ELSE Meant!Undefined

BoundBeforeIn(pattern, n, pl) ==
  LET named == {i \in 1..(n - 1) : pattern.parts[i].form = "name"}
  IN [name \in {pattern.parts[i].name : i \in named} |->
        LET i == CHOOSE i \in named :
                   /\ pattern.parts[i].name = name
                   /\ \A j \in named : pattern.parts[j].name = name => i <= j
        IN pl[i]]

ScopeIn(pattern, n, pl, sc) ==
  LET new == BoundBeforeIn(pattern, n, pl)
      kept == Unbind(sc, BoundBy(pattern))
  IN [name \in DOMAIN new \cup DOMAIN kept |-> IF name \in DOMAIN new THEN new[name] ELSE kept[name]]

PartIn(pattern, n, pl, sc, gl) ==
  LET part == pattern.parts[n]
      before == ScopeIn(pattern, n, pl, sc)
  IN CASE part.form = "any" -> "yes"
       [] part.form = "name" ->
            IF part.name \in DOMAIN before /\ before[part.name] # pl[n] THEN "no" ELSE "yes"
       [] part.form = "expression" ->
            IF MeaningIn(part.value, before, gl) = Meant!Undefined THEN "error"
            ELSE IF ValuesMatch(MeaningIn(part.value, before, gl), pl[n]) THEN "yes" ELSE "no"

PatternIn(pattern, nm, pl, sc, gl) ==
  IF pattern = Meant!Wildcard THEN "yes"
  ELSE IF pattern.name # nm \/ Len(pattern.parts) # Len(pl) THEN "no"
  ELSE LET others == {n \in DOMAIN pattern.parts : PartIn(pattern, n, pl, sc, gl) # "yes"}
       IN IF others = {} THEN "yes"
          ELSE PartIn(pattern, CHOOSE n \in others : \A m \in others : n <= m, pl, sc, gl)

BindingsIn(pattern, pl, sc) ==
  IF pattern = Meant!Wildcard THEN sc ELSE ScopeIn(pattern, Len(pattern.parts) + 1, pl, sc)

ConditionIn(condition, bound, gl) ==
  IF condition = Anything THEN "yes"
  ELSE LET v == MeaningIn(condition, bound, gl)
       IN IF v.kind # "bool" THEN "error" ELSE IF v = Bool(TRUE) THEN "yes" ELSE "no"

BranchIn(f, a, b, nm, pl, sc, gl) ==
  LET verdict == PatternIn(f.arms[a].pattern, nm, pl, sc, gl)
  IN IF verdict # "yes" THEN verdict
     ELSE ConditionIn(f.arms[a].branches[b].condition, BindingsIn(f.arms[a].pattern, pl, sc), gl)

MPayload == Values(state.cells)
MGlobals == Values(symbols)

LEMMA AtomNow ==
  \A e, bound : Meant!Atom(e, bound) = AtomIn(e, bound, MGlobals)
BY DEF Meant!Atom, AtomIn, MGlobals

LEMMA MeaningNow ==
  \A e, bound : Meant!Meaning(e, bound) = MeaningIn(e, bound, MGlobals)
BY AtomNow, SameOperations DEF Meant!Meaning, MeaningIn

LEMMA ScopeNow ==
  \A pattern, n : Meant!ScopeAt(pattern, n) = ScopeIn(pattern, n, MPayload, MScope)
<1>1. \A pattern, n : Meant!BoundBefore(pattern, n) = BoundBeforeIn(pattern, n, MPayload)
  BY DEF Meant!BoundBefore, BoundBeforeIn, MPayload
<1> QED BY <1>1, ScopeAtMeans DEF ScopeIn

LEMMA PartNow ==
  \A pattern, n : Meant!PartVerdict(pattern, n) = PartIn(pattern, n, MPayload, MScope, MGlobals)
<1> SUFFICES ASSUME NEW pattern, NEW n
             PROVE  Meant!PartVerdict(pattern, n) = PartIn(pattern, n, MPayload, MScope, MGlobals)
  OBVIOUS
<1>1. Meant!ScopeAt(pattern, n) = ScopeIn(pattern, n, MPayload, MScope)
  BY ScopeNow
<1>2. Meant!Meaning(pattern.parts[n].value, Meant!ScopeAt(pattern, n)) =
        MeaningIn(pattern.parts[n].value, ScopeIn(pattern, n, MPayload, MScope), MGlobals)
  BY <1>1, MeaningNow
<1> QED BY <1>1, <1>2, SameOperations DEF Meant!PartVerdict, PartIn, MPayload

LEMMA PatternNow ==
  \A pattern : Meant!PatternVerdict(pattern) = PatternIn(pattern, state.name, MPayload, MScope, MGlobals)
<1> SUFFICES ASSUME NEW pattern
             PROVE  Meant!PatternVerdict(pattern) = PatternIn(pattern, state.name, MPayload, MScope, MGlobals)
  OBVIOUS
<1>1. \A n : Meant!PartVerdict(pattern, n) = PartIn(pattern, n, MPayload, MScope, MGlobals)
  BY PartNow
<1> DEFINE V(n) == Meant!PartVerdict(pattern, n)
           W(n) == PartIn(pattern, n, MPayload, MScope, MGlobals)
           D == DOMAIN pattern.parts
           Pick(S) == CHOOSE n \in S : \A m \in S : n <= m
<1>2. {n \in D : V(n) # "yes"} = {n \in D : W(n) # "yes"}
  BY <1>1
<1>3. Meant!PatternVerdict(pattern) =
        IF pattern = Meant!Wildcard THEN "yes"
        ELSE IF pattern.name # state.name \/ Len(pattern.parts) # Len(MPayload) THEN "no"
        ELSE IF {n \in D : V(n) # "yes"} = {} THEN "yes" ELSE V(Pick({n \in D : V(n) # "yes"}))
  BY DEF Meant!PatternVerdict, MPayload
<1>4. PatternIn(pattern, state.name, MPayload, MScope, MGlobals) =
        IF pattern = Meant!Wildcard THEN "yes"
        ELSE IF pattern.name # state.name \/ Len(pattern.parts) # Len(MPayload) THEN "no"
        ELSE IF {n \in D : W(n) # "yes"} = {} THEN "yes" ELSE W(Pick({n \in D : W(n) # "yes"}))
  BY DEF PatternIn
<1> DEFINE S == {n \in D : W(n) # "yes"}
<1>5. V(Pick(S)) = W(Pick(S))
  BY <1>1
<1> HIDE DEF V, W, Pick, D
<1> QED BY <1>2, <1>3, <1>4, <1>5

LEMMA BindingsNow ==
  \A pattern : Meant!Bindings(pattern) = BindingsIn(pattern, MPayload, MScope)
BY ScopeNow DEF Meant!Bindings, BindingsIn, MScope

LEMMA BranchNow ==
  \A a, b : Meant!BranchVerdict(a, b) = BranchIn(fsm, a, b, state.name, MPayload, MScope, MGlobals)
<1>1. \A condition, bound : Meant!ConditionVerdict(condition, bound) = ConditionIn(condition, bound, MGlobals)
  BY MeaningNow DEF Meant!ConditionVerdict, ConditionIn, Meant!Anything, Anything, Meant!Bool, Bool,
                    Meant!Value, Value
<1> QED BY <1>1, PatternNow, BindingsNow DEF Meant!BranchVerdict, BranchIn

-----------------------------------------------------------------------------
(* Memory: handles are on cells, and the cells of the program's variables  *)
(* are nobody else's.                                                      *)

Memory(h, syms, mine, tried, cells, muts) ==
  /\ h \in Seq(Scalars)
  /\ IsEnv(syms, h) /\ IsEnv(mine, h) /\ IsEnv(tried, h)
  /\ cells \in Seq(1..Len(h))
  /\ muts \subseteq DOMAIN syms /\ DOMAIN syms \subseteq ProgramNames

Distinct(syms) == \A x, y \in DOMAIN syms : syms[x] = syms[y] => x = y
Clear(cells, syms) == \A i \in DOMAIN cells : \A x \in DOMAIN syms : cells[i] # syms[x]

Separation(syms, mine, tried, cells) ==
  Distinct(syms) /\ Clear(mine, syms) /\ Clear(tried, syms) /\ Clear(cells, syms)

MemoryInv ==
  /\ Memory(heap, symbols, env, armEnv, state.cells, mutables)
  /\ Separation(symbols, env, armEnv, state.cells)

LEMMA GrowsItself ==
  ASSUME NEW h \in Seq(Scalars)
  PROVE  Grows(h, h)
BY DEF Grows

LEMMA MemoryGrows ==
  ASSUME NEW h, NEW g, NEW syms, NEW mine, NEW tried, NEW cells, NEW muts,
         Memory(h, syms, mine, tried, cells, muts), Grows(h, g)
  PROVE  Memory(g, syms, mine, tried, cells, muts)
<1>1. IsEnv(syms, g) /\ IsEnv(mine, g) /\ IsEnv(tried, g)
  BY GrowsKeeps DEF Memory
<1>2. Len(h) \in Nat /\ Len(g) \in Nat /\ Len(h) <= Len(g)
  BY DEF Grows
<1>3. cells \in Seq(1..Len(g))
  BY <1>2 DEF Memory
<1> QED BY <1>1, <1>3 DEF Memory, Grows

\* Nothing that is evaluated shares a cell with a variable of the program.
LEMMA EvalAllClear ==
  ASSUME NEW h, NEW es, NEW bound,
         Grows(heap, h), IsEnv(symbols, heap), IsEnv(bound, h), AreExpressions(es),
         DOMAIN symbols \subseteq ProgramNames, AllApart(es), Clear(bound, symbols),
         EvalAll(h, es, bound).ok
  PROVE  Clear(EvalAll(h, es, bound).cells, symbols)
<1> DEFINE r == EvalAll(h, es, bound)
<1>1. AllDelivered(r, h, es, Len(es), bound)
  BY EvalAllDelivers
<1>2. DOMAIN es = 1..Len(es) /\ Len(es) \in Nat
  BY DEF AreExpressions, IsSequence
<1>3. /\ r.cells \in Seq(1..Len(r.heap)) /\ Len(r.cells) = Len(es)
      /\ \A i \in 1..Len(es) :
           \/ r.cells[i] > Len(h)
           \/ es[i].op = "name" /\ es[i].name \in DOMAIN bound /\ r.cells[i] = bound[es[i].name]
           \/ es[i].op = "name" /\ es[i].name \in DOMAIN symbols /\ r.cells[i] = symbols[es[i].name]
  <2> HIDE DEF r
  <2>1. r.ok
    BY DEF r
  <2> QED BY <1>1, <2>1 DEF AllDelivered
<1>4. \A x \in DOMAIN symbols : symbols[x] \in 1..Len(h)
  <2>1. Len(heap) \in Nat /\ Len(h) \in Nat /\ Len(heap) <= Len(h)
    BY DEF Grows
  <2> QED BY <2>1 DEF IsEnv
<1> HIDE DEF r
<1>5. ASSUME NEW i \in DOMAIN r.cells, NEW x \in DOMAIN symbols PROVE r.cells[i] # symbols[x]
  <2>1. i \in 1..Len(es) /\ es[i] \in ToSet(es)
    BY <1>2, <1>3 DEF ToSet
  <2>2. Apart(es[i])
    BY <2>1 DEF AllApart
  <2>3. ~(es[i].op = "name" /\ es[i].name \in DOMAIN symbols)
    BY <2>2 DEF Apart
  <2>4. CASE r.cells[i] > Len(h)
    <3>1. symbols[x] <= Len(h) /\ symbols[x] \in Nat /\ Len(h) \in Nat /\ r.cells[i] \in Int
      BY <1>3, <1>4 DEF Grows
    <3> QED BY <2>4, <3>1
  <2>5. CASE es[i].op = "name" /\ es[i].name \in DOMAIN bound /\ r.cells[i] = bound[es[i].name]
    BY <2>5 DEF Clear
  <2> QED BY <1>3, <2>1, <2>3, <2>4, <2>5
<1> QED BY <1>5 DEF Clear, r

\* What is defined is in a new cell.
LEMMA EvalClear ==
  ASSUME NEW e, IsExpression(e), heap \in Seq(Scalars), IsEnv(symbols, heap),
         DOMAIN symbols \subseteq ProgramNames, Apart(e), Eval(heap, e, NoBindings).ok
  PROVE  Eval(heap, e, NoBindings).cell > Len(heap)
<1> DEFINE r == Eval(heap, e, NoBindings)
<1>1. Grows(heap, heap) /\ IsEnv(NoBindings, heap)
  BY GrowsItself DEF IsEnv, NoBindings
<1>2. Placed(r, heap, e, NoBindings) /\ Delivers(r, heap, Meant!Meaning(e, ValuesIn(heap, NoBindings)))
  BY <1>1, EvalDelivers
<1>3. ~(e.op = "name" /\ e.name \in DOMAIN symbols) /\ DOMAIN NoBindings = {}
  BY DEF Apart, NoBindings
<1>4. r.ok
  OBVIOUS
<1> HIDE DEF r
<1>5. r.cell > Len(heap)
  BY <1>2, <1>3, <1>4 DEF Placed
<1> QED BY <1>5 DEF r

\* The last input of a name is bound, to an argument.
LEMMA GreatestExists ==
  ASSUME NEW n \in Nat, NEW S, S \subseteq 1..n, S # {}
  PROVE  \E i \in S : \A j \in S : j <= i
<1> DEFINE T == {n - i : i \in S}
<1>1. T \subseteq Nat /\ T # {}
  <2>1. \A i \in S : i \in 1..n
    OBVIOUS
  <2>2. \A i \in S : n - i \in Nat
    BY <2>1
  <2> QED BY <2>2
<1>2. PICK t \in T : \A u \in T : t <= u
  <2> HIDE DEF T
  <2> QED BY <1>1, LeastExists
<1>3. PICK i \in S : t = n - i
  OBVIOUS
<1>4. ASSUME NEW j \in S PROVE j <= i
  <2>1. n - j \in T
    OBVIOUS
  <2>2. n - i <= n - j
    <3> HIDE DEF T
    <3> QED BY <1>2, <1>3, <2>1
  <2>3. i \in Int /\ j \in Int
    OBVIOUS
  <2> QED BY <2>2, <2>3
<1> QED BY <1>4

LEMMA CallEnvBinds ==
  ASSUME NEW inputs, NEW cells, IsSequence(inputs), DOMAIN cells = DOMAIN inputs
  PROVE  LET bound == CallEnv(inputs, cells) IN
         /\ bound = [x \in DOMAIN bound |-> bound[x]]
         /\ \A x \in DOMAIN bound : \E i \in DOMAIN cells : bound[x] = cells[i]
<1> DEFINE bound == CallEnv(inputs, cells)
           Latest(x) == CHOOSE i \in DOMAIN inputs :
                          /\ inputs[i].name = x
                          /\ \A j \in DOMAIN inputs : inputs[j].name = x => j <= i
           names == {inputs[i].name : i \in DOMAIN inputs}
<1>1. bound = [x \in names |-> cells[Latest(x)]]
  BY DEF CallEnv
<1>2. DOMAIN inputs = 1..Len(inputs) /\ Len(inputs) \in Nat
  BY DEF IsSequence
<1>3. ASSUME NEW x \in names PROVE Latest(x) \in DOMAIN cells
  <2> DEFINE S == {i \in DOMAIN inputs : inputs[i].name = x}
  <2>1. S \subseteq 1..Len(inputs) /\ S # {}
    BY <1>2, <1>3
  <2>2. \E i \in S : \A j \in S : j <= i
    <3> HIDE DEF S
    <3> QED BY <1>2, <2>1, GreatestExists
  <2>3. \E i \in DOMAIN inputs : /\ inputs[i].name = x
                                /\ \A j \in DOMAIN inputs : inputs[j].name = x => j <= i
    BY <2>2
  <2>4. Latest(x) \in DOMAIN inputs
    BY <2>3
  <2> QED BY <2>4
<1> HIDE DEF Latest, names
<1>4. /\ bound = [x \in DOMAIN bound |-> bound[x]]
      /\ \A x \in DOMAIN bound : \E i \in DOMAIN cells : bound[x] = cells[i]
  <2> HIDE DEF bound
  <2>1. DOMAIN bound = names
    BY <1>1
  <2> QED BY <1>1, <1>3, <2>1
<1> QED BY <1>4

\* What an admitted call begins with: an environment of the arguments, and the state
\* that the start target means in it.
LEMMA AdmissionDelivers ==
  ASSUME LoopInv, MemoryInv, NothingIsShared, AtLine("call"), Admission.why = "admitted"
  PROVE  LET ad == Admission
             f == machines[Line.name]
             begun == [name |-> ad.state.name, payload |-> ValuesIn(ad.heap, ad.state.cells)]
         IN /\ f \in Machines /\ Covered(f)
            /\ Grows(heap, ad.heap) /\ IsEnv(ad.env, ad.heap) /\ ad.state.cells \in Seq(1..Len(ad.heap))
            /\ Clear(ad.env, symbols) /\ Clear(ad.state.cells, symbols)
            /\ begun = Meant!StateOf(f.start, ValuesIn(ad.heap, ad.env)) /\ Meant!Defined(begun)
<1> DEFINE f == machines[Line.name]
           args == EvalAll(heap, Line.args, NoBindings)
           bound == CallEnv(Inputs, args.cells)
           payload == EvalAll(args.heap, f.start.parts, bound)
           ad == [why |-> "admitted", heap |-> payload.heap, env |-> bound,
                  state |-> Entered(payload.heap, f.start.name, payload.cells)]
<1>1. /\ Line.name \in DOMAIN machines /\ args.ok /\ Len(args.cells) = Len(Inputs) /\ payload.ok /\ Covered(f)
      /\ Admission = ad
  <2> HIDE DEF args, payload, bound, f
  <2>1. Admission =
          IF Line.name \notin DOMAIN machines THEN Refused("missing machine")
          ELSE IF ~args.ok THEN Refused("argument")
          ELSE IF Len(args.cells) # Len(Inputs) THEN Refused("number of arguments")
          ELSE IF \E i \in DOMAIN Inputs : ~ArgumentKindMatches(args.heap, Inputs[i], args.cells[i])
            THEN Refused("argument kind")
          ELSE IF ~payload.ok THEN Refused("start state")
          ELSE IF ~Covered(f) THEN Refused("undefined state")
          ELSE ad
    BY DEF Admission, args, payload, bound, f
  <2>2. /\ Refused("missing machine").why # "admitted" /\ Refused("argument").why # "admitted"
        /\ Refused("number of arguments").why # "admitted" /\ Refused("argument kind").why # "admitted"
        /\ Refused("start state").why # "admitted" /\ Refused("undefined state").why # "admitted"
    BY DEF Refused
  <2> DEFINE Unfit == \E i \in DOMAIN Inputs : ~ArgumentKindMatches(args.heap, Inputs[i], args.cells[i])
  <2> HIDE DEF ad, Unfit
  <2>3. Line.name \in DOMAIN machines
    BY <2>1, <2>2
  <2>4. args.ok
    BY <2>1, <2>2, <2>3
  <2>5. Len(args.cells) = Len(Inputs)
    BY <2>1, <2>2, <2>3, <2>4
  <2>6. Admission = IF Unfit THEN Refused("argument kind")
                    ELSE IF ~payload.ok THEN Refused("start state")
                    ELSE IF ~Covered(f) THEN Refused("undefined state")
                    ELSE ad
    BY <2>1, <2>3, <2>4, <2>5 DEF Unfit
  <2> QED BY <2>2, <2>3, <2>4, <2>5, <2>6
<1>2. f \in Machines /\ IsMachine(f)
  BY <1>1, MachinesAreMachines DEF LoopInv, ProgramOK
<1>3. AreExpressions(Line.args) /\ AllApart(Line.args) /\ AllApart(f.start.parts) /\ AreExpressions(f.start.parts)
  <2>1. AreExpressions(Line.args) /\ Line \in Lines
    BY LinesAreLines DEF LoopInv, AtLine
  <2>2. AllApart(Line.args)
    BY <2>1 DEF NothingIsShared, AtLine
  <2>3. SharesNothing(f)
    BY <1>2 DEF NothingIsShared
  <2> QED BY <1>2, <2>1, <2>2, <2>3 DEF SharesNothing, IsMachine
<1>4. /\ heap \in Seq(Scalars) /\ IsEnv(symbols, heap) /\ DOMAIN symbols \subseteq ProgramNames
      /\ Grows(heap, heap) /\ IsEnv(NoBindings, heap) /\ Clear(NoBindings, symbols)
  BY GrowsItself DEF MemoryInv, Memory, IsEnv, NoBindings, Clear
<1>5. Grows(heap, args.heap) /\ args.cells \in Seq(1..Len(args.heap)) /\ Clear(args.cells, symbols)
  <2>1. AllDelivered(args, heap, Line.args, Len(Line.args), NoBindings)
    BY <1>3, <1>4, EvalAllDelivers
  <2>2. Clear(args.cells, symbols)
    BY <1>1, <1>3, <1>4, EvalAllClear
  <2> HIDE DEF args
  <2> QED BY <1>1, <2>1, <2>2 DEF AllDelivered
<1>6. IsSequence(Inputs)
  BY <1>1, <1>2 DEF Inputs, LoopInv, ProgramOK, IsMachine
<1>7. IsEnv(bound, args.heap) /\ Clear(bound, symbols)
  <2>1. DOMAIN args.cells = DOMAIN Inputs
    <3> HIDE DEF args
    <3> QED BY <1>1, <1>5, <1>6 DEF IsSequence
  <2>2. /\ bound = [x \in DOMAIN bound |-> bound[x]]
        /\ \A x \in DOMAIN bound : \E i \in DOMAIN args.cells : bound[x] = args.cells[i]
    BY <1>6, <2>1, CallEnvBinds
  <2>3. \A i \in DOMAIN args.cells : args.cells[i] \in 1..Len(args.heap)
    <3> HIDE DEF args
    <3> QED BY <1>5
  <2> HIDE DEF bound, args
  <2> QED BY <1>5, <2>2, <2>3 DEF IsEnv, Clear
<1> DEFINE meant == Meant!StateOf(f.start, ValuesIn(args.heap, bound))
<1> DEFINE st == Entered(payload.heap, f.start.name, payload.cells)
<1>8. /\ meant = [name |-> st.name, payload |-> ValuesIn(payload.heap, st.cells)]
      /\ Meant!Defined(meant)
      /\ Grows(args.heap, payload.heap) /\ st.cells \in Seq(1..Len(payload.heap))
      /\ st.cells \in {payload.cells, <<>>}
  <2> HIDE DEF args, bound
  <2> QED BY <1>1, <1>3, <1>4, <1>5, <1>7, TargetDelivers
<1>9. Clear(st.cells, symbols)
  <2>1. Clear(payload.cells, symbols)
    <3> HIDE DEF args, bound
    <3> QED BY <1>1, <1>3, <1>4, <1>5, <1>7, EvalAllClear
  <2> HIDE DEF st, payload
  <2> QED BY <1>8, <2>1 DEF Clear
<1>10. Grows(heap, payload.heap) /\ IsEnv(bound, payload.heap)
         /\ ValuesIn(payload.heap, bound) = ValuesIn(args.heap, bound)
  <2> HIDE DEF args, bound, payload
  <2> QED BY <1>5, <1>7, <1>8, GrowsTransitive, GrowsKeeps
<1>11. /\ Admission.heap = payload.heap /\ Admission.env = bound
       /\ Admission.state = st
  <2> HIDE DEF args, bound, payload, f
  <2> QED BY <1>1
<1> HIDE DEF args, bound, payload, meant, st
<1> QED BY <1>1, <1>2, <1>7, <1>8, <1>9, <1>10, <1>11 DEF meant

-----------------------------------------------------------------------------
(* What is meant, step by step: the actions of Machine, read through the   *)
(* mapping.                                                                *)

MState == [name |-> state.name, payload |-> MPayload]
MFired == IF at = "apply" THEN steps + 1 ELSE steps
MOutcome == IF answer.op = "error" THEN [op |-> "error"] ELSE answer

LEMMA MeantStutters ==
  ASSUME fsm' = fsm, MState' = MState, MScope' = MScope, MFired' = MFired, todo' = todo,
         MGlobals' = MGlobals, mutables' = mutables, MOutcome' = MOutcome
  PROVE  UNCHANGED Meant!vars
BY DEF Meant!vars, MState, MPayload, MScope, MFired, MGlobals, MOutcome

LEMMA MeantNone == Meant!None = None /\ Meant!Error = [op |-> "error"] /\ Meant!NoBindings = NoBindings
                   /\ Meant!NoState = [name |-> Bare, payload |-> <<>>]
BY DEF Meant!None, None, Meant!Error, Meant!NoBindings, NoBindings, Meant!NoState, Meant!Bare, Bare

LEMMA MeantCovered == \A f : Meant!Covered(f) <=> Covered(f)
BY DEF Meant!Covered, Covered, Meant!StateNames, StateNames, Meant!Targets, Targets, Meant!TransitionsOf,
       TransitionsOf, Meant!BranchesOf, BranchesOf, Meant!ToSet, ToSet, Meant!Bare, Bare

LEMMA MeantBegins ==
  ASSUME fsm = None, fsm' # None, Covered(fsm'),
         MState' = Meant!StateOf(fsm'.start, MScope'), Meant!Defined(MState'),
         MFired' = 0, todo' = <<>>, MOutcome' = None, MGlobals' = MGlobals, mutables' = mutables
  PROVE  Meant!Next
<1>1. Meant!Begin
  BY MeantNone, MeantCovered DEF Meant!Begin, MState, MPayload, MScope, MFired, MGlobals, MOutcome
<1> QED BY <1>1 DEF Meant!Next

LEMMA MeantRefuses ==
  ASSUME fsm = None, MOutcome' = [op |-> "error"],
         fsm' = fsm, MState' = MState, MScope' = MScope, MFired' = MFired, todo' = todo,
         MGlobals' = MGlobals, mutables' = mutables
  PROVE  Meant!Next
<1>1. Meant!Refuse
  BY MeantNone DEF Meant!Refuse, MState, MPayload, MScope, MFired, MGlobals, MOutcome
<1> QED BY <1>1 DEF Meant!Next

LEMMA MeantEnds ==
  ASSUME NEW o, fsm' = None, MState' = [name |-> Bare, payload |-> <<>>], MScope' = NoBindings, MFired' = 0,
         todo' = <<>>, MGlobals' = MGlobals, mutables' = mutables, MOutcome' = o
  PROVE  Meant!End(o)
BY MeantNone DEF Meant!End, MState, MPayload, MScope, MFired, MGlobals, MOutcome

\* The branches before branch b of arm a all decide against themselves.
NoneBefore(a, b) ==
  /\ \A i \in 1..(a - 1) : \A j \in 1..Len(fsm.arms[i].branches) : Meant!BranchVerdict(i, j) = "no"
  /\ \A j \in 1..(b - 1) : Meant!BranchVerdict(a, j) = "no"

LEMMA PlacesAre ==
  ASSUME fsm \in Machines
  PROVE  /\ \A a \in 1..Len(fsm.arms) : \A b \in 1..Len(fsm.arms[a].branches) : <<a, b>> \in Meant!Places
         /\ \A p \in Meant!Places : \E a \in 1..Len(fsm.arms) : \E b \in 1..Len(fsm.arms[a].branches) : p = <<a, b>>
<1>1. /\ DOMAIN fsm.arms = 1..Len(fsm.arms)
      /\ \A a \in 1..Len(fsm.arms) : DOMAIN fsm.arms[a].branches = 1..Len(fsm.arms[a].branches)
  BY ArmsAreArms
<1> QED BY <1>1 DEF Meant!Places

LEMMA DecisionIsNone ==
  ASSUME fsm \in Machines, NoneBefore(Len(fsm.arms) + 1, 1)
  PROVE  Meant!Decision = Meant!NoPlace
<1> DEFINE deciding == {p \in Meant!Places : Meant!BranchVerdict(p[1], p[2]) # "no"}
<1>1. ASSUME NEW p \in Meant!Places PROVE Meant!BranchVerdict(p[1], p[2]) = "no"
  <2>0. PICK a \in 1..Len(fsm.arms) : \E b \in 1..Len(fsm.arms[a].branches) : p = <<a, b>>
    BY PlacesAre
  <2>1. PICK b \in 1..Len(fsm.arms[a].branches) : p = <<a, b>>
    BY <2>0
  <2>2. a \in 1..((Len(fsm.arms) + 1) - 1)
    BY ArmsAreArms
  <2>3. Meant!BranchVerdict(a, b) = "no"
    BY <2>2 DEF NoneBefore
  <2>4. p[1] = a /\ p[2] = b
    BY <2>1
  <2> QED BY <2>3, <2>4
<1>2. deciding = {}
  BY <1>1
<1> QED BY <1>2 DEF Meant!Decision

LEMMA DecisionIs ==
  ASSUME fsm \in Machines, NEW a \in 1..Len(fsm.arms), NEW b \in 1..Len(fsm.arms[a].branches),
         Meant!BranchVerdict(a, b) # "no", NoneBefore(a, b)
  PROVE  Meant!Decision = <<a, b>> /\ Meant!Decision # Meant!NoPlace
<1> DEFINE deciding == {p \in Meant!Places : Meant!BranchVerdict(p[1], p[2]) # "no"}
           Before(p, q) == p[1] < q[1] \/ (p[1] = q[1] /\ p[2] <= q[2])
           Pick == CHOOSE p \in deciding : \A q \in deciding : Before(p, q)
<1>1. <<a, b>> \in deciding
  <2>1. <<a, b>> \in Meant!Places
    BY PlacesAre
  <2>2. <<a, b>>[1] = a /\ <<a, b>>[2] = b
    OBVIOUS
  <2> QED BY <2>1, <2>2
<1>2. ASSUME NEW q \in deciding
      PROVE  \E i \in Int, j \in Int : q = <<i, j>> /\ q[1] = i /\ q[2] = j /\ (a < i \/ (a = i /\ b <= j))
  <2>0. PICK i \in 1..Len(fsm.arms) : \E j \in 1..Len(fsm.arms[i].branches) : q = <<i, j>>
    BY PlacesAre
  <2>1. PICK j \in 1..Len(fsm.arms[i].branches) : q = <<i, j>>
    BY <2>0
  <2>2. q[1] = i /\ q[2] = j
    BY <2>1
  <2>3. Meant!BranchVerdict(i, j) # "no"
    BY <2>2
  <2>4. Len(fsm.arms) \in Nat /\ Len(fsm.arms[i].branches) \in Nat /\ Len(fsm.arms[a].branches) \in Nat
    BY ArmsAreArms
  <2>5. i \in Int /\ j \in Int /\ i >= 1 /\ j >= 1 /\ a \in Int /\ b \in Int /\ a >= 1 /\ b >= 1
    BY <2>4
  <2>6. ASSUME i < a PROVE FALSE
    <3>1. i \in 1..(a - 1)
      BY <2>5, <2>6
    <3> QED BY <2>3, <3>1 DEF NoneBefore
  <2>7. ASSUME i = a, j < b PROVE FALSE
    <3>1. j \in 1..(b - 1)
      BY <2>5, <2>7
    <3> QED BY <2>3, <2>7, <3>1 DEF NoneBefore
  <2>8. a < i \/ (a = i /\ b <= j)
    BY <2>5, <2>6, <2>7
  <2> QED BY <2>1, <2>2, <2>5, <2>8
<1>3. \A q \in deciding : Before(<<a, b>>, q)
  <2> HIDE DEF deciding
  <2> QED BY <1>2
<1>4. Pick \in deciding /\ \A q \in deciding : Before(Pick, q)
  <2> HIDE DEF deciding, Before
  <2> QED BY <1>1, <1>3
<1>5. Pick = <<a, b>>
  <2> HIDE DEF Pick, deciding
  <2>1. PICK i \in Int, j \in Int : /\ Pick = <<i, j>> /\ Pick[1] = i /\ Pick[2] = j
                                    /\ (a < i \/ (a = i /\ b <= j))
    BY <1>2, <1>4
  <2>2. Before(Pick, <<a, b>>)
    <3> HIDE DEF Before
    <3> QED BY <1>1, <1>4
  <2>3. i < a \/ (i = a /\ j <= b)
    BY <2>1, <2>2
  <2>4. a \in Int /\ b \in Int
    BY ArmsAreArms
  <2>5. i = a /\ j = b
    BY <2>1, <2>3, <2>4
  <2> QED BY <2>1, <2>5
<1>6. Meant!Decision = IF deciding = {} THEN Meant!NoPlace ELSE Pick
  BY DEF Meant!Decision
<1>7. <<a, b>> # Meant!NoPlace
  <2>1. a # 0
    BY ArmsAreArms
  <2> QED BY <2>1 DEF Meant!NoPlace
<1> HIDE DEF Pick, deciding
<1>8. deciding # {}
  BY <1>1
<1> QED BY <1>5, <1>6, <1>7, <1>8

LEMMA MeantFires ==
  ASSUME fsm \in Machines, NEW a \in 1..Len(fsm.arms), NEW b \in 1..Len(fsm.arms[a].branches),
         Meant!BranchVerdict(a, b) = "yes", NoneBefore(a, b), todo = <<>>, MFired < MaxSteps,
         MScope' = Meant!Bindings(fsm.arms[a].pattern), todo' = fsm.arms[a].branches[b].transitions,
         MFired' = MFired + 1,
         fsm' = fsm, MState' = MState, MGlobals' = MGlobals, mutables' = mutables, MOutcome' = MOutcome
  PROVE  Meant!Next
<1>1. Meant!Decision = <<a, b>> /\ Meant!Decision # Meant!NoPlace
  BY DecisionIs
<1>2. fsm # None
  BY MachinesAreMachines
<1>3. Meant!Decision[1] = a /\ Meant!Decision[2] = b
  BY <1>1
<1>4. Meant!Ready /\ Meant!BranchVerdict(Meant!Decision[1], Meant!Decision[2]) = "yes"
  BY <1>2, <1>3, MeantNone DEF Meant!Ready
<1>5. /\ MScope' = Meant!Bindings(fsm.arms[Meant!Decision[1]].pattern)
      /\ todo' = fsm.arms[Meant!Decision[1]].branches[Meant!Decision[2]].transitions
  BY <1>3
<1>6. Meant!Fire
  BY <1>1, <1>4, <1>5 DEF Meant!Fire, MState, MPayload, MScope, MFired, MGlobals, MOutcome
<1> QED BY <1>6 DEF Meant!Next

LEMMA MeantFails ==
  ASSUME fsm \in Machines, NEW a \in 1..Len(fsm.arms), NEW b \in 1..Len(fsm.arms[a].branches),
         Meant!BranchVerdict(a, b) = "error", NoneBefore(a, b), todo = <<>>, MFired < MaxSteps,
         Meant!End([op |-> "error"])
  PROVE  Meant!Next
<1>1. Meant!Decision = <<a, b>> /\ Meant!Decision # Meant!NoPlace
  BY DecisionIs
<1>2. fsm # None
  BY MachinesAreMachines
<1>3. Meant!Decision[1] = a /\ Meant!Decision[2] = b
  BY <1>1
<1>4. Meant!Ready /\ Meant!BranchVerdict(Meant!Decision[1], Meant!Decision[2]) = "error"
  BY <1>2, <1>3, MeantNone DEF Meant!Ready
<1>5. Meant!Fail
  BY <1>1, <1>4, MeantNone DEF Meant!Fail, MFired
<1> QED BY <1>5 DEF Meant!Next

LEMMA MeantHalts ==
  ASSUME fsm \in Machines, NoneBefore(Len(fsm.arms) + 1, 1), todo = <<>>, MFired < MaxSteps,
         Meant!End([op |-> "value", value |-> MState])
  PROVE  Meant!Next
<1>1. Meant!Decision = Meant!NoPlace
  BY DecisionIsNone
<1>2. Meant!Ready
  BY MachinesAreMachines, MeantNone DEF Meant!Ready
<1>3. Meant!Halt
  BY <1>1, <1>2 DEF Meant!Halt, MFired, MState, MPayload
<1> QED BY <1>3 DEF Meant!Next

LEMMA MeantExceeds ==
  ASSUME fsm \in Machines, todo = <<>>, MFired = MaxSteps, Meant!End([op |-> "error"])
  PROVE  Meant!Next
<1>1. Meant!Exceed
  BY MachinesAreMachines, MeantNone DEF Meant!Exceed, Meant!Ready, MFired
<1> QED BY <1>1 DEF Meant!Next

MTarget == Meant!StateOf(Head(todo).target, MScope)
MSource ==
  Meant!Meaning(Head(todo).value,
                IF Head(todo).op = "assign" /\ ~Head(todo).block THEN MScope ELSE NoBindings)

LEMMA MeantTerms ==
  /\ Meant!Target = MTarget /\ Meant!Source = MSource
  /\ \A op : fsm \in Machines /\ todo # <<>> /\ Head(todo).op = op => Meant!Happening(op)
BY MachinesAreMachines, MeantNone
   DEF Meant!Target, Meant!Source, Meant!Happening, MTarget, MSource, MScope

\* A transition has happened to the state, the variables or both.
MeantStays == fsm' = fsm /\ MScope' = MScope /\ MFired' = MFired /\ MOutcome' = MOutcome

LEMMA MeantEnters ==
  ASSUME fsm \in Machines, todo # <<>>, Head(todo).op = "next", Meant!Defined(MTarget),
         MState' = MTarget, todo' = Tail(todo), MGlobals' = MGlobals, mutables' = mutables, MeantStays
  PROVE  Meant!Next
<1>1. Meant!EnterState
  BY MeantTerms DEF Meant!EnterState, MState, MPayload, MGlobals
<1>2. Meant!Transition
  BY <1>1 DEF Meant!Transition, MeantStays, MScope, MFired, MOutcome
<1> QED BY <1>2 DEF Meant!Next

LEMMA MeantDefines ==
  ASSUME fsm \in Machines, todo # <<>>, Head(todo).op = "define",
         Head(todo).name \notin DOMAIN MGlobals, MSource # Meant!Undefined,
         MGlobals' = Bind(MGlobals, Head(todo).name, MSource),
         mutables' = IF Head(todo).mutable THEN mutables \cup {Head(todo).name} ELSE mutables,
         MState' = MState, todo' = Tail(todo), MeantStays
  PROVE  Meant!Next
<1>1. \A e, n, v : Meant!Bind(e, n, v) = Bind(e, n, v)
  BY DEF Meant!Bind, Bind
<1>2. Meant!Define
  BY <1>1, MeantTerms DEF Meant!Define, MState, MPayload, MGlobals
<1>3. Meant!Transition
  BY <1>2 DEF Meant!Transition, MeantStays, MScope, MFired, MOutcome
<1> QED BY <1>3 DEF Meant!Next

LEMMA MeantAssigns ==
  ASSUME fsm \in Machines, todo # <<>>, Head(todo).op = "assign",
         Head(todo).name \in mutables, MSource # Meant!Undefined,
         MSource.kind \in {MGlobals[Head(todo).name].kind} \ {"atom"},
         MGlobals' = [MGlobals EXCEPT ![Head(todo).name] = MSource], mutables' = mutables,
         MState' = MState, todo' = Tail(todo), MeantStays
  PROVE  Meant!Next
<1>1. Meant!Assign
  BY MeantTerms DEF Meant!Assign, MState, MPayload, MGlobals
<1>2. Meant!Transition
  BY <1>1 DEF Meant!Transition, MeantStays, MScope, MFired, MOutcome
<1> QED BY <1>2 DEF Meant!Next

LEMMA MeantOutputs ==
  ASSUME fsm \in Machines, todo # <<>>, Head(todo).op = "output", Meant!Defined(MTarget),
         Meant!End([op |-> "value", value |-> MTarget])
  PROVE  Meant!Next
<1>1. Meant!Output
  BY MeantTerms DEF Meant!Output
<1> QED BY <1>1 DEF Meant!Next

LEMMA MeantTransitionFails ==
  ASSUME fsm \in Machines, todo # <<>>, Meant!End([op |-> "error"]),
         \/ Head(todo).op \in {"next", "output"} /\ ~Meant!Defined(MTarget)
         \/ Head(todo).op = "define" /\ (Head(todo).name \in DOMAIN MGlobals \/ MSource = Meant!Undefined)
         \/ Head(todo).op = "assign" /\ \/ Head(todo).name \notin mutables
                                        \/ MSource = Meant!Undefined
                                        \/ MSource.kind \notin {MGlobals[Head(todo).name].kind} \ {"atom"}
  PROVE  Meant!Next
<1>1. Meant!TransitionFails
  BY MeantTerms, MeantNone DEF Meant!TransitionFails, MGlobals
<1> QED BY <1>1 DEF Meant!Next

-----------------------------------------------------------------------------
(* The search: every branch that was passed over decides against itself in *)
(* the state the machine is still in, and a matched arm is tried in the    *)
(* scope that its pattern binds.                                           *)

Searched(place, f, a, b, nm, pl, sc, gl, bound) ==
  /\ place \in {"arm", "branch"} =>
       \A i \in 1..(a - 1) : \A j \in 1..Len(f.arms[i].branches) : BranchIn(f, i, j, nm, pl, sc, gl) = "no"
  /\ place = "branch" =>
       /\ PatternIn(f.arms[a].pattern, nm, pl, sc, gl) = "yes"
       /\ bound = BindingsIn(f.arms[a].pattern, pl, sc)
       /\ \A j \in 1..(b - 1) : BranchIn(f, a, j, nm, pl, sc, gl) = "no"

SearchInv ==
  Searched(at, fsm, arm, branch, state.name, MPayload, MScope, MGlobals, ValuesIn(heap, armEnv))

Inv == LoopInv /\ MemoryInv /\ SearchInv

LEMMA NowAndNext ==
  /\ MPayload = ValuesIn(heap, state.cells) /\ MGlobals = ValuesIn(heap, symbols)
  /\ MScope = ValuesIn(heap, IF at = "apply" THEN armEnv ELSE env)
  /\ MPayload' = ValuesIn(heap', state'.cells) /\ MGlobals' = ValuesIn(heap', symbols')
  /\ MScope' = ValuesIn(heap', IF at' = "apply" THEN armEnv' ELSE env')
  /\ MState' = [name |-> state'.name, payload |-> MPayload']
  /\ MFired' = IF at' = "apply" THEN steps' + 1 ELSE steps'
  /\ MOutcome' = IF answer'.op = "error" THEN [op |-> "error"] ELSE answer'
BY DEF MPayload, MGlobals, MScope, MState, MFired, MOutcome, Values, ValuesIn

LEMMA InvNext ==
  /\ MemoryInv' <=> /\ Memory(heap', symbols', env', armEnv', state'.cells, mutables')
                    /\ Separation(symbols', env', armEnv', state'.cells)
  /\ SearchInv' <=> Searched(at', fsm', arm', branch', state'.name, MPayload', MScope', MGlobals',
                             ValuesIn(heap', armEnv'))
BY DEF MemoryInv, SearchInv, Memory, Separation, IsEnv, Distinct, Clear, Searched, ValuesIn

\* Values stay when the heap grows.
LEMMA ValuesStay ==
  ASSUME MemoryInv, Grows(heap, heap')
  PROVE  /\ ValuesIn(heap', state.cells) = ValuesIn(heap, state.cells)
         /\ ValuesIn(heap', symbols) = ValuesIn(heap, symbols)
         /\ ValuesIn(heap', env) = ValuesIn(heap, env)
         /\ ValuesIn(heap', armEnv) = ValuesIn(heap, armEnv)
<1>1. IsEnv(state.cells, heap) /\ IsEnv(symbols, heap) /\ IsEnv(env, heap) /\ IsEnv(armEnv, heap)
  BY DEF MemoryInv, Memory, IsEnv
<1> DEFINE g == heap'
<1>2. Grows(heap, g)
  OBVIOUS
<1> HIDE DEF g
<1> QED BY <1>1, <1>2, GrowsKeeps DEF g

LEMMA StaysGrown ==
  ASSUME MemoryInv
  PROVE  Grows(heap, heap)
BY GrowsItself DEF MemoryInv, Memory

\* Where the search is, no branch before it decides.
LEMMA SearchMeans ==
  ASSUME SearchInv, at \in {"arm", "branch"}
  PROVE  /\ at = "arm" => NoneBefore(arm, 1)
         /\ at = "branch" => NoneBefore(arm, branch)
<1>1. 1..(1 - 1) = {}
  OBVIOUS
<1> QED BY <1>1, BranchNow DEF SearchInv, Searched, NoneBefore

\* A call that returns ends the machine that is meant.
LEMMA ReturnMeans ==
  ASSUME Inv, NEW a, Return(a), UNCHANGED memory
  PROVE  /\ MemoryInv' /\ SearchInv'
         /\ Meant!End(IF a.op = "error" THEN [op |-> "error"] ELSE a)
<1>1. /\ answer' = a /\ at' = "idle" /\ fsm' = None /\ state' = NoState /\ env' = NoBindings
      /\ steps' = 0 /\ armEnv' = NoBindings /\ todo' = <<>>
      /\ heap' = heap /\ symbols' = symbols /\ mutables' = mutables
  BY DEF Return, memory
<1>2. \A h : ValuesIn(h, <<>>) = <<>>
  BY DEF ValuesIn
<1>3. NoState.cells = <<>> /\ NoState.name = Bare /\ NoBindings = <<>>
  BY DEF NoState, NoBindings
<1>4. MState' = [name |-> Bare, payload |-> <<>>] /\ MScope' = NoBindings /\ MFired' = 0
      /\ MGlobals' = MGlobals /\ MOutcome' = IF a.op = "error" THEN [op |-> "error"] ELSE a
  BY <1>1, <1>2, <1>3, NowAndNext
<1>5. Meant!End(IF a.op = "error" THEN [op |-> "error"] ELSE a)
  BY <1>1, <1>4, MeantEnds
<1>6. MemoryInv'
  <2>1. Memory(heap, symbols, NoBindings, NoBindings, <<>>, mutables)
    BY DEF Inv, MemoryInv, Memory, IsEnv, NoBindings
  <2>2. Separation(symbols, NoBindings, NoBindings, <<>>)
    BY DEF Inv, MemoryInv, Separation, Clear, NoBindings
  <2> QED BY <1>1, <1>3, <2>1, <2>2, InvNext
<1>7. SearchInv'
  BY <1>1, InvNext DEF Searched
<1> QED BY <1>5, <1>6, <1>7

\* A step keeps the invariant's parts about memory and search, and is a step or a
\* stutter of the machine that is meant.
Follows == MemoryInv' /\ SearchInv' /\ (Meant!Next \/ UNCHANGED Meant!vars)

\* Steps that leave memory, the state and the environments alone.
LEMMA MemoryStays ==
  ASSUME Inv, UNCHANGED memory, state' = state, env' = env
  PROVE  /\ MPayload' = MPayload /\ MGlobals' = MGlobals /\ MState' = MState
         /\ at # "apply" /\ at' # "apply" => MScope' = MScope
         /\ armEnv' \in {armEnv, NoBindings} => MemoryInv'
<1>1. heap' = heap /\ symbols' = symbols /\ mutables' = mutables
  BY DEF memory
<1>2. armEnv' = NoBindings => MemoryInv'
  <2>1. Memory(heap, symbols, env, NoBindings, state.cells, mutables)
    BY DEF Inv, MemoryInv, Memory, IsEnv, NoBindings
  <2>2. Separation(symbols, env, NoBindings, state.cells)
    BY DEF Inv, MemoryInv, Separation, Clear, NoBindings
  <2> QED BY <1>1, <2>1, <2>2, InvNext
<1>3. armEnv' = armEnv => MemoryInv'
  BY <1>1, InvNext DEF Inv, MemoryInv
<1> QED BY <1>1, <1>2, <1>3, NowAndNext DEF MState

LEMMA IdleFollows ==
  ASSUME Inv, RegisterImplementation \/ RegisterSpecification \/ Refuse \/ UNCHANGED vars
  PROVE  Follows
<1>1. UNCHANGED <<memory, at, fsm, state, env, steps, arm, branch, armEnv, todo>>
  BY DEF RegisterImplementation, RegisterSpecification, Refuse, vars, memory, search
<1>2. MPayload' = MPayload /\ MGlobals' = MGlobals /\ MState' = MState /\ MemoryInv'
  BY <1>1, MemoryStays
<1>3. MScope' = MScope /\ MFired' = MFired /\ ValuesIn(heap', armEnv') = ValuesIn(heap, armEnv)
  BY <1>1, NowAndNext DEF memory, MFired
<1>4. SearchInv'
  BY <1>1, <1>2, <1>3, InvNext DEF Inv, SearchInv
<1>5. CASE Refuse
  <2>1. fsm = None /\ answer' = Error(Admission.why)
    BY <1>5 DEF Refuse, AtLine, Inv, LoopInv, ControlOK
  <2>2. MOutcome' = [op |-> "error"]
    BY <2>1, NowAndNext DEF Error
  <2>3. Meant!Next
    BY <1>1, <1>2, <1>3, <2>1, <2>2, MeantRefuses DEF memory
  <2> QED BY <1>2, <1>4, <2>3 DEF Follows
<1>6. CASE answer' = answer
  <2>1. MOutcome' = MOutcome
    BY <1>6, NowAndNext DEF MOutcome
  <2>2. UNCHANGED Meant!vars
    BY <1>1, <1>2, <1>3, <2>1, MeantStutters DEF memory
  <2> QED BY <1>2, <1>4, <2>2 DEF Follows
<1> QED BY <1>5, <1>6 DEF RegisterImplementation, RegisterSpecification, vars

LEMMA StartFollows ==
  ASSUME Inv, NothingIsShared, Start
  PROVE  Follows
<1> DEFINE f == machines[Line.name]
           ad == Admission
           begun == [name |-> ad.state.name, payload |-> ValuesIn(ad.heap, ad.state.cells)]
<1>1. /\ AtLine("call") /\ ad.why = "admitted" /\ heap' = ad.heap /\ env' = ad.env /\ state' = ad.state
      /\ fsm' = f /\ at' = "step" /\ steps' = 0 /\ answer' = None
      /\ UNCHANGED <<symbols, mutables, search>>
  BY DEF Start
<1>2. /\ f \in Machines /\ Covered(f)
      /\ Grows(heap, ad.heap) /\ IsEnv(ad.env, ad.heap) /\ ad.state.cells \in Seq(1..Len(ad.heap))
      /\ Clear(ad.env, symbols) /\ Clear(ad.state.cells, symbols)
      /\ begun = Meant!StateOf(f.start, ValuesIn(ad.heap, ad.env)) /\ Meant!Defined(begun)
  BY <1>1, AdmissionDelivers DEF Inv
<1> HIDE DEF ad, f
<1>3. MemoryInv'
  <2>1. Memory(ad.heap, symbols, env, armEnv, state.cells, mutables)
    BY <1>2, MemoryGrows DEF Inv, MemoryInv
  <2>2. Memory(ad.heap, symbols, ad.env, armEnv, ad.state.cells, mutables)
    BY <1>2, <2>1 DEF Memory
  <2>3. Separation(symbols, ad.env, armEnv, ad.state.cells)
    BY <1>2 DEF Inv, MemoryInv, Separation
  <2> QED BY <1>1, <2>2, <2>3, InvNext DEF search
<1>4. SearchInv'
  BY <1>1, InvNext DEF Searched
<1>5. MState' = begun /\ MScope' = ValuesIn(ad.heap, ad.env) /\ MFired' = 0 /\ MOutcome' = None
  BY <1>1, NowAndNext DEF None
<1>6. MGlobals' = MGlobals
  BY <1>1, <1>2, ValuesStay, NowAndNext DEF Inv
<1>7. fsm = None /\ todo' = <<>> /\ fsm' # None
  BY <1>1, <1>2, MachinesAreMachines DEF Inv, LoopInv, ControlOK, AtLine, search
<1>8. Meant!Next
  <2> HIDE DEF begun
  <2> QED BY <1>1, <1>2, <1>5, <1>6, <1>7, MeantBegins
<1> QED BY <1>3, <1>4, <1>8 DEF Follows

\* Steps of the search alone: nothing that is meant changes.
LEMMA SearchFollows ==
  ASSUME Inv, UNCHANGED <<fsm, state, env, steps, symbols, mutables, todo, answer>>,
         at \in {"step", "arm", "branch"}, at' \in {"step", "arm", "branch"}, Grows(heap, heap')
  PROVE  /\ MPayload' = MPayload /\ MGlobals' = MGlobals /\ MScope' = MScope
         /\ UNCHANGED Meant!vars
         /\ Memory(heap', symbols, env, armEnv, state.cells, mutables)
<1>1. MPayload' = MPayload /\ MGlobals' = MGlobals /\ MScope' = MScope
  BY ValuesStay, NowAndNext DEF Inv
<1>2. MState' = MState /\ MFired' = MFired /\ MOutcome' = MOutcome
  BY <1>1, NowAndNext DEF MState, MFired, MOutcome
<1>3. UNCHANGED Meant!vars
  BY <1>1, <1>2, MeantStutters
<1> DEFINE g == heap'
<1>4. Grows(heap, g)
  OBVIOUS
<1> HIDE DEF g
<1>5. Memory(g, symbols, env, armEnv, state.cells, mutables)
  BY <1>4, MemoryGrows DEF Inv, MemoryInv
<1> QED BY <1>1, <1>3, <1>5 DEF g

LEMMA BeginStepFollows ==
  ASSUME Inv, BeginStep
  PROVE  Follows
<1>1. /\ at = "step" /\ at' = "arm" /\ arm' = 1 /\ heap' = heap
      /\ UNCHANGED <<memory, fsm, state, env, steps, symbols, mutables, todo, answer, armEnv>>
  BY DEF BeginStep, memory
<1>2. UNCHANGED Meant!vars
  BY <1>1, StaysGrown, SearchFollows DEF Inv
<1>3. MemoryInv'
  BY <1>1, MemoryStays
<1>4. SearchInv'
  <2>1. 1..(1 - 1) = {}
    OBVIOUS
  <2> QED BY <1>1, <2>1, InvNext DEF Searched
<1> QED BY <1>2, <1>3, <1>4 DEF Follows

\* An arm that does not match decides against all its branches.
LEMMA PatternIsNo ==
  ASSUME NEW a, Meant!PatternVerdict(fsm.arms[a].pattern) = "no"
  PROVE  \A b : BranchIn(fsm, a, b, state.name, MPayload, MScope, MGlobals) = "no"
BY PatternNow DEF BranchIn

LEMMA TriedMeans ==
  ASSUME Inv, Trying
  PROVE  /\ arm \in 1..Len(fsm.arms) /\ fsm \in Machines
         /\ Tried.verdict = Meant!PatternVerdict(fsm.arms[arm].pattern)
         /\ Tried.verdict = "yes" =>
              /\ Grows(heap, Tried.heap) /\ IsEnv(Tried.env, Tried.heap) /\ KeepsCells(Tried.env)
              /\ ValuesIn(Tried.heap, Tried.env) = Meant!Bindings(fsm.arms[arm].pattern)
<1>1. at = "arm" /\ arm <= Len(fsm.arms) /\ fsm \in Machines /\ arm \in 1..(Len(fsm.arms) + 1)
  BY DEF Trying, Inv, LoopInv, ControlOK
<1>2. arm \in 1..Len(fsm.arms) /\ IsPattern(fsm.arms[arm].pattern)
  <2>1. Len(fsm.arms) \in Nat
    BY <1>1, ArmsAreArms
  <2>2. arm \in 1..Len(fsm.arms)
    BY <1>1, <2>1
  <2> QED BY <1>1, <2>2, ArmsAreArms
<1>3. MatchReady
  BY <1>1 DEF MatchReady, Inv, MemoryInv, Memory
<1> QED BY <1>1, <1>2, <1>3, MatchMeans DEF Tried

LEMMA SkipArmFollows ==
  ASSUME Inv, SkipArm
  PROVE  Follows
<1>1. /\ Trying /\ Tried.verdict = "no" /\ at = "arm" /\ at' = "arm" /\ arm' = arm + 1 /\ heap' = heap
      /\ UNCHANGED <<memory, fsm, state, env, steps, symbols, mutables, todo, answer, armEnv>>
  BY DEF SkipArm, memory, Trying
<1>2. UNCHANGED Meant!vars /\ MPayload' = MPayload /\ MGlobals' = MGlobals /\ MScope' = MScope
  BY <1>1, StaysGrown, SearchFollows DEF Inv
<1>3. MemoryInv'
  BY <1>1, MemoryStays
<1>4. SearchInv'
  <2>1. arm \in 1..Len(fsm.arms) /\ Meant!PatternVerdict(fsm.arms[arm].pattern) = "no"
    BY <1>1, TriedMeans
  <2>2. \A j \in 1..Len(fsm.arms[arm].branches) :
          BranchIn(fsm, arm, j, state.name, MPayload, MScope, MGlobals) = "no"
    BY <2>1, PatternIsNo
  <2>3. \A i \in 1..(arm - 1) : \A j \in 1..Len(fsm.arms[i].branches) :
          BranchIn(fsm, i, j, state.name, MPayload, MScope, MGlobals) = "no"
    BY <1>1 DEF Inv, SearchInv, Searched
  <2>4. \A i \in 1..((arm + 1) - 1) : i \in 1..(arm - 1) \/ i = arm
    BY <2>1
  <2>5. \A i \in 1..((arm + 1) - 1) : \A j \in 1..Len(fsm.arms[i].branches) :
          BranchIn(fsm, i, j, state.name, MPayload, MScope, MGlobals) = "no"
    BY <2>2, <2>3, <2>4
  <2> QED BY <1>1, <1>2, <2>5, InvNext DEF Searched
<1> QED BY <1>2, <1>3, <1>4 DEF Follows

LEMMA MatchArmFollows ==
  ASSUME Inv, MatchArm
  PROVE  Follows
<1>1. /\ Trying /\ Tried.verdict = "yes" /\ at = "arm" /\ at' = "branch" /\ branch' = 1
      /\ heap' = Tried.heap /\ armEnv' = Tried.env
      /\ UNCHANGED <<fsm, state, env, steps, symbols, mutables, todo, answer, arm>>
  BY DEF MatchArm, Trying
<1>2. /\ arm \in 1..Len(fsm.arms) /\ Meant!PatternVerdict(fsm.arms[arm].pattern) = "yes"
      /\ Grows(heap, Tried.heap) /\ IsEnv(Tried.env, Tried.heap) /\ KeepsCells(Tried.env)
      /\ ValuesIn(Tried.heap, Tried.env) = Meant!Bindings(fsm.arms[arm].pattern)
  BY <1>1, TriedMeans
<1>3. /\ UNCHANGED Meant!vars /\ MPayload' = MPayload /\ MGlobals' = MGlobals /\ MScope' = MScope
      /\ Memory(Tried.heap, symbols, env, armEnv, state.cells, mutables)
  BY <1>1, <1>2, SearchFollows
<1>4. MemoryInv'
  <2>1. Memory(Tried.heap, symbols, env, Tried.env, state.cells, mutables)
    BY <1>2, <1>3 DEF Memory
  <2>2. Clear(Tried.env, symbols)
    BY <1>2 DEF KeepsCells, Clear, Inv, MemoryInv, Separation
  <2>3. Separation(symbols, env, Tried.env, state.cells)
    BY <2>2 DEF Inv, MemoryInv, Separation
  <2> QED BY <1>1, <2>1, <2>3, InvNext
<1>5. SearchInv'
  <2>1. \A i \in 1..(arm - 1) : \A j \in 1..Len(fsm.arms[i].branches) :
          BranchIn(fsm, i, j, state.name, MPayload, MScope, MGlobals) = "no"
    BY <1>1 DEF Inv, SearchInv, Searched
  <2>2. /\ PatternIn(fsm.arms[arm].pattern, state.name, MPayload, MScope, MGlobals) = "yes"
        /\ ValuesIn(heap', armEnv') = BindingsIn(fsm.arms[arm].pattern, MPayload, MScope)
    BY <1>1, <1>2, PatternNow, BindingsNow
  <2>3. 1..(1 - 1) = {}
    OBVIOUS
  <2> QED BY <1>1, <1>3, <2>1, <2>2, <2>3, InvNext DEF Searched
<1> QED BY <1>3, <1>4, <1>5 DEF Follows

\* A guard decides as the condition means in the scope of its arm.
LEMMA GuardMeans ==
  ASSUME Inv, NothingIsShared, Deciding
  PROVE  /\ fsm \in Machines /\ arm \in 1..Len(fsm.arms) /\ branch \in 1..Len(fsm.arms[arm].branches)
         /\ ValuesIn(heap, armEnv) = Meant!Bindings(fsm.arms[arm].pattern)
         /\ Verdict \in {"yes", "no"} => Meant!BranchVerdict(arm, branch) = Verdict
         /\ Verdict \in {"undefined", "not bool"} => Meant!BranchVerdict(arm, branch) = "error"
<1> DEFINE bound == ValuesIn(heap, armEnv)
           condition == fsm.arms[arm].branches[branch].condition
           v == Eval(heap, condition, armEnv)
           value == Meant!Meaning(condition, bound)
           meant == Meant!BranchVerdict(arm, branch)
<1>1. /\ at = "branch" /\ fsm \in Machines /\ arm \in 1..Len(fsm.arms) /\ branch \in Nat \ {0}
      /\ branch <= Len(fsm.arms[arm].branches)
  BY DEF Deciding, Branches, Inv, LoopInv, ControlOK
<1>2. branch \in 1..Len(fsm.arms[arm].branches)
  <2>1. Len(fsm.arms[arm].branches) \in Nat
    BY <1>1, ArmsAreArms
  <2> QED BY <1>1, <2>1
<1>3. /\ Meant!PatternVerdict(fsm.arms[arm].pattern) = "yes"
      /\ bound = Meant!Bindings(fsm.arms[arm].pattern)
  <2>1. /\ PatternIn(fsm.arms[arm].pattern, state.name, MPayload, MScope, MGlobals) = "yes"
        /\ bound = BindingsIn(fsm.arms[arm].pattern, MPayload, MScope)
    BY <1>1 DEF Inv, SearchInv, Searched
  <2> QED BY <2>1, PatternNow, BindingsNow
<1>4. meant = Meant!ConditionVerdict(condition, bound)
  BY <1>3 DEF Meant!BranchVerdict
<1>5. meant = IF condition = Anything THEN "yes"
              ELSE IF value.kind # "bool" THEN "error" ELSE IF value = Value("bool", 1) THEN "yes" ELSE "no"
  BY <1>4 DEF Meant!ConditionVerdict, Meant!Anything, Anything, Meant!Bool, Meant!Value, Value
<1>6. Verdict = IF condition = Anything THEN "yes"
                ELSE IF ~v.ok THEN "undefined"
                ELSE IF v.reference \/ v.heap[v.cell].kind # "bool" THEN "not bool"
                ELSE IF v.heap[v.cell].n = 1 THEN "yes" ELSE "no"
  BY DEF Verdict, Branches
<1> DEFINE Goal == /\ Verdict \in {"yes", "no"} => meant = Verdict
                   /\ Verdict \in {"undefined", "not bool"} => meant = "error"
<1>7. CASE condition = Anything
  <2> HIDE DEF condition, v, value, meant
  <2> QED BY <1>1, <1>2, <1>3, <1>5, <1>6, <1>7 DEF meant
<1>8. ASSUME condition # Anything PROVE Goal
  <2>1. /\ IsExpression(condition) /\ Apart(condition)
    <3>1. /\ fsm.arms[arm].branches[branch] \in BranchesOf(fsm)
          /\ IsBranch(fsm.arms[arm].branches[branch])
      BY <1>1, <1>2, ArmsAreArms
    <3> QED BY <1>1, <1>8, <3>1 DEF IsBranch, NothingIsShared, SharesNothing
  <2>2. /\ Grows(heap, heap) /\ IsEnv(symbols, heap) /\ IsEnv(armEnv, heap) /\ DOMAIN symbols \subseteq ProgramNames
    BY StaysGrown DEF Inv, MemoryInv, Memory
  <2>3. Delivers(v, heap, value) /\ Placed(v, heap, condition, armEnv)
    BY <2>1, <2>2, EvalDelivers
  <2>4. ~(condition.op = "name" /\ condition.name \in DOMAIN symbols)
    BY <2>1, <2>2 DEF Apart
  <2> HIDE DEF condition, v, value, meant, bound
  <2>5. v.ok /\ v.reference => FALSE
    BY <2>3, <2>4 DEF Placed
  <2>6. v.ok \in BOOLEAN /\ (v.ok <=> value # Meant!Undefined)
        /\ (v.ok => v.heap[v.cell] = value /\ value \in Scalars)
    BY <2>3 DEF Delivers
  <2>7. CASE ~v.ok
    <3>1. value.kind = "undefined"
      BY <2>6, <2>7 DEF Meant!Undefined, Meant!Value
    <3> QED BY <1>5, <1>6, <1>8, <2>7, <3>1
  <2>8. CASE v.ok
    <3>1. (value.kind = "bool" => value = Value(value.kind, value.n)) /\ v.heap[v.cell] = value /\ ~v.reference
      BY <2>5, <2>6, <2>8, UndefinedIsNone
    <3>2. CASE value.kind # "bool"
      <4>1. Verdict = "not bool" /\ meant = "error"
        BY <1>5, <1>6, <1>8, <2>8, <3>1, <3>2
      <4> QED BY <4>1
    <3>3. CASE value.kind = "bool" /\ value.n = 1
      <4>1. value = Value("bool", 1)
        BY <3>1, <3>3
      <4>2. Verdict = "yes" /\ meant = "yes"
        BY <1>5, <1>6, <1>8, <2>8, <3>1, <3>3, <4>1
      <4> QED BY <4>2
    <3>4. CASE value.kind = "bool" /\ value.n # 1
      <4>1. value # Value("bool", 1)
        BY <3>4 DEF Value
      <4>2. Verdict = "no" /\ meant = "no"
        BY <1>5, <1>6, <1>8, <2>8, <3>1, <3>4, <4>1
      <4> QED BY <4>2
    <3> QED BY <3>2, <3>3, <3>4
  <2> QED BY <2>6, <2>7, <2>8
<1> HIDE DEF condition, v, value, meant
<1>9. Goal
  BY <1>5, <1>6, <1>7, <1>8
<1> QED BY <1>1, <1>2, <1>3, <1>9 DEF meant

LEMMA SkipBranchFollows ==
  ASSUME Inv, NothingIsShared, SkipBranch
  PROVE  Follows
<1>1. /\ Deciding /\ Verdict = "no" /\ at = "branch" /\ at' = "branch" /\ branch' = branch + 1 /\ heap' = heap
      /\ UNCHANGED <<memory, fsm, state, env, steps, symbols, mutables, todo, answer, armEnv, arm>>
  BY DEF SkipBranch, memory, Deciding
<1>2. UNCHANGED Meant!vars /\ MPayload' = MPayload /\ MGlobals' = MGlobals /\ MScope' = MScope
  BY <1>1, StaysGrown, SearchFollows DEF Inv
<1>3. MemoryInv'
  BY <1>1, MemoryStays
<1>4. SearchInv'
  <2>1. BranchIn(fsm, arm, branch, state.name, MPayload, MScope, MGlobals) = "no"
    BY <1>1, GuardMeans, BranchNow
  <2>2. Searched("branch", fsm, arm, branch, state.name, MPayload, MScope, MGlobals, ValuesIn(heap, armEnv))
    BY <1>1 DEF Inv, SearchInv
  <2>3. \A j \in 1..((branch + 1) - 1) : j \in 1..(branch - 1) \/ j = branch
    BY <1>1 DEF Inv, LoopInv, ControlOK
  <2>4. Searched("branch", fsm, arm, branch + 1, state.name, MPayload, MScope, MGlobals, ValuesIn(heap, armEnv))
    BY <2>1, <2>2, <2>3 DEF Searched
  <2> QED BY <1>1, <1>2, <2>4, InvNext
<1> QED BY <1>2, <1>3, <1>4 DEF Follows

LEMMA FallThroughFollows ==
  ASSUME Inv, FallThrough
  PROVE  Follows
<1>1. /\ at = "branch" /\ at' = "arm" /\ arm' = arm + 1 /\ branch > Len(fsm.arms[arm].branches) /\ heap' = heap
      /\ armEnv' = NoBindings
      /\ UNCHANGED <<memory, fsm, state, env, steps, symbols, mutables, todo, answer>>
  BY DEF FallThrough, memory, Branches
<1>2. UNCHANGED Meant!vars /\ MPayload' = MPayload /\ MGlobals' = MGlobals /\ MScope' = MScope
  BY <1>1, StaysGrown, SearchFollows DEF Inv
<1>3. MemoryInv'
  BY <1>1, MemoryStays
<1>4. SearchInv'
  <2>1. fsm \in Machines /\ arm \in 1..Len(fsm.arms) /\ branch \in Nat
    BY <1>1 DEF Inv, LoopInv, ControlOK
  <2>2. Len(fsm.arms) \in Nat /\ Len(fsm.arms[arm].branches) \in Nat
    BY <2>1, ArmsAreArms
  <2>3. Searched("branch", fsm, arm, branch, state.name, MPayload, MScope, MGlobals, ValuesIn(heap, armEnv))
    BY <1>1 DEF Inv, SearchInv
  <2>4. \A j \in 1..Len(fsm.arms[arm].branches) : j \in 1..(branch - 1)
    BY <1>1, <2>1, <2>2
  <2>5. \A i \in 1..((arm + 1) - 1) : i \in 1..(arm - 1) \/ i = arm
    BY <2>1
  <2>6. \A i \in 1..((arm + 1) - 1) : \A j \in 1..Len(fsm.arms[i].branches) :
          BranchIn(fsm, i, j, state.name, MPayload, MScope, MGlobals) = "no"
    BY <2>3, <2>4, <2>5 DEF Searched
  <2> QED BY <1>1, <1>2, <2>6, InvNext DEF Searched
<1> QED BY <1>2, <1>3, <1>4 DEF Follows

LEMMA FireFollows ==
  ASSUME Inv, NothingIsShared, Fire
  PROVE  Follows
<1>1. /\ Deciding /\ Verdict = "yes" /\ at = "branch" /\ at' = "apply"
      /\ todo' = fsm.arms[arm].branches[branch].transitions
      /\ UNCHANGED <<memory, fsm, state, env, steps, symbols, mutables, answer, armEnv, heap>>
  BY DEF Fire, memory, Deciding, Branches
<1>2. MPayload' = MPayload /\ MGlobals' = MGlobals /\ MState' = MState /\ MemoryInv'
  BY <1>1, MemoryStays
<1>3. SearchInv'
  BY <1>1, InvNext DEF Searched
<1>4. /\ fsm \in Machines /\ arm \in 1..Len(fsm.arms) /\ branch \in 1..Len(fsm.arms[arm].branches)
      /\ ValuesIn(heap, armEnv) = Meant!Bindings(fsm.arms[arm].pattern)
      /\ Meant!BranchVerdict(arm, branch) = "yes"
  BY <1>1, GuardMeans
<1>5. MScope' = Meant!Bindings(fsm.arms[arm].pattern)
  BY <1>1, <1>4, NowAndNext
<1>6. MFired' = MFired + 1 /\ MFired < MaxSteps /\ todo = <<>> /\ MOutcome' = MOutcome
  BY <1>1, NowAndNext DEF MFired, MOutcome, Inv, LoopInv, ControlOK
<1>7. NoneBefore(arm, branch)
  BY <1>1, SearchMeans DEF Inv
<1>8. Meant!Next
  BY <1>1, <1>2, <1>4, <1>5, <1>6, <1>7, MeantFires
<1> QED BY <1>2, <1>3, <1>8 DEF Follows

\* Steps that end the call before a transition.
LEMMA StopsFollow ==
  ASSUME Inv, NothingIsShared, LimitReached \/ Halt \/ PatternFails \/ GuardFails
  PROVE  Follows
<1>1. CASE LimitReached
  <2>1. at = "step" /\ steps = MaxSteps /\ Return(Error("limit")) /\ UNCHANGED memory
    BY <1>1 DEF LimitReached
  <2>2. MemoryInv' /\ SearchInv' /\ Meant!End([op |-> "error"])
    BY <2>1, ReturnMeans DEF Error
  <2>3. fsm \in Machines /\ todo = <<>> /\ MFired = MaxSteps
    BY <2>1 DEF Inv, LoopInv, ControlOK, MFired
  <2> QED BY <2>2, <2>3, MeantExceeds DEF Follows
<1>2. CASE Halt
  <2> DEFINE reached == Held(heap, state)
  <2>1. at = "arm" /\ arm > Len(fsm.arms) /\ Return(Answer(reached)) /\ UNCHANGED memory
    BY <1>2 DEF Halt
  <2>2. Answer(reached) = [op |-> "value", value |-> MState]
    BY DEF Answer, Held, MState, MPayload, Values
  <2>3. MemoryInv' /\ SearchInv' /\ Meant!End([op |-> "value", value |-> MState])
    <3> HIDE DEF reached
    <3> QED BY <2>1, <2>2, ReturnMeans
  <2>4. fsm \in Machines /\ todo = <<>> /\ MFired < MaxSteps /\ arm \in 1..(Len(fsm.arms) + 1)
    BY <2>1 DEF Inv, LoopInv, ControlOK, MFired
  <2>5. arm = Len(fsm.arms) + 1
    <3>1. Len(fsm.arms) \in Nat
      BY <2>4, ArmsAreArms
    <3> QED BY <2>1, <2>4, <3>1
  <2>6. NoneBefore(Len(fsm.arms) + 1, 1)
    BY <2>1, <2>5, SearchMeans DEF Inv
  <2> QED BY <2>3, <2>4, <2>6, MeantHalts DEF Follows
<1>3. CASE PatternFails
  <2>1. Trying /\ at = "arm" /\ Tried.verdict = "error" /\ Return(Error("pattern")) /\ UNCHANGED memory
    BY <1>3 DEF PatternFails, Trying
  <2>2. MemoryInv' /\ SearchInv' /\ Meant!End([op |-> "error"])
    BY <2>1, ReturnMeans DEF Error
  <2>3. fsm \in Machines /\ arm \in 1..Len(fsm.arms) /\ Meant!PatternVerdict(fsm.arms[arm].pattern) = "error"
    BY <2>1, TriedMeans
  <2>4. Meant!BranchVerdict(arm, 1) = "error"
    BY <2>3 DEF Meant!BranchVerdict
  <2>5. 1 \in 1..Len(fsm.arms[arm].branches)
    <3>1. Len(fsm.arms[arm].branches) \in Nat \ {0}
      BY <2>3, ArmsAreArms
    <3> QED BY <3>1
  <2>6. todo = <<>> /\ MFired < MaxSteps
    BY <2>1 DEF Inv, LoopInv, ControlOK, MFired
  <2>7. NoneBefore(arm, 1)
    BY <2>1, SearchMeans DEF Inv
  <2> QED BY <2>2, <2>3, <2>4, <2>5, <2>6, <2>7, MeantFails DEF Follows
<1>4. CASE GuardFails
  <2>1. Deciding /\ at = "branch" /\ Verdict \in {"undefined", "not bool"} /\ Return(Error(Verdict))
          /\ UNCHANGED memory
    BY <1>4 DEF GuardFails, Deciding
  <2>2. MemoryInv' /\ SearchInv' /\ Meant!End([op |-> "error"])
    <3> DEFINE a == Error(Verdict)
    <3>1. a.op = "error" /\ Return(a)
      BY <2>1 DEF Error
    <3> HIDE DEF a
    <3> QED BY <2>1, <3>1, ReturnMeans
  <2>3. /\ fsm \in Machines /\ arm \in 1..Len(fsm.arms) /\ branch \in 1..Len(fsm.arms[arm].branches)
        /\ Meant!BranchVerdict(arm, branch) = "error"
    BY <2>1, GuardMeans
  <2>4. todo = <<>> /\ MFired < MaxSteps
    BY <2>1 DEF Inv, LoopInv, ControlOK, MFired
  <2>5. NoneBefore(arm, branch)
    BY <2>1, SearchMeans DEF Inv
  <2> QED BY <2>2, <2>3, <2>4, <2>5, MeantFails DEF Follows
<1> QED BY <1>1, <1>2, <1>3, <1>4

-----------------------------------------------------------------------------
(* Transitions.                                                            *)

LEMMA ApplyingMeans ==
  ASSUME Inv, NEW op, Applying(op)
  PROVE  /\ at = "apply" /\ fsm \in Machines /\ todo # <<>> /\ Head(todo).op = op
         /\ Head(todo) \in TransitionsOf(fsm) /\ IsTransition(Head(todo))
         /\ MScope = ValuesIn(heap, armEnv) /\ MFired = steps + 1
         /\ heap \in Seq(Scalars) /\ Grows(heap, heap) /\ IsEnv(symbols, heap) /\ IsEnv(armEnv, heap)
         /\ DOMAIN symbols \subseteq ProgramNames /\ mutables \subseteq DOMAIN symbols
<1>1. /\ at = "apply" /\ todo # <<>> /\ Head(todo).op = op /\ fsm \in Machines
      /\ todo \in Seq(TransitionsOf(fsm))
  BY DEF Applying, Inv, LoopInv, ControlOK
<1>2. Head(todo) \in TransitionsOf(fsm)
  BY <1>1
<1>3. MScope = ValuesIn(heap, armEnv) /\ MFired = steps + 1
  BY <1>1, NowAndNext DEF MFired
<1> QED BY <1>1, <1>2, <1>3, TransitionsAreTransitions, StaysGrown DEF Inv, MemoryInv, Memory

\* The payload of a target is evaluated to the state that is meant.
LEMMA PayloadMeans ==
  ASSUME Inv, Applying("next") \/ Applying("output")
  PROVE  /\ Payload.ok \in BOOLEAN /\ (Payload.ok <=> Meant!Defined(MTarget))
         /\ Payload.ok =>
              /\ MTarget = [name |-> Destination.name, payload |-> ValuesIn(Payload.heap, Destination.cells)]
              /\ Grows(heap, Payload.heap) /\ Destination.cells \in Seq(1..Len(Payload.heap))
              /\ Destination.cells \in {Payload.cells, <<>>}
         /\ AreExpressions(Transition.target.parts)
<1>1. /\ IsTransition(Transition) /\ Transition.op \in {"next", "output"} /\ MScope = ValuesIn(heap, armEnv)
      /\ Grows(heap, heap) /\ IsEnv(symbols, heap) /\ IsEnv(armEnv, heap)
  BY ApplyingMeans DEF Transition
<1>2. AreExpressions(Transition.target.parts)
  BY <1>1 DEF IsTransition
<1> QED BY <1>1, <1>2, TargetDelivers DEF Payload, Destination, MTarget, Transition

LEMMA EnterStateFollows ==
  ASSUME Inv, NothingIsShared, EnterState
  PROVE  Follows
<1> DEFINE p == Payload
           st == Destination
<1>1. /\ Applying("next") /\ p.ok /\ heap' = p.heap /\ state' = st /\ todo' = Tail(todo)
      /\ UNCHANGED <<symbols, mutables, at, fsm, env, steps, armEnv, answer, arm, branch>>
  BY DEF EnterState
<1>2. /\ at = "apply" /\ fsm \in Machines /\ todo # <<>> /\ Head(todo).op = "next"
      /\ Head(todo) \in TransitionsOf(fsm)
      /\ IsEnv(symbols, heap) /\ IsEnv(armEnv, heap) /\ Grows(heap, heap)
      /\ DOMAIN symbols \subseteq ProgramNames
  BY <1>1, ApplyingMeans
<1>3. /\ Meant!Defined(MTarget) /\ AreExpressions(Transition.target.parts)
      /\ MTarget = [name |-> st.name, payload |-> ValuesIn(p.heap, st.cells)]
      /\ Grows(heap, p.heap) /\ st.cells \in Seq(1..Len(p.heap)) /\ st.cells \in {p.cells, <<>>}
  BY <1>1, PayloadMeans
<1>4. Clear(st.cells, symbols)
  <2>1. AllApart(Transition.target.parts)
    <3>1. SharesNothing(fsm)
      BY <1>2 DEF NothingIsShared
    <3>2. Transition \in TransitionsOf(fsm) /\ Transition.op = "next"
      BY <1>2 DEF Transition
    <3> QED BY <3>1, <3>2 DEF SharesNothing
  <2>2. Clear(armEnv, symbols)
    BY DEF Inv, MemoryInv, Separation
  <2>3. p = EvalAll(heap, Transition.target.parts, armEnv)
    BY DEF Payload
  <2>4. Clear(p.cells, symbols)
    BY <1>1, <1>2, <1>3, <2>1, <2>2, <2>3, EvalAllClear
  <2> HIDE DEF p, st
  <2> QED BY <1>3, <2>4 DEF Clear
<1> HIDE DEF p, st
<1>5. MemoryInv'
  <2>1. Memory(p.heap, symbols, env, armEnv, state.cells, mutables)
    BY <1>3, MemoryGrows DEF Inv, MemoryInv
  <2>2. Memory(p.heap, symbols, env, armEnv, st.cells, mutables)
    BY <1>3, <2>1 DEF Memory
  <2>3. Separation(symbols, env, armEnv, st.cells)
    BY <1>4 DEF Inv, MemoryInv, Separation
  <2> QED BY <1>1, <2>2, <2>3, InvNext
<1>6. SearchInv'
  BY <1>1, <1>2, InvNext DEF Searched
<1>7. MState' = MTarget
  BY <1>1, <1>3, NowAndNext
<1>8. MGlobals' = MGlobals /\ MScope' = MScope
  BY <1>1, <1>2, <1>3, ValuesStay, NowAndNext DEF Inv
<1>9. MeantStays
  BY <1>1, <1>8, NowAndNext DEF MeantStays, MFired, MOutcome
<1>10. Meant!Next
  BY <1>1, <1>2, <1>3, <1>7, <1>8, <1>9, MeantEnters
<1> QED BY <1>5, <1>6, <1>10 DEF Follows

LEMMA OutputFollows ==
  ASSUME Inv, Output
  PROVE  Follows
<1> DEFINE p == Payload
           reached == Held(p.heap, Destination)
<1>1. Applying("output") /\ p.ok /\ Return(Answer(reached)) /\ UNCHANGED memory
  BY DEF Output
<1>2. fsm \in Machines /\ todo # <<>> /\ Head(todo).op = "output"
  BY <1>1, ApplyingMeans
<1>3. Meant!Defined(MTarget) /\ reached = MTarget
  BY <1>1, PayloadMeans DEF ValuesIn, Held
<1>4. Answer(reached) = [op |-> "value", value |-> MTarget]
  BY <1>3 DEF Answer
<1> HIDE DEF reached
<1>5. MemoryInv' /\ SearchInv' /\ Meant!End([op |-> "value", value |-> MTarget])
  BY <1>1, <1>4, ReturnMeans
<1> QED BY <1>2, <1>3, <1>5, MeantOutputs DEF Follows

\* The bindings of the arm that fired become those of the machine.
LEMMA EndStepFollows ==
  ASSUME Inv, EndStep
  PROVE  Follows
<1>1. /\ at = "apply" /\ todo = <<>> /\ env' = armEnv /\ steps' = steps + 1 /\ at' = "step"
      /\ armEnv' = NoBindings
      /\ UNCHANGED <<heap, symbols, mutables, fsm, state, todo, answer>>
  BY DEF EndStep, memory
<1>2. MemoryInv'
  <2>1. Memory(heap, symbols, armEnv, NoBindings, state.cells, mutables)
    BY DEF Inv, MemoryInv, Memory, IsEnv, NoBindings
  <2>2. Separation(symbols, armEnv, NoBindings, state.cells)
    BY DEF Inv, MemoryInv, Separation, Clear, NoBindings
  <2> QED BY <1>1, <2>1, <2>2, InvNext
<1>3. SearchInv'
  BY <1>1, InvNext DEF Searched
<1>4. MState' = MState /\ MGlobals' = MGlobals /\ MScope' = MScope /\ MFired' = MFired /\ MOutcome' = MOutcome
  BY <1>1, NowAndNext DEF MState, MFired, MOutcome
<1>5. UNCHANGED Meant!vars
  BY <1>1, <1>4, MeantStutters
<1> QED BY <1>2, <1>3, <1>5 DEF Follows

\* The source of a definition or an assignment is evaluated to what is meant.
LEMMA SourceMeans ==
  ASSUME Inv, Applying("define") \/ Applying("assign")
  PROVE  /\ Delivers(Source, heap, MSource) /\ IsExpression(Transition.value)
<1> DEFINE bound == IF Transition.op = "assign" /\ ~Transition.block THEN armEnv ELSE NoBindings
<1>1. /\ IsTransition(Transition) /\ Transition.op \in {"define", "assign"} /\ MScope = ValuesIn(heap, armEnv)
      /\ Grows(heap, heap) /\ IsEnv(symbols, heap) /\ IsEnv(armEnv, heap)
  BY ApplyingMeans DEF Transition
<1>2. IsExpression(Transition.value)
  BY <1>1 DEF IsTransition
<1>3. IsEnv(bound, heap)
  <2>1. IsEnv(NoBindings, heap)
    BY DEF IsEnv, NoBindings
  <2> QED BY <1>1, <2>1
<1>4. ValuesIn(heap, bound) = IF Transition.op = "assign" /\ ~Transition.block THEN MScope ELSE NoBindings
  <2>1. ValuesIn(heap, NoBindings) = NoBindings
    BY DEF ValuesIn, NoBindings
  <2> QED BY <1>1, <2>1
<1>5. Source = Eval(heap, Transition.value, bound)
        /\ MSource = Meant!Meaning(Transition.value, ValuesIn(heap, bound))
  <2>1. Source = Eval(heap, Transition.value, bound)
    BY DEF Source
  <2>2. MSource = Meant!Meaning(Transition.value, ValuesIn(heap, bound))
    <3> HIDE DEF bound
    <3> QED BY <1>4 DEF MSource, Transition
  <2> QED BY <2>1, <2>2
<1> HIDE DEF bound
<1> QED BY <1>1, <1>2, <1>3, <1>5, EvalDelivers

LEMMA BindValues ==
  ASSUME NEW h, NEW g, NEW syms, NEW name, NEW cell, ValuesIn(g, syms) = ValuesIn(h, syms)
  PROVE  ValuesIn(g, Bind(syms, name, cell)) = Bind(ValuesIn(h, syms), name, g[cell])
<1>1. \A n \in DOMAIN syms : g[syms[n]] = h[syms[n]]
  <2>1. \A n \in DOMAIN syms : ValuesIn(g, syms)[n] = g[syms[n]] /\ ValuesIn(h, syms)[n] = h[syms[n]]
    BY DEF ValuesIn
  <2> QED BY <2>1
<1> QED BY <1>1 DEF ValuesIn, Bind

LEMMA DefineFollows ==
  ASSUME Inv, NothingIsShared, Define
  PROVE  Follows
<1> DEFINE r == Source
           name == Transition.name
           syms == Bind(symbols, name, r.cell)
           muts == IF Transition.mutable THEN mutables \cup {name} ELSE mutables
<1>1. /\ Applying("define") /\ name \notin DOMAIN symbols /\ r.ok
      /\ heap' = r.heap /\ symbols' = syms /\ mutables' = muts /\ todo' = Tail(todo)
      /\ UNCHANGED <<at, fsm, state, env, steps, armEnv, answer, arm, branch>>
  BY DEF Define, Definable
<1>2. /\ at = "apply" /\ fsm \in Machines /\ todo # <<>> /\ Head(todo).op = "define"
      /\ Transition \in TransitionsOf(fsm) /\ Transition.op = "define"
      /\ heap \in Seq(Scalars) /\ IsEnv(symbols, heap) /\ DOMAIN symbols \subseteq ProgramNames
      /\ mutables \subseteq DOMAIN symbols
  BY <1>1, ApplyingMeans DEF Transition
<1>3. /\ IsExpression(Transition.value) /\ Grows(heap, r.heap) /\ r.cell \in 1..Len(r.heap)
      /\ r.heap[r.cell] = MSource /\ MSource # Meant!Undefined
  BY <1>1, SourceMeans DEF Delivers
<1>4. r.cell > Len(heap)
  <2>1. SharesNothing(fsm)
    BY <1>2 DEF NothingIsShared
  <2>2. Apart(Transition.value)
    BY <1>2, <2>1 DEF SharesNothing
  <2>3. r = Eval(heap, Transition.value, NoBindings)
    BY <1>2 DEF Source
  <2> QED BY <1>1, <1>2, <1>3, <2>2, <2>3, EvalClear
<1>5. name \in ProgramNames
  <2>1. name \in {t.name : t \in {u \in TransitionsOf(fsm) : u.op = "define"}}
    BY <1>2
  <2> QED BY <1>2, <2>1 DEF ProgramNames
<1> HIDE DEF r
<1>6. DOMAIN syms = DOMAIN symbols \cup {name} /\ syms[name] = r.cell
      /\ \A x \in DOMAIN symbols : syms[x] = symbols[x]
  BY <1>1 DEF Bind
<1>7. MemoryInv'
  <2>1. Memory(r.heap, symbols, env, armEnv, state.cells, mutables)
    BY <1>3, MemoryGrows DEF Inv, MemoryInv
  <2>2. muts \subseteq DOMAIN syms /\ DOMAIN syms \subseteq ProgramNames
    BY <1>2, <1>5, <1>6
  <2>3. IsEnv(syms, r.heap)
    <3>1. syms = [x \in DOMAIN syms |-> syms[x]]
      BY DEF Bind
    <3>2. \A x \in DOMAIN syms : syms[x] \in 1..Len(r.heap)
      BY <1>3, <1>6, <2>1 DEF Memory, IsEnv
    <3> HIDE DEF syms
    <3> QED BY <3>1, <3>2 DEF IsEnv
  <2>4. Memory(r.heap, syms, env, armEnv, state.cells, muts)
    <3> HIDE DEF syms, muts
    <3> QED BY <2>1, <2>2, <2>3 DEF Memory
  <2>5. \A x \in DOMAIN symbols : symbols[x] # r.cell
    BY <1>2, <1>3, <1>4 DEF IsEnv
  <2>6. Separation(symbols, env, armEnv, state.cells) /\ IsEnv(env, heap) /\ IsEnv(armEnv, heap)
        /\ state.cells \in Seq(1..Len(heap))
    BY DEF Inv, MemoryInv, Memory
  <2>7. Distinct(syms)
    <3> HIDE DEF syms
    <3> QED BY <1>6, <2>5, <2>6 DEF Distinct, Separation
  <2>8. Clear(env, syms) /\ Clear(armEnv, syms) /\ Clear(state.cells, syms)
    <3>1. ASSUME NEW cells, \A i \in DOMAIN cells : cells[i] \in 1..Len(heap), Clear(cells, symbols)
          PROVE  Clear(cells, syms)
      <4>1. \A i \in DOMAIN cells : cells[i] # r.cell
        BY <1>3, <1>4, <3>1, <1>2
      <4> HIDE DEF syms
      <4> QED BY <1>6, <3>1, <4>1 DEF Clear
    <3> HIDE DEF syms
    <3> QED BY <2>6, <3>1 DEF Separation, IsEnv
  <2> HIDE DEF syms, muts
  <2> QED BY <1>1, <2>4, <2>6, <2>7, <2>8, InvNext DEF Separation
<1>8. SearchInv'
  BY <1>1, <1>2, InvNext DEF Searched
<1>9. /\ ValuesIn(heap', state.cells) = ValuesIn(heap, state.cells)
      /\ ValuesIn(heap', symbols) = ValuesIn(heap, symbols)
      /\ ValuesIn(heap', armEnv) = ValuesIn(heap, armEnv)
  BY <1>1, <1>3, ValuesStay DEF Inv
<1>10. MState' = MState /\ MeantStays
  BY <1>1, <1>2, <1>9, NowAndNext DEF MeantStays, MState, MFired, MOutcome
<1>11. MGlobals' = Bind(MGlobals, name, MSource)
  BY <1>1, <1>3, <1>9, BindValues, NowAndNext
<1>12. name \notin DOMAIN MGlobals
  BY <1>1, NowAndNext DEF ValuesIn
<1>13. Meant!Next
  BY <1>1, <1>2, <1>3, <1>10, <1>11, <1>12, MeantDefines DEF Transition
<1> QED BY <1>7, <1>8, <1>13 DEF Follows

LEMMA AssignFollows ==
  ASSUME Inv, Assign
  PROVE  Follows
<1> DEFINE r == Source
           name == Transition.name
           cell == symbols[name]
           g == [r.heap EXCEPT ![cell] = r.heap[r.cell]]
<1>1. /\ Applying("assign") /\ name \in mutables /\ r.ok
      /\ r.heap[r.cell].kind \in {heap[cell].kind} \ {"atom"}
      /\ heap' = g /\ todo' = Tail(todo)
      /\ UNCHANGED <<symbols, mutables, at, fsm, state, env, steps, armEnv, answer, arm, branch>>
  BY DEF Assign, Assignable
<1>2. /\ at = "apply" /\ fsm \in Machines /\ todo # <<>> /\ Head(todo).op = "assign"
      /\ IsEnv(symbols, heap) /\ mutables \subseteq DOMAIN symbols
  BY <1>1, ApplyingMeans
<1>3. /\ Grows(heap, r.heap) /\ r.cell \in 1..Len(r.heap)
      /\ r.heap[r.cell] = MSource /\ MSource # Meant!Undefined /\ MSource \in Scalars
  BY <1>1, SourceMeans DEF Delivers
<1> HIDE DEF r
<1>4. name \in DOMAIN symbols /\ cell \in 1..Len(heap)
  BY <1>1, <1>2 DEF IsEnv
<1>5. /\ g \in Seq(Scalars) /\ Len(g) = Len(r.heap)
      /\ g[cell] = MSource /\ \A i \in 1..Len(heap) : i # cell => g[i] = heap[i]
  <2>1. r.heap \in Seq(Scalars) /\ Len(heap) \in Nat /\ Len(r.heap) \in Nat /\ Len(heap) <= Len(r.heap)
        /\ \A i \in 1..Len(heap) : r.heap[i] = heap[i]
    BY <1>3 DEF Grows
  <2>2. cell \in 1..Len(r.heap)
    BY <1>4, <2>1
  <2> HIDE DEF cell
  <2> QED BY <1>3, <2>1, <2>2
<1>6. /\ Separation(symbols, env, armEnv, state.cells)
      /\ IsEnv(env, heap) /\ IsEnv(armEnv, heap) /\ state.cells \in Seq(1..Len(heap))
  BY DEF Inv, MemoryInv, Memory
<1> HIDE DEF g
<1>7. MemoryInv'
  <2>1. Memory(r.heap, symbols, env, armEnv, state.cells, mutables)
    BY <1>3, MemoryGrows DEF Inv, MemoryInv
  <2>2. Memory(g, symbols, env, armEnv, state.cells, mutables)
    BY <1>5, <2>1 DEF Memory, IsEnv
  <2> QED BY <1>1, <1>6, <2>2, InvNext
<1>8. SearchInv'
  BY <1>1, <1>2, InvNext DEF Searched
<1>9. /\ ValuesIn(g, state.cells) = ValuesIn(heap, state.cells)
      /\ ValuesIn(g, armEnv) = ValuesIn(heap, armEnv)
  <2>1. ASSUME NEW cells, \A i \in DOMAIN cells : cells[i] \in 1..Len(heap), Clear(cells, symbols)
        PROVE  ValuesIn(g, cells) = ValuesIn(heap, cells)
    <3>1. \A i \in DOMAIN cells : cells[i] # cell
      BY <1>4, <2>1 DEF Clear
    <3>2. \A i \in DOMAIN cells : g[cells[i]] = heap[cells[i]]
      BY <1>5, <2>1, <3>1
    <3> QED BY <3>2 DEF ValuesIn
  <2> QED BY <1>6, <2>1 DEF Separation, IsEnv
<1>10. ValuesIn(g, symbols) = [ValuesIn(heap, symbols) EXCEPT ![name] = MSource]
  <2>1. \A x \in DOMAIN symbols : x # name => symbols[x] # cell
    BY <1>4, <1>6 DEF Separation, Distinct
  <2>2. \A x \in DOMAIN symbols : g[symbols[x]] = IF x = name THEN MSource ELSE heap[symbols[x]]
    BY <1>2, <1>5, <2>1 DEF IsEnv
  <2> QED BY <1>4, <2>2 DEF ValuesIn
<1>11. MState' = MState /\ MeantStays
  BY <1>1, <1>2, <1>9, NowAndNext DEF MeantStays, MState, MFired, MOutcome
<1>12. MGlobals' = [MGlobals EXCEPT ![name] = MSource] /\ MSource.kind \in {MGlobals[name].kind} \ {"atom"}
  <2>1. MGlobals[name] = heap[cell]
    BY <1>4, NowAndNext DEF ValuesIn
  <2> QED BY <1>1, <1>3, <1>10, <2>1, NowAndNext
<1>13. Meant!Next
  BY <1>1, <1>2, <1>3, <1>11, <1>12, MeantAssigns DEF Transition
<1> QED BY <1>7, <1>8, <1>13 DEF Follows

LEMMA TransitionFailsFollows ==
  ASSUME Inv, TransitionFails
  PROVE  Follows
<1>1. Return(Error("transition")) /\ UNCHANGED memory
  BY DEF TransitionFails
<1>2. MemoryInv' /\ SearchInv' /\ Meant!End([op |-> "error"])
  BY <1>1, ReturnMeans DEF Error
<1>3. \E op \in {"next", "output", "define", "assign"} : Applying(op)
  BY DEF TransitionFails
<1>4. fsm \in Machines /\ todo # <<>> /\ mutables \subseteq DOMAIN symbols
  BY <1>3, ApplyingMeans
<1>5. DOMAIN MGlobals = DOMAIN symbols
  BY NowAndNext DEF ValuesIn
<1>6. CASE (Applying("next") \/ Applying("output")) /\ ~Payload.ok
  <2>1. ~Meant!Defined(MTarget) /\ Head(todo).op \in {"next", "output"}
    BY <1>6, PayloadMeans DEF Applying
  <2> QED BY <1>2, <1>4, <2>1, MeantTransitionFails DEF Follows
<1>7. CASE Applying("define") /\ ~Definable
  <2>1. Head(todo).op = "define" /\ (Transition.name \in DOMAIN symbols \/ ~Source.ok)
    BY <1>7 DEF Applying, Definable
  <2>2. ~Source.ok => MSource = Meant!Undefined
    BY <1>7, SourceMeans DEF Delivers
  <2> QED BY <1>2, <1>4, <1>5, <2>1, <2>2, MeantTransitionFails DEF Follows, Transition
<1>8. CASE Applying("assign") /\ ~Assignable
  <2>1. /\ Head(todo).op = "assign"
        /\ \/ Transition.name \notin mutables \/ ~Source.ok
           \/ Source.ok /\ Transition.name \in mutables
              /\ Source.heap[Source.cell].kind \notin {heap[symbols[Transition.name]].kind} \ {"atom"}
    BY <1>8 DEF Applying, Assignable
  <2>2. (~Source.ok => MSource = Meant!Undefined) /\ (Source.ok => Source.heap[Source.cell] = MSource)
    BY <1>8, SourceMeans DEF Delivers
  <2>3. Transition.name \in mutables => MGlobals[Transition.name] = heap[symbols[Transition.name]]
    BY <1>4, NowAndNext DEF ValuesIn
  <2> QED BY <1>2, <1>4, <2>1, <2>2, <2>3, MeantTransitionFails DEF Follows, Transition
<1> QED BY <1>6, <1>7, <1>8 DEF TransitionFails

-----------------------------------------------------------------------------
(* The refinement.                                                         *)

LEMMA SetToSeqEnumerates ==
  ASSUME NEW S, IsFiniteSet(S)
  PROVE  /\ Cardinality(S) \in Nat /\ SetToSeq(S) \in [1..Cardinality(S) -> S]
         /\ \A x \in S : \E i \in 1..Cardinality(S) : SetToSeq(S)[i] = x
<1> DEFINE n == Cardinality(S)
           s == SetToSeq(S)
<1>1. n \in Nat /\ ExistsBijection(1..n, S)
  BY FS_CardinalityType
<1>2. \E f \in [1..n -> S] : IsInjective(f)
  BY <1>1 DEF ExistsBijection, Bijection, Injection
<1>3. s \in [1..n -> S] /\ IsInjective(s)
  BY <1>2 DEF SetToSeq
<1>4. s \in Injection(1..n, S)
  BY <1>3 DEF Injection
<1>5. IsFiniteSet(1..n) /\ Cardinality(1..n) = n
  <2>1. IsFiniteSet(1..n) /\ Cardinality(1..n) = IF 1 > n THEN 0 ELSE n - 1 + 1
    BY <1>1, FS_Interval
  <2> QED BY <1>1, <2>1
<1>6. s \in Surjection(1..n, S)
  BY <1>4, <1>5, FS_Injection
<1> QED BY <1>1, <1>3, <1>6 DEF Surjection

LEMMA InitMeans ==
  ASSUME Init
  PROVE  Inv /\ Meant!Init
<1> DEFINE names == SetToSeq(DOMAIN Globals)
           n == Cardinality(DOMAIN Globals)
<1>1. /\ n \in Nat /\ names \in [1..n -> DOMAIN Globals]
      /\ \A x \in DOMAIN Globals : \E i \in 1..n : names[i] = x
  BY MachinesAssumption, SetToSeqEnumerates
<1>2. /\ heap = [i \in 1..n |-> Globals[names[i]]]
      /\ symbols = [x \in DOMAIN Globals |-> CHOOSE i \in 1..n : names[i] = x]
  BY <1>1 DEF Init
<1>3. /\ mutables = Mutables /\ at = "idle" /\ fsm = None /\ state = NoState /\ env = NoBindings
      /\ steps = 0 /\ armEnv = NoBindings /\ todo = <<>> /\ answer = None
  BY DEF Init
<1> HIDE DEF names, n
<1>4. heap \in Seq(Scalars) /\ Len(heap) = n
  <2>1. heap \in [1..n -> Scalars]
    BY <1>1, <1>2, MachinesAssumption
  <2> QED BY <1>1, <2>1
<1>5. /\ DOMAIN symbols = DOMAIN Globals /\ symbols = [x \in DOMAIN symbols |-> symbols[x]]
      /\ \A x \in DOMAIN Globals : symbols[x] \in 1..n /\ names[symbols[x]] = x
  <2> DEFINE At(x) == CHOOSE i \in 1..n : names[i] = x
  <2>1. \A x \in DOMAIN Globals : At(x) \in 1..n /\ names[At(x)] = x
    BY <1>1
  <2>2. symbols = [x \in DOMAIN Globals |-> At(x)]
    BY <1>2
  <2> HIDE DEF At
  <2> QED BY <2>1, <2>2
<1>6. MemoryInv
  <2>1. IsEnv(symbols, heap) /\ DOMAIN symbols \subseteq ProgramNames /\ mutables \subseteq DOMAIN symbols
    BY <1>3, <1>4, <1>5, MachinesAssumption DEF IsEnv, ProgramNames
  <2>2. Distinct(symbols)
    <3> SUFFICES ASSUME NEW x \in DOMAIN symbols, NEW y \in DOMAIN symbols, symbols[x] = symbols[y]
                 PROVE  x = y
      BY DEF Distinct
    <3>1. names[symbols[x]] = x /\ names[symbols[y]] = y
      BY <1>5
    <3> QED BY <3>1
  <2>3. NoState.cells = <<>> /\ NoBindings = <<>> /\ DOMAIN NoBindings = {}
    BY DEF NoState, NoBindings
  <2>4. IsEnv(NoBindings, heap) /\ Clear(NoBindings, symbols)
    BY <2>3 DEF IsEnv, Clear, NoBindings
  <2> QED BY <1>3, <1>4, <2>1, <2>2, <2>3, <2>4 DEF MemoryInv, Memory, Separation
<1>7. SearchInv
  BY <1>3 DEF SearchInv, Searched
<1>8. Meant!Init
  <2>1. Values(state.cells) = <<>> /\ state.name = Bare /\ Values(NoBindings) = NoBindings
    BY <1>3 DEF NoState, Values, NoBindings
  <2>2. answer.op # "error"
    BY <1>3 DEF None
  <2> QED BY <1>3, <2>1, <2>2, MeantNone DEF Meant!Init
<1> QED BY <1>6, <1>7, <1>8, LoopInit DEF Inv

LEMMA NextFollows ==
  ASSUME Inv, NothingIsShared, [Next]_vars
  PROVE  Follows
<1>1. CASE RegisterImplementation \/ RegisterSpecification \/ Refuse \/ UNCHANGED vars
  BY <1>1, IdleFollows
<1>2. CASE Start
  BY <1>2, StartFollows
<1>3. CASE BeginStep \/ SkipArm \/ MatchArm \/ SkipBranch \/ FallThrough
  BY <1>3, BeginStepFollows, SkipArmFollows, MatchArmFollows, SkipBranchFollows, FallThroughFollows
<1>4. CASE LimitReached \/ Halt \/ PatternFails \/ GuardFails
  BY <1>4, StopsFollow
<1>5. CASE Fire \/ EndStep
  BY <1>5, FireFollows, EndStepFollows
<1>6. CASE EnterState \/ Output \/ Define \/ Assign \/ TransitionFails
  BY <1>6, EnterStateFollows, OutputFollows, DefineFollows, AssignFollows, TransitionFailsFollows
<1> QED BY <1>1, <1>2, <1>3, <1>4, <1>5, <1>6 DEF Next, Run

\* A machine does what its branches say: of all arms and guards in source order the
\* first that can decide fires, at once, in the scope its own bindings and those of the
\* arms that fired before make, and stops where none applies, at an output, an error or
\* the limit (execute_fsm_pipe_impl), if machines share no cells with the program's
\* variables.
THEOREM MachinesAreImplemented ==
  ASSUME NothingIsShared
  PROVE  Spec => ImplementsMachine
<1>1. Init => Inv /\ Meant!Init
  BY InitMeans
<1>2. Inv /\ [Next]_vars => Inv' /\ [Meant!Next]_(Meant!vars)
  <2> SUFFICES ASSUME Inv, [Next]_vars PROVE Inv' /\ (Meant!Next \/ UNCHANGED Meant!vars)
    OBVIOUS
  <2>1. MemoryInv' /\ SearchInv' /\ (Meant!Next \/ UNCHANGED Meant!vars)
    BY NextFollows DEF Follows
  <2>2. LoopInv'
    BY LoopStep, ProgramStep DEF LoopInv, Inv
  <2> QED BY <2>1, <2>2 DEF Inv
<1> QED BY <1>1, <1>2, PTL DEF Spec, ImplementsMachine, Meant!Spec
=============================================================================
