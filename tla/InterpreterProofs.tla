------------------------- MODULE InterpreterProofs -------------------------
(***************************************************************************)
(* Theorems about one interpreter, for any number of names, cells, steps,  *)
(* statements and machines: first what its cells and symbols hold, then    *)
(* that its plan is in dataflow order and that names keep their cells.     *)
(***************************************************************************)
EXTENDS Interpreter, TLAPS

USE DEF NonScalar, NoValue, Cells, Handle

-----------------------------------------------------------------------------
(* Cells, steps, terms and statements.                                     *)

(* The result of + is a number of the model.                               *)
LEMMA PlusType ==
  ASSUME NEW a \in 0..(Modulus - 1), NEW b \in 0..(Modulus - 1)
  PROVE  Plus(a, b) \in 0..(Modulus - 1)
BY ConstantsAssumption DEF Plus

(* A step stays well formed when cells are allocated.                      *)
LEMMA StepsGrow ==
  ASSUME NEW n \in Nat, NEW m \in Nat, n <= m
  PROVE  /\ AddSteps(n) \subseteq AddSteps(m)
         /\ StepsOver(n) \subseteq StepsOver(m)
         /\ FramesOver(n) \subseteq FramesOver(m)
<1>1. AddSteps(n) \subseteq AddSteps(m)
  BY DEF AddSteps
<1>2. {<<c>> : c \in 1..n} \subseteq {<<c>> : c \in 1..m} /\ 0..n \subseteq 0..m /\ 1..n \subseteq 1..m
  OBVIOUS
<1>3. StepsOver(n) \subseteq StepsOver(m)
  BY <1>1, <1>2 DEF StepsOver
<1>4. Seq(AddSteps(n)) \subseteq Seq(AddSteps(m))
  BY <1>1
<1>5. FramesOver(n) \subseteq FramesOver(m)
  BY <1>4 DEF FramesOver
<1> QED BY <1>1, <1>3, <1>5

(* The content of a cell of a well-formed heap.                            *)
LEMMA CellType ==
  ASSUME NEW h \in Seq(Cell), NEW c \in 1..Len(h)
  PROVE  h[c] \in Cell /\ h[c].val \in 0..(Modulus - 1) /\ h[c].kind \in Kinds
<1>1. h[c] \in Cell
  OBVIOUS
<1> QED BY <1>1 DEF Cell

(* Replacing the value of a cell keeps the heap well formed.               *)
LEMMA WriteType ==
  ASSUME NEW h \in Seq(Cell), NEW c \in 1..Len(h), NEW v \in 0..(Modulus - 1)
  PROVE  /\ [h EXCEPT ![c].val = v] \in Seq(Cell)
         /\ Len([h EXCEPT ![c].val = v]) = Len(h)
<1>1. [h[c] EXCEPT !.val = v] \in Cell
  BY CellType DEF Cell
<1> QED BY <1>1

(* Solving a step writes one existing cell and keeps the heap well formed. *)
LEMMA SolveType ==
  ASSUME NEW h \in Seq(Cell), NEW s \in StepsOver(Len(h))
  PROVE  Solve(h, s) \in Seq(Cell) /\ Len(Solve(h, s)) = Len(h)
<1>1. CASE s \in AddSteps(Len(h))
  <2>1. s.op = "add" /\ s.args[1] \in 1..Len(h) /\ s.args[2] \in 1..Len(h) /\ s.out \in 1..Len(h)
    BY <1>1 DEF AddSteps
  <2>2. Plus(h[s.args[1]].val, h[s.args[2]].val) \in 0..(Modulus - 1)
    BY <2>1, CellType, PlusType
  <2>3. Solve(h, s) = [h EXCEPT ![s.out].val = Plus(h[s.args[1]].val, h[s.args[2]].val)]
    BY <2>1 DEF Solve
  <2> QED BY <2>1, <2>2, <2>3, WriteType
<1>2. CASE s \in [op : {"convert", "assign", "addassign"},
                  args : {<<c>> : c \in 1..Len(h)}, out : 1..Len(h)]
  <2>1. /\ s.op \in {"convert", "assign", "addassign"}
        /\ s.args[1] \in 1..Len(h) /\ s.out \in 1..Len(h)
    BY <1>2
  <2>2. CASE s.op = "convert"
    <3>1. Solve(h, s) = [h EXCEPT ![s.out].val = h[s.args[1]].val]
      BY <2>2 DEF Solve
    <3> QED BY <2>1, <3>1, CellType, WriteType
  <2>3. CASE s.op = "assign"
    <3>1. Solve(h, s) = [h EXCEPT ![s.out] = h[s.args[1]]]
      BY <2>3 DEF Solve
    <3>2. h[s.args[1]] \in Cell
      BY <2>1, CellType
    <3> QED BY <2>1, <3>1, <3>2
  <2>4. CASE s.op = "addassign"
    <3>1. Solve(h, s) = [h EXCEPT ![s.out].val = Plus(h[s.out].val, h[s.args[1]].val)]
      BY <2>4 DEF Solve
    <3>2. Plus(h[s.out].val, h[s.args[1]].val) \in 0..(Modulus - 1)
      BY <2>1, CellType, PlusType
    <3> QED BY <2>1, <3>1, <3>2, WriteType
  <2> QED BY <2>1, <2>2, <2>3, <2>4
<1>3. CASE s \in [op : {"define"}, args : {<<>>}, out : 0..Len(h)]
  BY <1>3 DEF Solve
<1> QED BY <1>1, <1>2, <1>3 DEF StepsOver

(* A native function compiled over a heap adds one well-formed cell.       *)
LEMMA CompiledType ==
  ASSUME NEW h \in Seq(Cell), NEW k \in Kinds, NEW s \in StepsOver(Len(h) + 1)
  PROVE  Compiled(h, k, s) \in Seq(Cell) /\ Len(Compiled(h, k, s)) = Len(h) + 1
<1> DEFINE g == Append(h, [kind |-> k, val |-> 0])
<1>1. [kind |-> k, val |-> 0] \in Cell
  BY ConstantsAssumption DEF Cell
<1>2. g \in Seq(Cell) /\ Len(g) = Len(h) + 1
  BY <1>1
<1>3. Solve(g, s) \in Seq(Cell) /\ Len(Solve(g, s)) = Len(g)
  <2> HIDE DEF g
  <2> QED BY <1>2, SolveType
<1> QED BY <1>2, <1>3 DEF Compiled

(* The parts of a sequence that is not empty.                              *)
LEMMA Parts ==
  ASSUME NEW S, NEW s \in Seq(S), s # <<>>
  PROVE  /\ Last(s) \in S /\ Front(s) \in Seq(S)
         /\ Len(s) \in Nat \ {0} /\ Len(s) \in DOMAIN s /\ Last(s) = s[Len(s)]
         /\ Len(Front(s)) = Len(s) - 1 /\ DOMAIN Front(s) = 1..(Len(s) - 1)
         /\ \A j \in 1..(Len(s) - 1) : j \in DOMAIN s /\ Front(s)[j] = s[j]
<1>1. Len(s) \in Nat \ {0} /\ DOMAIN s = 1..Len(s)
  OBVIOUS
<1>2. Len(s) - 1 \in 0..Len(s)
  BY <1>1
<1>3. ASSUME NEW l \in 0..Len(s)
      PROVE  /\ SubSeq(s, 1, l) \in Seq(S) /\ Len(SubSeq(s, 1, l)) = l
             /\ DOMAIN SubSeq(s, 1, l) = 1..l /\ \A j \in 1..l : SubSeq(s, 1, l)[j] = s[j]
  OBVIOUS
<1> QED BY <1>1, <1>2, <1>3 DEF Last, Front

(* The names a statement is about.                                         *)
LEMMA StatementNames ==
  ASSUME NEW s \in Evaluated
  PROVE  /\ s.op = "define" => s.names[1] \in Names /\ s.kind \in Kinds \cup {"any"}
         /\ s.op = "fsm" => s.names[1] \in Names
         /\ s.op = "destructure" => /\ DOMAIN s.names = 1..2
                                    /\ s.names[1] \in Names /\ s.names[2] \in Names
         /\ s.op # "none" /\ s # NoStmt
<1> DEFINE Shape(t) ==
      /\ t.op = "define" => t.names[1] \in Names /\ t.kind \in Kinds \cup {"any"}
      /\ t.op = "fsm" => t.names[1] \in Names
      /\ t.op = "destructure" => /\ DOMAIN t.names = 1..2
                                 /\ t.names[1] \in Names /\ t.names[2] \in Names
      /\ t.op # "none"
<1> DEFINE Lines == Defines \cup Assigns \cup Destructures \cup FsmDeclares \cup Others
<1>1. ASSUME NEW t \in Lines
      PROVE  /\ Shape(t) /\ Shape([t EXCEPT !.transition = TRUE]) /\ Shape(Called(t))
             /\ Shape(Called([t EXCEPT !.transition = TRUE]))
  <2>1. CASE t \in Defines
    BY <2>1 DEF Defines, Statement, Called, Kinds
  <2>2. CASE t \in Assigns \cup Others
    BY <2>2 DEF Assigns, Others, Statement, Called
  <2>3. CASE t \in Destructures
    BY <2>3 DEF Destructures, Statement, Called
  <2>4. CASE t \in FsmDeclares
    BY <2>4 DEF FsmDeclares, Statement, Called
  <2> QED BY <2>1, <2>2, <2>3, <2>4
<1>2. \A t \in Statements : Shape(t) /\ Shape(Called(t))
  <2> HIDE DEF Shape
  <2> QED BY <1>1 DEF Statements, Transitions
<1>3. Shape(s)
  <2> HIDE DEF Shape
  <2> QED BY <1>2 DEF Evaluated
<1>4. s # NoStmt
  BY <1>3 DEF NoStmt, Statement
<1> QED BY <1>3, <1>4

(* What a statement is marked as, once its expression calls a machine.     *)
LEMMA CalledMarked ==
  ASSUME NEW s \in Evaluated
  PROVE  Called(s) \in {Called(t) : t \in Statements}
<1>1. ASSUME NEW t \in Statements PROVE Called(Called(t)) = Called(t)
  BY <1>1 DEF Called
<1> QED BY <1>1 DEF Evaluated

(* A statement as it is begun has not called a machine, one that waits for *)
(* a machine has.                                                          *)
LEMMA CalledFlag ==
  ASSUME NEW s \in Statements
  PROVE  ~s.called /\ Called(s).called
<1> DEFINE Lines == Defines \cup Assigns \cup Destructures \cup FsmDeclares \cup Others
<1>1. ASSUME NEW t \in Lines
      PROVE  /\ ~t.called /\ Called(t).called
             /\ ~[t EXCEPT !.transition = TRUE].called
             /\ Called([t EXCEPT !.transition = TRUE]).called
  BY DEF Defines, Assigns, Destructures, FsmDeclares, Others, Statement, Called
<1> QED BY <1>1 DEF Statements, Transitions

-----------------------------------------------------------------------------
(* Type correctness.                                                       *)

(* What held of the smaller heap holds of the larger one.                  *)
LEMMA HeapGrows ==
  ASSUME TypeOK, NEW m \in Nat, Len(heap) <= m
  PROVE  /\ plan \in Seq(StepsOver(m))
         /\ frames \in Seq(FramesOver(m))
         /\ elems \in Seq(0..m)
         /\ \A n \in DOMAIN symbols : symbols[n] \in 0..m
         /\ \A n \in DOMAIN mutables : mutables[n] \in 0..m
         /\ machines \in Seq(MachinesOver(m))
<1>1. Len(heap) \in Nat
  BY DEF TypeOK, HeapOK
<1>2. StepsOver(Len(heap)) \subseteq StepsOver(m) /\ FramesOver(Len(heap)) \subseteq FramesOver(m)
  BY <1>1, StepsGrow
<1>3. Handle = 0..Len(heap) /\ 0..Len(heap) \subseteq 0..m
  BY <1>1
<1>4. plan \in Seq(StepsOver(m))
  BY <1>2 DEF TypeOK, PlanOK
<1>5. frames \in Seq(FramesOver(m))
  BY <1>2 DEF TypeOK, EvalOK
<1>6. elems \in Seq(0..m)
  BY <1>3 DEF TypeOK, EvalOK
<1>7. machines \in Seq(MachinesOver(m))
  <2>1. Seq(0..Len(heap)) \subseteq Seq(0..m) /\ SUBSET (0..Len(heap)) \subseteq SUBSET (0..m)
    BY <1>3
  <2>2. MachinesOver(Len(heap)) \subseteq MachinesOver(m)
    BY <2>1 DEF MachinesOver
  <2> QED BY <2>2 DEF TypeOK, MachinesOK
<1> QED BY <1>3, <1>4, <1>5, <1>6, <1>7 DEF TypeOK, TablesOK

(* A handle of the next state is a number up to the size of its heap.      *)
LEMMA HandleNext ==
  ASSUME heap' \in Seq(Cell) PROVE Handle' = 0..Len(heap')
BY DEF Handle, Cells

(* Each machine's terms are above those of the machines that called it.    *)
LEMMA Bases ==
  ASSUME TypeOK
  PROVE  /\ Len(machines) \in Nat /\ Base \in Nat /\ Base <= Len(frames)
         /\ \A k \in 0..Len(machines) : BaseOf(k) \in Nat /\ BaseOf(k) <= Base
         /\ machines # <<>> => Base > 0
<1>1. Len(machines) \in Nat /\ \A k \in 1..Len(machines) : machines[k].base \in Nat
  <2>1. \A k \in 1..Len(machines) : machines[k] \in MachinesOver(Len(heap))
    BY DEF TypeOK, MachinesOK
  <2> QED BY <2>1 DEF TypeOK, MachinesOK, MachinesOver
<1>2. ASSUME NEW k \in 0..Len(machines) PROVE BaseOf(k) \in Nat
  BY <1>1 DEF BaseOf
<1>3. Base \in Nat /\ Base <= Len(frames)
  BY <1>1, <1>2 DEF Base, TypeOK, MachinesOK
<1>4. ASSUME NEW k \in 0..Len(machines) PROVE BaseOf(k) <= Base
  <2>1. CASE k = Len(machines)
    BY <1>2, <2>1 DEF Base
  <2>2. CASE k < Len(machines)
    <3>1. Len(machines) \in 0..Len(machines)
      BY <1>1
    <3>2. BaseOf(k) < Base
      BY <2>2, <3>1 DEF Base, TypeOK, MachinesOK
    <3> QED BY <1>2, <1>3, <3>2
  <2> QED BY <1>1, <2>1, <2>2
<1>5. ASSUME machines # <<>> PROVE Base > 0
  <2>1. Len(machines) > 0
    BY <1>5 DEF TypeOK, MachinesOK
  <2>2. BaseOf(0) < BaseOf(Len(machines))
    BY <1>1, <2>1 DEF TypeOK, MachinesOK
  <2> QED BY <2>2 DEF Base, BaseOf
<1> QED BY <1>1, <1>2, <1>3, <1>4, <1>5

(* The calls go on as they are while the terms above them come and go.     *)
LEMMA MachinesKept ==
  ASSUME TypeOK, machines' = machines, heap' \in Seq(Cell), Len(heap) <= Len(heap'),
         Base <= Len(frames')
  PROVE  MachinesOK'
<1>1. Len(heap') \in Nat
  OBVIOUS
<1>2. machines \in Seq(MachinesOver(Len(heap')))
  BY <1>1, HeapGrows
<1>3. \A k : BaseOf(k)' = BaseOf(k)
  BY DEF BaseOf
<1>4. Base' = Base
  BY DEF Base, BaseOf
<1> QED BY <1>2, <1>3, <1>4 DEF MachinesOK, TypeOK

(* What is left when the calls above the k-th machine are abandoned.       *)
LEMMA AbandonType ==
  ASSUME TypeOK, NEW k \in 0..Len(machines), Abandon(k),
         heap' \in Seq(Cell), Len(heap) <= Len(heap')
  PROVE  /\ stmt' = NoStmt /\ elems' = <<>>
         /\ frames' \in Seq(FramesOver(Len(heap')))
         /\ \A j \in DOMAIN frames' : j \in DOMAIN frames /\ j <= BaseOf(k) /\ frames'[j] = frames[j]
         /\ machines' = SubSeq(machines, 1, k)
         /\ k = 0 => frames' = <<>>
         /\ MachinesOK'
<1>0. /\ Len(heap') \in Nat /\ k \in Nat /\ Len(machines) \in Nat /\ k <= Len(machines)
      /\ BaseOf(k) \in Nat /\ BaseOf(k) <= Base /\ Base \in Nat /\ Base <= Len(frames)
      /\ Len(frames) \in Nat
  BY Bases DEF TypeOK, EvalOK
<1>1. /\ stmt' = NoStmt /\ elems' = <<>> /\ frames' = SubSeq(frames, 1, BaseOf(k))
      /\ machines' = SubSeq(machines, 1, k)
  BY DEF Abandon
<1>2. frames \in Seq(FramesOver(Len(heap'))) /\ machines \in Seq(MachinesOver(Len(heap')))
  BY <1>0, HeapGrows
<1>3. ASSUME NEW S, NEW q \in Seq(S), NEW l \in 0..Len(q)
      PROVE  /\ SubSeq(q, 1, l) \in Seq(S) /\ Len(SubSeq(q, 1, l)) = l
             /\ \A j \in 1..l : SubSeq(q, 1, l)[j] = q[j]
  OBVIOUS
<1>4. /\ frames' \in Seq(FramesOver(Len(heap'))) /\ Len(frames') = BaseOf(k)
      /\ \A j \in 1..BaseOf(k) : frames'[j] = frames[j]
  <2>1. BaseOf(k) \in 0..Len(frames)
    BY <1>0
  <2> QED BY <1>1, <1>2, <1>3, <2>1
<1>5. /\ machines' \in Seq(MachinesOver(Len(heap'))) /\ Len(machines') = k
      /\ \A j \in 1..k : machines'[j] = machines[j]
  BY <1>1, <1>2, <1>3
<1>6. \A j \in 0..k : BaseOf(j)' = BaseOf(j)
  BY <1>0, <1>5 DEF BaseOf
<1>7. Base' = BaseOf(k)
  BY <1>0, <1>5, <1>6 DEF Base
<1>8. MachinesOK'
  <2>1. \A i, j \in 0..k : i < j => BaseOf(i) < BaseOf(j)
    <3>1. 0..k \subseteq 0..Len(machines)
      BY <1>0
    <3> QED BY <3>1 DEF TypeOK, MachinesOK
  <2>2. \A i, j \in 0..k : i < j => BaseOf(i)' < BaseOf(j)'
    BY <1>6, <2>1
  <2>3. Base' <= Len(frames')
    BY <1>0, <1>4, <1>7
  <2>4. \A j \in 1..k : machines'[j].stmt = NoStmt => machines'[j].elems = <<>>
    <3>1. \A j \in 1..k : j \in DOMAIN machines
      BY <1>0, <1>2
    <3> QED BY <1>5, <3>1 DEF TypeOK, MachinesOK
  <2> QED BY <1>5, <2>2, <2>3, <2>4 DEF MachinesOK
<1>9. k = 0 => frames' = <<>>
  BY <1>4 DEF BaseOf
<1>10. \A j \in DOMAIN frames' : j \in DOMAIN frames /\ j <= BaseOf(k) /\ frames'[j] = frames[j]
  <2>1. DOMAIN frames' = 1..BaseOf(k) /\ DOMAIN frames = 1..Len(frames)
    BY <1>2, <1>4
  <2> QED BY <1>0, <1>4, <2>1
<1> QED BY <1>1, <1>4, <1>8, <1>9, <1>10

(* A statement that fails ends the program, or the inline expression that  *)
(* it was evaluated in: only terms below those calls are left.             *)
LEMMA FailAbandons ==
  ASSUME TypeOK, mode = "running", NEW error, NEW pl, Fail(error, pl)
  PROVE  /\ plan' = pl
         /\ \E k \in 0..Len(machines) : Abandon(k) /\ (mode' = "idle" => k = 0)
         /\ mode' \in {"running", "idle"}
<1>1. 0 \in 0..Len(machines)
  BY Bases
<1>2. Survivors \subseteq 0..Len(machines)
  BY DEF Survivors
<1> QED BY <1>1, <1>2 DEF Fail

(* A statement that fails leaves what goes on well formed.                 *)
LEMMA FailType ==
  ASSUME TypeOK, mode = "running", heap' \in Seq(Cell), Len(heap) <= Len(heap'),
         NEW error, NEW pl \in Seq(StepsOver(Len(heap'))), Fail(error, pl),
         begun' \in 0..MaxBegun, cursor' = cursor
  PROVE  PlanOK' /\ EvalOK' /\ MachinesOK'
<1>1. PICK k \in 0..Len(machines) : Abandon(k) /\ (mode' = "idle" => k = 0)
  BY FailAbandons
<1>2. mode' \in {"running", "idle"} /\ plan' = pl
  BY FailAbandons
<1>3. PlanOK'
  BY <1>2 DEF PlanOK, TypeOK
<1>4. /\ stmt' = NoStmt /\ elems' = <<>> /\ frames' \in Seq(FramesOver(Len(heap')))
      /\ (k = 0 => frames' = <<>>) /\ MachinesOK'
  BY <1>1, AbandonType
<1>5. EvalOK'
  BY <1>1, <1>2, <1>4 DEF EvalOK
<1> QED BY <1>3, <1>4, <1>5

(* A statement that completes binds ans and leaves the terms as they are.  *)
LEMMA DoneType ==
  ASSUME TypeOK, mode = "running", heap' \in Seq(Cell), Len(heap) <= Len(heap'),
         NEW syms, NEW r \in 0..Len(heap'), Done(syms, r),
         DOMAIN syms \subseteq Names \cup {Ans}, Ans \in DOMAIN syms,
         \A n \in DOMAIN syms : syms[n] \in 0..Len(heap')
  PROVE  /\ EvalOK' /\ MachinesOK'
         /\ mode' = "running" /\ cursor' = cursor
         /\ DOMAIN symbols' \subseteq Names \cup {Ans} /\ Ans \in DOMAIN symbols'
         /\ \A n \in DOMAIN symbols' : symbols'[n] \in 0..Len(heap')
<1>1. /\ stmt' = NoStmt /\ frames' = frames /\ elems' = <<>> /\ mode' = mode
      /\ begun' = begun /\ cursor' = cursor /\ machines' = machines
      /\ \/ symbols' = syms
         \/ symbols' = [m \in DOMAIN syms \cup {Ans} |-> IF m = Ans THEN r ELSE syms[m]]
  BY DEF Done, Bind
<1>2. Len(heap') \in Nat /\ frames \in Seq(FramesOver(Len(heap')))
  BY HeapGrows
<1>3. EvalOK'
  BY <1>1, <1>2 DEF EvalOK, TypeOK
<1>4. MachinesOK'
  BY <1>1, Bases, MachinesKept
<1> QED BY <1>1, <1>3, <1>4

(* An operand evaluated inside the term activations fs.                    *)
LEMMA OperandType ==
  ASSUME TypeOK, InTerm,
         NEW h \in Seq(Cell), Len(heap) <= Len(h), NEW r \in 0..Len(h),
         NEW fs \in Seq(FramesOver(Len(heap))), Len(fs) > Base,
         NEW pl \in Seq(StepsOver(Len(heap))),
         Operand(h, r, fs, pl)
  PROVE  TypeOK'
<1> DEFINE f == Last(fs)
           c == Len(h) + 1
           step == Step("add", <<f.lhs, r>>, c)
<1>0. /\ Len(heap) \in Nat /\ Len(h) \in Nat /\ c \in Nat
      /\ f \in FramesOver(Len(heap)) /\ Front(fs) \in Seq(FramesOver(Len(heap)))
      /\ Len(Front(fs)) = Len(fs) - 1 /\ Base \in Nat /\ Len(fs) \in Nat
      /\ mode = "running" /\ Len(heap) <= c
  <2>1. Len(heap) \in Nat /\ Len(h) \in Nat /\ c \in Nat /\ Len(heap) <= c /\ Base \in Nat
    BY Bases DEF TypeOK, HeapOK
  <2>2. fs # <<>>
    BY <2>1
  <2>3. f \in FramesOver(Len(heap)) /\ Front(fs) \in Seq(FramesOver(Len(heap)))
    BY <2>2, Parts
  <2>4. Len(Front(fs)) = Len(fs) - 1
    BY <2>2, Parts
  <2> QED BY <2>1, <2>3, <2>4 DEF InTerm
<1>1. CASE f.lhs = NoValue
  <2>1. /\ heap' = h /\ plan' = pl /\ frames' = Append(Front(fs), [f EXCEPT !.lhs = r])
        /\ UNCHANGED <<symbols, mutables, begun, mode, stmt, elems, machines, cursor, result>>
    BY <1>1 DEF Operand
  <2>2. [f EXCEPT !.lhs = r] \in FramesOver(Len(h))
    <3>1. f \in FramesOver(Len(h))
      BY <1>0, StepsGrow
    <3>2. r \in -1..Len(h)
      BY <1>0
    <3>3. ASSUME NEW g \in FramesOver(Len(h)) PROVE [g EXCEPT !.lhs = r] \in FramesOver(Len(h))
      BY <3>2 DEF FramesOver
    <3> QED BY <3>1, <3>3
  <2>3. frames' \in Seq(FramesOver(Len(h))) /\ Len(frames') = Len(fs)
    <3>1. Front(fs) \in Seq(FramesOver(Len(h)))
      BY <1>0, StepsGrow
    <3> QED BY <1>0, <2>1, <2>2, <3>1
  <2>4. plan' \in Seq(StepsOver(Len(h)))
    BY <1>0, <2>1, StepsGrow
  <2>5. TablesOK'
    BY <1>0, <2>1, HeapGrows, HandleNext DEF TablesOK, TypeOK
  <2>6. PlanOK' /\ HeapOK'
    BY <1>0, <2>1, <2>4 DEF PlanOK, HeapOK, TypeOK
  <2>7. elems' \in Seq(Handle')
    BY <1>0, <2>1, HeapGrows, HandleNext
  <2>8. MachinesOK' /\ Base' = Base
    BY <1>0, <2>1, <2>3, MachinesKept DEF Base, BaseOf
  <2>9. EvalOK'
    BY <1>0, <2>1, <2>3, <2>7, <2>8 DEF EvalOK, TypeOK
  <2> QED BY <2>5, <2>6, <2>8, <2>9 DEF TypeOK
<1>2. CASE f.lhs # NoValue /\ IsKind(h, f.lhs, "f64") /\ IsKind(h, r, "f64")
  <2>1. /\ heap' = Compiled(h, "f64", step) /\ plan' = pl
        /\ frames' = Append(Front(fs), [lhs |-> c, steps |-> Append(f.steps, step)])
        /\ UNCHANGED <<symbols, mutables, begun, mode, stmt, elems, machines, cursor, result>>
    BY <1>2 DEF Operand
  <2>2. step \in AddSteps(c) /\ step \in StepsOver(c)
    BY <1>0, <1>2 DEF Step, AddSteps, StepsOver, IsKind
  <2>3. heap' \in Seq(Cell) /\ Len(heap') = c
    BY <1>0, <2>1, <2>2, CompiledType DEF Kinds
  <2>4. [lhs |-> c, steps |-> Append(f.steps, step)] \in FramesOver(c)
    <3>1. f.steps \in Seq(AddSteps(c))
      BY <1>0, StepsGrow DEF FramesOver
    <3> QED BY <3>1, <2>2, <1>0 DEF FramesOver
  <2>5. frames' \in Seq(FramesOver(c)) /\ Len(frames') = Len(fs)
    <3>1. Front(fs) \in Seq(FramesOver(c))
      BY <1>0, StepsGrow
    <3> QED BY <1>0, <3>1, <2>1, <2>4
  <2>6. plan' \in Seq(StepsOver(c))
    BY <1>0, <2>1, StepsGrow
  <2> HIDE DEF c
  <2>6a. /\ elems \in Seq(0..c)
         /\ \A n \in DOMAIN symbols : symbols[n] \in 0..c
         /\ \A n \in DOMAIN mutables : mutables[n] \in 0..c
    BY <1>0, HeapGrows
  <2>6b. Handle' = 0..c
    BY <2>3, HandleNext
  <2>7. TablesOK'
    BY <2>1, <2>6a, <2>6b DEF TablesOK, TypeOK
  <2>8. PlanOK' /\ HeapOK'
    BY <1>0, <2>1, <2>3, <2>6 DEF PlanOK, HeapOK, TypeOK
  <2>9. elems' \in Seq(Handle')
    BY <2>1, <2>6a, <2>6b
  <2>10. MachinesOK' /\ Base' = Base
    BY <1>0, <2>1, <2>3, <2>5, MachinesKept DEF Base, BaseOf
  <2>11. EvalOK'
    BY <1>0, <2>1, <2>3, <2>5, <2>9, <2>10 DEF EvalOK, TypeOK
  <2> QED BY <2>7, <2>8, <2>10, <2>11 DEF TypeOK
<1>3. CASE f.lhs # NoValue /\ ~(IsKind(h, f.lhs, "f64") /\ IsKind(h, r, "f64"))
  <2>1. /\ heap' = h /\ Fail("UnhandledFunctionArgumentKind", pl)
        /\ UNCHANGED <<symbols, mutables, begun, cursor>>
    BY <1>3 DEF Operand
  <2>2. pl \in Seq(StepsOver(Len(heap')))
    BY <1>0, <2>1, StepsGrow
  <2>3. PlanOK' /\ EvalOK' /\ MachinesOK'
    BY <1>0, <2>1, <2>2, FailType DEF EvalOK, TypeOK
  <2>4. TablesOK' /\ HeapOK'
    BY <1>0, <2>1, HeapGrows, HandleNext DEF TablesOK, HeapOK, TypeOK
  <2> QED BY <2>3, <2>4 DEF TypeOK
<1> QED BY <1>1, <1>2, <1>3

(* A failing statement that touches neither heap nor tables.               *)
LEMMA FailUnchanged ==
  ASSUME TypeOK, mode = "running", NEW error, Fail(error, plan),
         UNCHANGED <<heap, symbols, mutables, begun, cursor>>
  PROVE  TypeOK'
<1>1. /\ heap' \in Seq(Cell) /\ plan \in Seq(StepsOver(Len(heap'))) /\ begun' \in 0..MaxBegun
      /\ Len(heap) <= Len(heap')
  BY DEF TypeOK, HeapOK, PlanOK, EvalOK
<1>2. PlanOK' /\ EvalOK' /\ MachinesOK'
  BY <1>1, FailType
<1> QED BY <1>2 DEF TypeOK, HeapOK, TablesOK

(* A new term is opened, or the value of one changed, in a state that      *)
(* differs in nothing else but the statement, its values and the calls.    *)
LEMMA TermsType ==
  ASSUME TypeOK, UNCHANGED <<heap, symbols, mutables, plan, begun, mode, cursor>>,
         mode = "running", frames' \in Seq(FramesOver(Len(heap))),
         stmt' \in Evaluated \cup {NoStmt}, elems' \in Seq(Handle), MachinesOK',
         IF stmt' = NoStmt THEN elems' = <<>> ELSE Len(frames') > Base' \/ elems' # <<>>
  PROVE  TypeOK'
BY DEF TypeOK, HeapOK, TablesOK, PlanOK, EvalOK

(* Binding the name of a define.                                           *)
LEMMA SaveSymbolType ==
  ASSUME TypeOK, mode = "running", stmt \in Evaluated, stmt.op = "define",
         heap' \in Seq(Cell), Len(heap) <= Len(heap'), NEW r \in 0..Len(heap'),
         SaveSymbol(stmt.names[1], r, stmt.mutable)
  PROVE  TablesOK' /\ EvalOK' /\ MachinesOK' /\ mode' = "running" /\ cursor' = cursor
<1> DEFINE n == stmt.names[1]
           syms == Bind(symbols, n, r)
<1>0. Len(heap') \in Nat /\ Handle' = 0..Len(heap') /\ n \in Names
  BY StatementNames, HandleNext
<1>1. /\ \A m \in DOMAIN symbols : symbols[m] \in 0..Len(heap')
      /\ \A m \in DOMAIN mutables : mutables[m] \in 0..Len(heap')
  BY <1>0, HeapGrows
<1>2. /\ DOMAIN syms \subseteq Names \cup {Ans} /\ Ans \in DOMAIN syms
      /\ \A m \in DOMAIN syms : syms[m] \in 0..Len(heap')
  BY <1>0, <1>1 DEF Bind, TypeOK, TablesOK
<1>3. Done(syms, r)
  BY DEF SaveSymbol
<1>4. /\ EvalOK' /\ MachinesOK' /\ mode' = "running" /\ cursor' = cursor
      /\ DOMAIN symbols' \subseteq Names \cup {Ans} /\ Ans \in DOMAIN symbols'
      /\ \A m \in DOMAIN symbols' : symbols'[m] \in 0..Len(heap')
  BY <1>2, <1>3, DoneType
<1>5. DOMAIN mutables' \subseteq Names /\ \A m \in DOMAIN mutables' : mutables'[m] \in 0..Len(heap')
  BY <1>0, <1>1 DEF SaveSymbol, Bind, TypeOK, TablesOK
<1> QED BY <1>0, <1>4, <1>5 DEF TablesOK

(* What is known of a statement whose expressions have been evaluated.     *)
LEMMA ReadyStatement ==
  ASSUME TypeOK, NEW op, Ready(op), op # "none"
  PROVE  /\ mode = "running" /\ stmt \in Evaluated /\ stmt.op = op
         /\ elems \in Seq(0..Len(heap)) /\ elems # <<>> /\ elems[1] \in 0..Len(heap)
<1>1. mode = "running" /\ stmt.op = op /\ Len(frames) = Base
  BY DEF Ready
<1>2. stmt # NoStmt
  BY <1>1 DEF NoStmt, Statement
<1>3. stmt \in Evaluated /\ elems \in Seq(0..Len(heap)) /\ elems # <<>>
  BY <1>1, <1>2, Bases DEF TypeOK, EvalOK
<1> QED BY <1>1, <1>3

(* The initial state.                                                      *)
LEMMA InitType == Init => TypeOK
BY ConstantsAssumption
   DEF Init, TypeOK, HeapOK, TablesOK, PlanOK, EvalOK, MachinesOK, Base, BaseOf, NoCursor

(* A machine is called, its expressions evaluated and its value returned.  *)
LEMMA MachineType ==
  ASSUME TypeOK,
         \/ CallMachine \/ MachineExpression \/ MachineFails
         \/ \E r \in Handle : Return(r)
  PROVE  TypeOK'
<1>0. /\ Len(heap) \in Nat /\ Handle = 0..Len(heap) /\ heap \in Seq(Cell)
      /\ frames \in Seq(FramesOver(Len(heap))) /\ machines \in Seq(MachinesOver(Len(heap)))
      /\ Len(frames) \in Nat /\ Len(machines) \in Nat /\ Base \in Nat
      /\ elems \in Seq(0..Len(heap)) /\ stmt \in Evaluated \cup {NoStmt}
  BY Bases DEF TypeOK, HeapOK, EvalOK, MachinesOK
<1>1. CASE CallMachine
  <2> DEFINE new == [stmt |-> IF stmt = NoStmt THEN NoStmt ELSE Called(stmt),
                     elems |-> elems, base |-> Len(frames), env |-> Env]
  <2>0. PICK n \in Nat : n = Len(machines)
    BY <1>0
  <2>1. /\ mode = "running" /\ Len(frames) > Base /\ machines' = Append(machines, new)
        /\ stmt' = NoStmt /\ elems' = <<>> /\ frames' = frames
        /\ UNCHANGED <<heap, symbols, mutables, plan, begun, mode, cursor>>
    BY <1>1 DEF CallMachine, InTerm
  <2>1a. stmt = NoStmt => elems = <<>>
    BY DEF TypeOK, EvalOK
  <2>1b. Called(stmt) = NoStmt => stmt = NoStmt
    BY <1>0, StatementNames DEF Called, NoStmt, Statement
  <2>2. Env \subseteq 0..Len(heap)
    <3>1. ASSUME machines # <<>> PROVE Last(machines) \in MachinesOver(Len(heap))
      BY <1>0, <3>1, Parts
    <3> QED BY <3>1 DEF Env, MachinesOver
  <2>3. new \in MachinesOver(Len(heap))
    BY <1>0, <2>2, CalledMarked DEF MachinesOver
  <2>3a. new.stmt = NoStmt => new.elems = <<>>
    BY <2>1a, <2>1b
  <2>3b. new.base = Len(frames)
    OBVIOUS
  <2> HIDE DEF new
  <2>4. /\ machines' \in Seq(MachinesOver(Len(heap))) /\ Len(machines') = n + 1
        /\ machines'[n + 1] = new /\ \A j \in 1..n : machines'[j] = machines[j]
    BY <1>0, <2>0, <2>1, <2>3
  <2>5. \A j \in 0..n : BaseOf(j)' = BaseOf(j)
    BY <2>4 DEF BaseOf
  <2>6. BaseOf(n + 1)' = Len(frames)
    BY <2>3b, <2>4 DEF BaseOf
  <2>7. Base' = Len(frames)
    BY <2>4, <2>6 DEF Base
  <2>8. ASSUME NEW i \in 0..(n + 1), NEW j \in 0..(n + 1), i < j PROVE BaseOf(i)' < BaseOf(j)'
    <3>1. CASE j = n + 1
      <4>1. i \in 0..n
        BY <1>0, <2>8, <3>1
      <4>2. BaseOf(i) \in Nat /\ BaseOf(i) <= Base
        BY <2>0, <4>1, Bases
      <4> QED BY <1>0, <2>1, <2>5, <2>6, <3>1, <4>1, <4>2
    <3>2. CASE j # n + 1
      <4>1. i \in 0..n /\ j \in 0..n
        BY <1>0, <2>8, <3>2
      <4> QED BY <2>0, <2>5, <2>8, <4>1 DEF TypeOK, MachinesOK
    <3> QED BY <3>1, <3>2
  <2>8a. ASSUME NEW k \in 1..(n + 1), machines'[k].stmt = NoStmt PROVE machines'[k].elems = <<>>
    <3>1. k = n + 1 \/ (k \in 1..n /\ k \in DOMAIN machines)
      BY <1>0, <2>0
    <3> QED BY <2>3a, <2>4, <2>8a, <3>1 DEF TypeOK, MachinesOK
  <2>9. MachinesOK'
    BY <2>1, <2>4, <2>7, <2>8, <2>8a, <1>0 DEF MachinesOK
  <2>10. /\ stmt' \in Evaluated \cup {NoStmt} /\ elems' \in Seq(Handle)
         /\ frames' \in Seq(FramesOver(Len(heap)))
    BY <1>0, <2>1
  <2> QED BY <2>1, <2>9, <2>10, TermsType
<1>2. CASE MachineExpression
  <2>1. EmptyFrame \in FramesOver(Len(heap))
    BY <1>0 DEF EmptyFrame, FramesOver
  <2>2. /\ mode = "running" /\ stmt = NoStmt /\ frames' = Append(frames, EmptyFrame)
        /\ UNCHANGED <<heap, symbols, mutables, plan, begun, mode, stmt, elems, machines, cursor>>
    BY <1>2 DEF MachineExpression, Between
  <2>3. frames' \in Seq(FramesOver(Len(heap))) /\ Len(frames') = Len(frames) + 1
    BY <1>0, <2>1, <2>2
  <2>4. MachinesOK' /\ elems = <<>>
    BY <1>0, <2>2, <2>3, Bases, MachinesKept DEF TypeOK, EvalOK
  <2> QED BY <1>0, <2>2, <2>3, <2>4, TermsType
<1>3. CASE MachineFails
  BY <1>3, FailUnchanged DEF MachineFails, Between
<1>4. ASSUME NEW r \in Handle, Return(r) PROVE TypeOK'
  <2>0. PICK n \in Nat : n = Len(machines)
    BY <1>0
  <2>1. /\ mode = "running" /\ machines # <<>> /\ Len(frames) = Base
        /\ stmt' = Last(machines).stmt /\ elems' = Last(machines).elems
        /\ machines' = Front(machines) /\ frames' = [frames EXCEPT ![Base].lhs = r]
        /\ UNCHANGED <<heap, symbols, mutables, plan, begun, mode, cursor>>
    BY <1>4 DEF Return, Between
  <2>2. Last(machines) \in MachinesOver(Len(heap)) /\ n > 0
    BY <1>0, <2>0, <2>1, Parts
  <2>3. /\ Front(machines) \in Seq(MachinesOver(Len(heap))) /\ Len(Front(machines)) = n - 1
        /\ \A j \in 1..(n - 1) : Front(machines)[j] = machines[j]
    BY <1>0, <2>0, <2>1, Parts
  <2>4. stmt' \in Evaluated \cup {NoStmt} /\ elems' \in Seq(Handle)
    BY <1>0, <2>1, <2>2 DEF MachinesOver, Evaluated
  <2>5. frames' \in Seq(FramesOver(Len(heap))) /\ Len(frames') = Len(frames)
    <3>1. ASSUME NEW g \in FramesOver(Len(heap)) PROVE [g EXCEPT !.lhs = r] \in FramesOver(Len(heap))
      <4>1. r \in -1..Len(heap)
        BY <1>0
      <4> QED BY <4>1 DEF FramesOver
    <3>2. frames' = [frames EXCEPT ![Base] = [frames[Base] EXCEPT !.lhs = r]]
      BY <2>1
    <3>3. Base \in DOMAIN frames
      BY <1>0, <2>1, Bases
    <3>4. [frames[Base] EXCEPT !.lhs = r] \in FramesOver(Len(heap))
      BY <1>0, <3>1, <3>3
    <3> QED BY <1>0, <3>2, <3>3, <3>4
  <2>6. \A j \in 0..(n - 1) : BaseOf(j)' = BaseOf(j)
    BY <2>1, <2>3 DEF BaseOf
  <2>7. Base' = BaseOf(n - 1) /\ BaseOf(n - 1) < Base
    <3>1. n - 1 \in 0..n /\ n \in 0..n /\ n - 1 < n /\ n - 1 \in 0..(n - 1)
      BY <1>0, <2>2
    <3>2. Base' = BaseOf(n - 1)'
      BY <2>1, <2>3 DEF Base
    <3>3. BaseOf(n - 1) < BaseOf(n)
      BY <2>0, <3>1 DEF TypeOK, MachinesOK
    <3> QED BY <2>0, <2>6, <3>1, <3>2, <3>3 DEF Base
  <2>8. \A i, j \in 0..(n - 1) : i < j => BaseOf(i)' < BaseOf(j)'
    <3>1. 0..(n - 1) \subseteq 0..n
      BY <1>0
    <3>2. \A i, j \in 0..(n - 1) : i < j => BaseOf(i) < BaseOf(j)
      BY <2>0, <3>1 DEF TypeOK, MachinesOK
    <3> QED BY <2>6, <3>2
  <2>8a. \A k \in 1..(n - 1) : machines'[k].stmt = NoStmt => machines'[k].elems = <<>>
    <3>1. \A k \in 1..(n - 1) : k \in DOMAIN machines
      BY <1>0, <2>0
    <3> QED BY <2>1, <2>3, <3>1 DEF TypeOK, MachinesOK
  <2>8b. stmt' = NoStmt => elems' = <<>>
    <3>1. n \in DOMAIN machines /\ Last(machines) = machines[n]
      BY <1>0, <2>0, <2>1, Parts
    <3> QED BY <2>1, <3>1 DEF TypeOK, MachinesOK
  <2>9. BaseOf(n - 1) \in Nat
    BY <2>0, <2>2, Bases
  <2>10. MachinesOK' /\ Len(frames') > Base'
    BY <1>0, <2>1, <2>3, <2>5, <2>7, <2>8, <2>8a, <2>9 DEF MachinesOK
  <2> QED BY <2>1, <2>4, <2>5, <2>8b, <2>10, TermsType
<1> QED BY <1>1, <1>2, <1>3, <1>4

(* Every action keeps the state well formed.                               *)
LEMMA NextType == TypeOK /\ [Next]_vars => TypeOK'
<1> SUFFICES ASSUME TypeOK, [Next]_vars PROVE TypeOK'
  OBVIOUS
<1>0. /\ Len(heap) \in Nat /\ Handle = 0..Len(heap) /\ heap \in Seq(Cell)
      /\ frames \in Seq(FramesOver(Len(heap))) /\ plan \in Seq(StepsOver(Len(heap)))
      /\ Base \in Nat /\ Len(frames) \in Nat
  BY Bases DEF TypeOK, HeapOK, EvalOK, PlanOK
<1>a. ASSUME UNCHANGED <<heap, symbols, mutables, stmt, frames, elems, machines, begun>>,
             PlanOK', mode' \in {"idle", "running", "stepping"},
             mode' # "running" => frames = <<>> /\ stmt = NoStmt
      PROVE  TypeOK'
  BY <1>a DEF TypeOK, HeapOK, TablesOK, EvalOK, MachinesOK, Base, BaseOf
<1>1. CASE Interpret
  <2>1. PlanOK' /\ mode' = "running"
    BY <1>1 DEF Interpret, TypeOK, PlanOK
  <2> QED BY <1>1, <1>a, <2>1 DEF Interpret
<1>2. CASE EndProgram
  <2>1. PlanOK' /\ mode' = "idle"
    BY <1>2 DEF EndProgram, TypeOK, PlanOK
  <2>2. stmt = NoStmt /\ machines = <<>> /\ Len(frames) = Base
    BY <1>2 DEF EndProgram, Between
  <2>3. frames = <<>>
    BY <1>0, <2>2 DEF Base, BaseOf
  <2> QED BY <1>2, <1>a, <2>1, <2>2, <2>3 DEF EndProgram
<1>3. CASE Panic
  <2>1. 0 \in 0..Len(machines) /\ Abandon(0) /\ mode' = "idle"
        /\ UNCHANGED <<heap, symbols, mutables, plan, begun, cursor>>
    BY <1>3, Bases DEF Panic
  <2>2. stmt' = NoStmt /\ elems' = <<>> /\ frames' = <<>> /\ MachinesOK'
    BY <1>0, <2>1, AbandonType
  <2> QED BY <2>1, <2>2 DEF TypeOK, HeapOK, TablesOK, PlanOK, EvalOK
<1>4. ASSUME NEW s \in Statements, BeginStatement(s) PROVE TypeOK'
  <2>1. /\ begun' \in 0..MaxBegun /\ UNCHANGED <<heap, symbols, mutables, cursor>>
        /\ mode = "running" /\ Len(frames) = Base
    BY <1>4, ConstantsAssumption DEF BeginStatement, Between, TypeOK, EvalOK
  <2>2. HeapOK' /\ TablesOK'
    BY <2>1 DEF TypeOK, HeapOK, TablesOK
  <2>3. CASE Fail("VariableAlreadyDefined", plan)
    <3>1. plan \in Seq(StepsOver(Len(heap'))) /\ Len(heap) <= Len(heap') /\ heap' \in Seq(Cell)
      BY <1>0, <2>1
    <3> QED BY <2>1, <2>2, <2>3, <3>1, FailType DEF TypeOK
  <2>4. CASE /\ stmt' = s /\ frames' = Append(frames, EmptyFrame) /\ elems' = <<>>
             /\ UNCHANGED <<plan, mode, machines, result>>
    <3>1. EmptyFrame \in FramesOver(Len(heap))
      BY <1>0 DEF EmptyFrame, FramesOver
    <3>2. frames' \in Seq(FramesOver(Len(heap))) /\ Len(frames') = Len(frames) + 1
      BY <1>0, <2>4, <3>1
    <3>3. MachinesOK' /\ Base' = Base
      BY <1>0, <2>1, <2>4, <3>2, MachinesKept DEF Base, BaseOf
    <3>4. EvalOK'
      BY <1>0, <2>1, <2>4, <3>2, <3>3 DEF TypeOK, EvalOK, Evaluated
    <3> QED BY <2>1, <2>2, <2>4, <3>3, <3>4 DEF TypeOK, PlanOK
  <2> QED BY <1>4, <2>3, <2>4 DEF BeginStatement
<1>5. ASSUME NEW v \in Literals, Literal(v) PROVE TypeOK'
  <2>1. v \in Cell
    BY ConstantsAssumption DEF Literals, Cell, Kinds
  <2>2. /\ Append(heap, v) \in Seq(Cell) /\ Len(heap) <= Len(Append(heap, v))
        /\ Len(heap) + 1 \in 0..Len(Append(heap, v))
    BY <1>0, <2>1
  <2>3. InTerm /\ Len(frames) > Base /\ Operand(Append(heap, v), Len(heap) + 1, frames, plan)
    BY <1>5 DEF Literal, Evaluating, InTerm
  <2> QED BY <1>0, <2>2, <2>3, OperandType
<1>6. ASSUME NEW n \in Names \cup {Ans}, Variable(n) PROVE TypeOK'
  <2>1. InTerm /\ mode = "running" /\ Len(frames) > Base
    BY <1>6 DEF Variable, Evaluating, InTerm
  <2>2. CASE n \in DOMAIN symbols
    <3>1. symbols[n] \in 0..Len(heap) /\ Operand(heap, symbols[n], frames, plan)
      BY <1>0, <1>6, <2>2 DEF Variable, TypeOK, TablesOK
    <3> QED BY <1>0, <2>1, <3>1, OperandType
  <2>3. CASE n \notin DOMAIN symbols
    <3>1. /\ Fail("UndefinedVariable", plan)
          /\ UNCHANGED <<heap, symbols, mutables, begun, cursor>>
      BY <1>6, <2>3 DEF Variable
    <3> QED BY <2>1, <3>1, FailUnchanged
  <2> QED BY <2>2, <2>3
<1>6a. ASSUME NEW r \in Handle, EnvironmentValue(r) PROVE TypeOK'
  <2>1. InTerm /\ Len(frames) > Base /\ Operand(heap, r, frames, plan)
    BY <1>6a DEF EnvironmentValue, Evaluating, InTerm
  <2> QED BY <1>0, <1>6a, <2>1, OperandType
<1>7. ASSUME mode = "running", frames' = Append(frames, EmptyFrame),
             UNCHANGED <<heap, symbols, mutables, plan, begun, mode, stmt, elems, machines, cursor>>
      PROVE  TypeOK'
  <2>1. EmptyFrame \in FramesOver(Len(heap))
    BY <1>0 DEF EmptyFrame, FramesOver
  <2>2. frames' \in Seq(FramesOver(Len(heap))) /\ Len(frames') = Len(frames) + 1
    BY <1>0, <1>7, <2>1
  <2>3. MachinesOK' /\ Base' = Base
    BY <1>0, <1>7, <2>2, Bases, MachinesKept DEF Base, BaseOf
  <2>4. /\ stmt' \in Evaluated \cup {NoStmt} /\ elems' \in Seq(Handle) /\ Len(frames') > Base'
        /\ stmt' = NoStmt => elems' = <<>>
    BY <1>0, <1>7, <2>2, <2>3, Bases DEF TypeOK, EvalOK
  <2> QED BY <1>7, <2>2, <2>3, <2>4, TermsType
<1>8. CASE CloseTerm
  <2> DEFINE f == Last(frames)
             pl == AppendSteps(plan, f)
  <2>1. InTerm /\ mode = "running" /\ Len(frames) > Base /\ frames # <<>> /\ f.lhs # NoValue
    BY <1>0, <1>8 DEF CloseTerm, InTerm
  <2>2. /\ f \in FramesOver(Len(heap)) /\ Front(frames) \in Seq(FramesOver(Len(heap)))
        /\ Len(Front(frames)) = Len(frames) - 1
    BY <1>0, <2>1, Parts
  <2>3. f.lhs \in 0..Len(heap) /\ f.steps \in Seq(AddSteps(Len(heap)))
    BY <1>0, <2>1, <2>2 DEF FramesOver
  <2>4. pl \in Seq(StepsOver(Len(heap)))
    <3>1. f.steps \in Seq(StepsOver(Len(heap)))
      BY <2>3 DEF StepsOver
    <3> QED BY <1>0, <3>1 DEF AppendSteps
  <2>5. CASE Len(frames) > Base + 1
    <3>1. Len(Front(frames)) > Base
      BY <1>0, <2>2, <2>5
    <3>2. Operand(heap, f.lhs, Front(frames), pl)
      BY <1>8, <2>5 DEF CloseTerm
    <3> HIDE DEF f, pl
    <3>3. Len(heap) <= Len(heap)
      BY <1>0
    <3> QED BY <1>0, <2>1, <2>2, <2>3, <2>4, <3>1, <3>2, <3>3, OperandType
  <2>6. CASE ~(Len(frames) > Base + 1)
    <3>1. /\ plan' = pl /\ frames' = Front(frames)
          /\ UNCHANGED <<heap, symbols, mutables, begun, mode, stmt, cursor, result>>
      BY <1>8, <2>6 DEF CloseTerm
    <3>2. Len(frames') = Base
      BY <1>0, <2>1, <2>2, <2>6, <3>1
    <3> HIDE DEF f, pl
    <3>3. CASE stmt # NoStmt
      <4>1. elems' = Append(elems, f.lhs) /\ machines' = machines
        BY <1>8, <2>6, <3>3 DEF CloseTerm, f
      <4>2. elems' \in Seq(Handle) /\ elems' # <<>>
        BY <1>0, <2>3, <4>1 DEF TypeOK, EvalOK
      <4>3. MachinesOK'
        BY <1>0, <3>1, <3>2, <4>1, MachinesKept
      <4>4. PlanOK'
        BY <2>1, <2>4, <3>1 DEF PlanOK, TypeOK
      <4>5. EvalOK'
        BY <2>1, <2>2, <3>1, <3>3, <4>2 DEF TypeOK, EvalOK
      <4> QED BY <3>1, <4>3, <4>4, <4>5 DEF TypeOK, HeapOK, TablesOK
    <3>4. CASE stmt = NoStmt
      <4>1. /\ machines' = [machines EXCEPT ![Len(machines)].env = @ \cup {f.lhs}]
            /\ elems' = elems
        BY <1>8, <2>6, <3>4 DEF CloseTerm, f
      <4>2. /\ machines' \in Seq(MachinesOver(Len(heap))) /\ Len(machines') = Len(machines)
            /\ \A k \in 1..Len(machines) : /\ machines'[k].base = machines[k].base
                                            /\ machines'[k].stmt = machines[k].stmt
                                            /\ machines'[k].elems = machines[k].elems
        <5>1. ASSUME NEW m \in MachinesOver(Len(heap))
              PROVE  /\ [m EXCEPT !.env = @ \cup {f.lhs}] \in MachinesOver(Len(heap))
                     /\ [m EXCEPT !.env = @ \cup {f.lhs}].base = m.base
                    /\ [m EXCEPT !.env = @ \cup {f.lhs}].stmt = m.stmt
                    /\ [m EXCEPT !.env = @ \cup {f.lhs}].elems = m.elems
          BY <2>3 DEF MachinesOver
        <5>2. machines \in Seq(MachinesOver(Len(heap)))
          BY DEF TypeOK, MachinesOK
        <5>3. CASE machines = <<>>
          <6>1. machines' = machines
            BY <4>1, <5>3
          <6> QED BY <5>2, <6>1
        <5>4. CASE machines # <<>>
          <6>1. PICK n \in DOMAIN machines : n = Len(machines)
            BY <5>2, <5>4, Parts
          <6>2. PICK m \in MachinesOver(Len(heap)) : m = machines[n]
            BY <5>2, <6>1
          <6>3. machines' = [machines EXCEPT ![n] = [m EXCEPT !.env = @ \cup {f.lhs}]]
            BY <4>1, <6>1, <6>2
          <6>4. machines'[n] = [m EXCEPT !.env = @ \cup {f.lhs}] /\ DOMAIN machines' = DOMAIN machines
            BY <6>3
          <6>5. \A k \in DOMAIN machines : k # n => machines'[k] = machines[k]
            BY <6>3
          <6>6. \A k \in DOMAIN machines : machines'[k] \in MachinesOver(Len(heap))
            BY <5>1, <5>2, <6>2, <6>4, <6>5
          <6>7. machines' \in Seq(MachinesOver(Len(heap))) /\ Len(machines') = Len(machines)
            <7>1. ASSUME NEW S, NEW q \in Seq(S), NEW i \in DOMAIN q, NEW v \in S
                  PROVE  [q EXCEPT ![i] = v] \in Seq(S) /\ Len([q EXCEPT ![i] = v]) = Len(q)
              OBVIOUS
            <7> QED BY <5>1, <5>2, <6>1, <6>3, <7>1
          <6>8. DOMAIN machines = 1..Len(machines)
            BY <5>2
          <6>9. ASSUME NEW k \in 1..Len(machines)
                PROVE  /\ machines'[k].base = machines[k].base
                       /\ machines'[k].stmt = machines[k].stmt
                       /\ machines'[k].elems = machines[k].elems
            BY <5>1, <6>2, <6>4, <6>5, <6>8
          <6> QED BY <6>7, <6>9
        <5> QED BY <5>3, <5>4
      <4>3. \A k \in 0..Len(machines) : BaseOf(k)' = BaseOf(k)
        BY <4>2, Bases DEF BaseOf
      <4>4. Base' = Base
        BY <4>2, <4>3, Bases DEF Base
      <4>5. MachinesOK'
        <5>1. \A j, k \in 0..Len(machines) : j < k => BaseOf(j)' < BaseOf(k)'
          BY <4>3 DEF TypeOK, MachinesOK
        <5>2. \A k \in 1..Len(machines) : machines'[k].stmt = NoStmt => machines'[k].elems = <<>>
          BY <4>2 DEF TypeOK, MachinesOK
        <5>3. DOMAIN machines' = 1..Len(machines) /\ Base' <= Len(frames')
          BY <1>0, <3>2, <4>2, <4>4
        <5> QED BY <3>1, <4>2, <5>1, <5>2, <5>3 DEF MachinesOK
      <4>6. PlanOK'
        BY <2>1, <2>4, <3>1 DEF PlanOK, TypeOK
      <4> QED BY <2>1, <2>2, <3>1, <3>4, <4>1, <4>5, <4>6 DEF TypeOK, HeapOK, TablesOK, EvalOK
    <3> QED BY <3>3, <3>4
  <2> QED BY <2>5, <2>6
<1>9. CASE \/ CallMachine \/ MachineExpression \/ MachineFails
           \/ \E r \in Handle : Return(r)
  BY <1>9, MachineType
<1>10. CASE VariableDefine
  <2>1. /\ Ready("define") /\ SaveSymbol(stmt.names[1], elems[1], stmt.mutable)
        /\ plan' = Append(plan, Step("define", <<>>, elems[1])) /\ heap' = heap
    BY <1>10 DEF VariableDefine
  <2>2. Step("define", <<>>, elems[1]) \in StepsOver(Len(heap))
    BY <1>0, <2>1, ReadyStatement DEF Step, StepsOver
  <2>3. TablesOK' /\ EvalOK' /\ MachinesOK' /\ mode' = "running" /\ cursor' = cursor
    BY <1>0, <2>1, ReadyStatement, SaveSymbolType
  <2> QED BY <2>1, <2>2, <2>3 DEF TypeOK, HeapOK, PlanOK
<1>11. CASE VariableDefineKind
  <2> DEFINE r == elems[1]
             c == Len(heap) + 1
             convert == Step("convert", <<r>>, c)
  <2>1. Ready("define") /\ stmt.kind # "any"
    BY <1>11 DEF VariableDefineKind
  <2>2. CASE IsKind(heap, r, stmt.kind)
    <3>1. /\ heap' = Compiled(heap, stmt.kind, convert)
          /\ SaveSymbol(stmt.names[1], c, stmt.mutable)
          /\ plan' = plan \o <<convert, Step("define", <<>>, c)>>
      BY <1>11, <2>2 DEF VariableDefineKind
    <3>2. convert \in StepsOver(c) /\ Step("define", <<>>, c) \in StepsOver(c)
      BY <1>0, <2>2 DEF Step, StepsOver, IsKind
    <3>3. heap' \in Seq(Cell) /\ Len(heap') = c
      BY <1>0, <2>1, <3>1, <3>2, ReadyStatement, StatementNames, CompiledType
    <3>4. TablesOK' /\ EvalOK' /\ MachinesOK' /\ mode' = "running" /\ cursor' = cursor
      BY <1>0, <2>1, <3>1, <3>3, ReadyStatement, SaveSymbolType
    <3>5. plan \in Seq(StepsOver(c))
      BY <1>0, HeapGrows
    <3>6. plan' \in Seq(StepsOver(Len(heap')))
      BY <3>1, <3>2, <3>3, <3>5
    <3> QED BY <3>3, <3>4, <3>6 DEF TypeOK, HeapOK, PlanOK
  <2>3. CASE ~IsKind(heap, r, stmt.kind)
    <3>1. Fail("UnsupportedConversion", plan) /\ UNCHANGED <<heap, symbols, mutables, begun, cursor>>
      BY <1>11, <2>3 DEF VariableDefineKind
    <3> QED BY <2>1, <3>1, ReadyStatement, FailUnchanged
  <2> QED BY <2>2, <2>3
<1>12. ASSUME NEW op \in {"assign", "addassign"}, VariableAssign(op) PROVE TypeOK'
  <2> DEFINE n == stmt.names[1]
             r == elems[1]
             sink == mutables[n]
             step == Step(op, <<r>>, sink)
  <2>1. Ready(op) /\ op # "none"
    BY <1>12 DEF VariableAssign
  <2>2. CASE ~(/\ n \in DOMAIN mutables /\ AssignArm(heap, sink, r)
               /\ op = "addassign" => IsKind(heap, sink, "f64"))
    <3>1. PICK error : Fail(error, plan) /\ UNCHANGED <<heap, symbols, mutables, begun, cursor>>
      BY <1>12, <2>2 DEF VariableAssign, GetMutable
    <3> QED BY <2>1, <3>1, ReadyStatement, FailUnchanged
  <2>3. CASE /\ n \in DOMAIN mutables /\ AssignArm(heap, sink, r)
             /\ op = "addassign" => IsKind(heap, sink, "f64")
    <3>1. /\ heap' = Solve(heap, step) /\ plan' = Append(plan, step)
          /\ Done(symbols, sink) /\ mutables' = mutables
      BY <1>12, <2>3 DEF VariableAssign, GetMutable
    <3>2. sink \in 1..Len(heap) /\ r \in 1..Len(heap)
      BY <2>3 DEF AssignArm, Assignable
    <3>3. step \in StepsOver(Len(heap))
      BY <3>2 DEF Step, StepsOver
    <3>4. heap' \in Seq(Cell) /\ Len(heap') = Len(heap)
      BY <1>0, <3>1, <3>3, SolveType
    <3>5. plan' \in Seq(StepsOver(Len(heap')))
      BY <3>1, <3>3, <3>4 DEF TypeOK, PlanOK
    <3>6. /\ DOMAIN symbols \subseteq Names \cup {Ans} /\ Ans \in DOMAIN symbols
          /\ \A m \in DOMAIN symbols : symbols[m] \in 0..Len(heap')
      BY <1>0, <3>4 DEF TypeOK, TablesOK
    <3>7. sink \in 0..Len(heap') /\ mode = "running"
      BY <1>0, <2>1, <3>2, <3>4, ReadyStatement
    <3>8. /\ EvalOK' /\ MachinesOK' /\ mode' = "running" /\ cursor' = cursor
          /\ DOMAIN symbols' \subseteq Names \cup {Ans} /\ Ans \in DOMAIN symbols'
          /\ \A m \in DOMAIN symbols' : symbols'[m] \in 0..Len(heap')
      <4> HIDE DEF sink, step
      <4>1. Len(heap) <= Len(heap')
        BY <1>0, <3>4
      <4> QED BY <3>1, <3>4, <3>6, <3>7, <4>1, DoneType
    <3>9. TablesOK'
      BY <1>0, <3>1, <3>4, <3>8, HandleNext DEF TablesOK, TypeOK
    <3> QED BY <3>4, <3>5, <3>8, <3>9 DEF TypeOK, HeapOK, PlanOK
  <2> QED BY <2>2, <2>3
<1>14. CASE TupleDestructure
  <2> DEFINE new == {stmt.names[i] : i \in Accepted}
             val(n) == elems[CHOOSE i \in Accepted : stmt.names[i] = n]
             insert(f) == [n \in DOMAIN f \cup new |-> IF n \in new THEN val(n) ELSE f[n]]
  <2>1. Ready("destructure") /\ heap' = heap /\ mutables' = insert(mutables)
    BY <1>14 DEF TupleDestructure
  <2>2. Accepted \subseteq 1..2 /\ Accepted \subseteq 1..Len(elems) /\ new \subseteq Names
    <3>1. DOMAIN stmt.names = 1..2 /\ stmt.names[1] \in Names /\ stmt.names[2] \in Names
      BY <2>1, ReadyStatement, StatementNames
    <3>2. \A i \in Accepted : i \in 1..2 /\ i <= Len(elems)
      BY <3>1 DEF Accepted
    <3> QED BY <3>1, <3>2
  <2>3. ASSUME NEW n \in new PROVE val(n) \in 0..Len(heap)
    <3>1. PICK i \in Accepted : stmt.names[i] = n
      OBVIOUS
    <3>2. (CHOOSE j \in Accepted : stmt.names[j] = n) \in Accepted
      BY <3>1
    <3>3. elems \in Seq(0..Len(heap))
      BY <1>0 DEF TypeOK, EvalOK
    <3>4. (CHOOSE j \in Accepted : stmt.names[j] = n) \in 1..Len(elems)
      BY <2>2, <3>2
    <3>5. \A k \in 1..Len(elems) : elems[k] \in 0..Len(heap)
      BY <3>3
    <3> QED BY <3>4, <3>5
  <2>4. /\ DOMAIN insert(symbols) \subseteq Names \cup {Ans} /\ Ans \in DOMAIN insert(symbols)
        /\ \A m \in DOMAIN insert(symbols) : insert(symbols)[m] \in 0..Len(heap)
        /\ DOMAIN insert(mutables) \subseteq Names
        /\ \A m \in DOMAIN insert(mutables) : insert(mutables)[m] \in 0..Len(heap)
    <3> HIDE DEF val, new
    <3> QED BY <1>0, <2>2, <2>3 DEF TypeOK, TablesOK
  <2>5. mode = "running" /\ NonScalar \in 0..Len(heap')
    BY <1>0, <2>1, ReadyStatement
  <2>6. CASE Done(insert(symbols), NonScalar) /\ UNCHANGED plan
    <3> HIDE DEF insert
    <3>1. /\ EvalOK' /\ MachinesOK' /\ mode' = "running" /\ cursor' = cursor
          /\ DOMAIN symbols' \subseteq Names \cup {Ans} /\ Ans \in DOMAIN symbols'
          /\ \A m \in DOMAIN symbols' : symbols'[m] \in 0..Len(heap')
      BY <1>0, <2>1, <2>4, <2>5, <2>6, DoneType
    <3> QED BY <1>0, <2>1, <2>4, <2>6, <3>1 DEF TypeOK, HeapOK, TablesOK, PlanOK
  <2>7. CASE Fail("TupleDestructure", plan) /\ symbols' = insert(symbols) /\ UNCHANGED <<begun, cursor>>
    <3> HIDE DEF insert
    <3>1. /\ heap' \in Seq(Cell) /\ plan \in Seq(StepsOver(Len(heap'))) /\ begun' \in 0..MaxBegun
          /\ Len(heap) <= Len(heap')
      BY <1>0, <2>1, <2>7 DEF TypeOK, EvalOK
    <3>2. PlanOK' /\ EvalOK' /\ MachinesOK'
      BY <2>5, <2>7, <3>1, FailType
    <3> QED BY <1>0, <2>1, <2>4, <2>7, <3>2 DEF TypeOK, HeapOK, TablesOK
  <2> QED BY <1>14, <2>6, <2>7 DEF TupleDestructure
<1>15. CASE FsmDeclare
  <2> DEFINE syms == Bind(symbols, stmt.names[1], elems[1])
  <2>1. /\ Ready("fsm") /\ Done(syms, elems[1])
        /\ UNCHANGED <<heap, mutables, plan>>
    BY <1>15 DEF FsmDeclare
  <2>2. /\ DOMAIN syms \subseteq Names \cup {Ans} /\ Ans \in DOMAIN syms
        /\ \A m \in DOMAIN syms : syms[m] \in 0..Len(heap)
    BY <1>0, <2>1, ReadyStatement, StatementNames DEF Bind, TypeOK, TablesOK
  <2>3. mode = "running" /\ elems[1] \in 0..Len(heap')
    BY <2>1, ReadyStatement
  <2>4. /\ EvalOK' /\ MachinesOK' /\ mode' = "running" /\ cursor' = cursor
        /\ DOMAIN symbols' \subseteq Names \cup {Ans} /\ Ans \in DOMAIN symbols'
        /\ \A m \in DOMAIN symbols' : symbols'[m] \in 0..Len(heap')
    BY <1>0, <2>1, <2>2, <2>3, DoneType
  <2> QED BY <1>0, <2>1, <2>4 DEF TypeOK, HeapOK, TablesOK, PlanOK
<1>16. CASE Expression
  <2>1. Ready("expr") /\ Done(symbols, elems[1]) /\ UNCHANGED <<heap, mutables, plan>>
    BY <1>16 DEF Expression
  <2>2. /\ DOMAIN symbols \subseteq Names \cup {Ans} /\ Ans \in DOMAIN symbols
        /\ \A m \in DOMAIN symbols : symbols[m] \in 0..Len(heap')
        /\ mode = "running" /\ elems[1] \in 0..Len(heap')
    BY <1>0, <2>1, ReadyStatement DEF TypeOK, TablesOK
  <2>4. /\ EvalOK' /\ MachinesOK' /\ mode' = "running" /\ cursor' = cursor
        /\ DOMAIN symbols' \subseteq Names \cup {Ans} /\ Ans \in DOMAIN symbols'
        /\ \A m \in DOMAIN symbols' : symbols'[m] \in 0..Len(heap')
    BY <1>0, <2>1, <2>2, DoneType
  <2> QED BY <1>0, <2>1, <2>4 DEF TypeOK, HeapOK, TablesOK, PlanOK
<1>17. CASE InlineExpression
  <2>1. /\ mode = "running" /\ stmt' = NoStmt /\ elems' = <<>>
        /\ UNCHANGED <<heap, symbols, mutables, plan, begun, mode, frames, machines, cursor>>
    BY <1>17 DEF InlineExpression, Ready
  <2>2. MachinesOK'
    BY <1>0, <2>1, Bases, MachinesKept
  <2> QED BY <1>0, <2>1, <2>2, TermsType
<1>18. ASSUME NEW id \in Nat, NEW count \in Nat, StepPlan(id, count) PROVE TypeOK'
  <2>1. PlanOK'
    BY <1>18 DEF StepPlan, TypeOK, PlanOK
  <2>2. frames = <<>> /\ stmt = NoStmt /\ mode' \in {"idle", "running", "stepping"}
    BY <1>18 DEF StepPlan, TypeOK, EvalOK
  <2> QED BY <1>18, <1>a, <2>1, <2>2 DEF StepPlan
<1>19. CASE SolveStep
  <2>1. /\ mode = "stepping" /\ heap' = Solve(heap, plan[cursor.at])
        /\ UNCHANGED <<symbols, mutables, plan, begun, mode, stmt, frames, elems, machines, result>>
    BY <1>19 DEF SolveStep
  <2>2. cursor.at \in 1..Len(plan) /\ plan \in Seq(StepsOver(Len(heap)))
    BY <2>1 DEF TypeOK, PlanOK
  <2>3. heap' \in Seq(Cell) /\ Len(heap') = Len(heap)
    BY <1>0, <2>1, <2>2, SolveType
  <2>4. PlanOK'
    <3>1. /\ cursor \in [at : Nat, first : Nat, last : Nat, left : Nat]
          /\ cursor.left > 0 /\ cursor.first \in 1..cursor.at
          /\ cursor.at <= cursor.last /\ cursor.last <= Len(plan)
      BY <1>19, <2>1 DEF SolveStep, TypeOK, PlanOK
    <3>2. CASE cursor.at < cursor.last
      <4>1. cursor' = [cursor EXCEPT !.at = @ + 1]
        BY <1>19, <3>2 DEF SolveStep
      <4> QED BY <2>1, <2>2, <2>3, <3>1, <3>2, <4>1 DEF PlanOK
    <3>3. CASE ~(cursor.at < cursor.last)
      <4>1. cursor' = [cursor EXCEPT !.at = cursor.first, !.left = @ - 1]
        BY <1>19, <3>3 DEF SolveStep
      <4>2. /\ cursor'.at = cursor.first /\ cursor'.first = cursor.first
            /\ cursor'.last = cursor.last /\ cursor'.left = cursor.left - 1
        BY <3>1, <4>1
      <4>3. cursor' \in [at : Nat, first : Nat, last : Nat, left : Nat]
        <5>1. cursor.left - 1 \in Nat /\ cursor.first \in Nat
          BY <3>1
        <5>2. ASSUME NEW c \in [at : Nat, first : Nat, last : Nat, left : Nat],
                     NEW a \in Nat, NEW l \in Nat
              PROVE  [c EXCEPT !.at = a, !.left = l] \in [at : Nat, first : Nat, last : Nat, left : Nat]
          OBVIOUS
        <5> QED BY <3>1, <4>1, <5>1, <5>2
      <4>4. cursor.first \in 1..cursor.first /\ cursor.first <= cursor.last
        BY <3>1
      <4> QED BY <2>1, <2>2, <2>3, <3>1, <4>2, <4>3, <4>4 DEF PlanOK
    <3> QED BY <3>2, <3>3
  <2>5. MachinesOK' /\ Base' = Base
    BY <1>0, <2>1, <2>3, Bases, MachinesKept DEF Base, BaseOf
  <2> QED BY <2>1, <2>3, <2>4, <2>5 DEF TypeOK, HeapOK, TablesOK, EvalOK
<1>20. CASE EndStep
  <2>1. PlanOK'
    BY <1>20 DEF EndStep, NoCursor, TypeOK, PlanOK
  <2>2. frames = <<>> /\ stmt = NoStmt /\ mode' = "idle"
    BY <1>20 DEF EndStep, TypeOK, EvalOK
  <2> QED BY <1>20, <1>a, <2>1, <2>2 DEF EndStep
<1>21. CASE Clear
  <2>1. /\ mode = "idle" /\ frames = <<>> /\ stmt = NoStmt
        /\ heap' = <<>> /\ plan' = <<>> /\ begun' = 0
        /\ UNCHANGED <<mode, stmt, frames, elems, machines, cursor>>
        /\ symbols' = [n \in {Ans} |-> NonScalar] /\ mutables' = [n \in {} |-> NonScalar]
    BY <1>21 DEF Clear, TypeOK, EvalOK
  <2>2. machines = <<>>
    <3>1. Len(frames) = 0
      BY <2>1
    <3> QED BY <1>0, <3>1, Bases
  <2>3. HeapOK' /\ TablesOK' /\ PlanOK'
    BY <2>1 DEF TypeOK, HeapOK, TablesOK, PlanOK
  <2>4. elems = <<>>
    BY <2>1 DEF TypeOK, EvalOK
  <2>5. MachinesOK'
    BY <2>1, <2>2 DEF MachinesOK, Base, BaseOf
  <2>6. EvalOK'
    BY <2>1, <2>2, <2>4, ConstantsAssumption DEF EvalOK
  <2> QED BY <2>3, <2>5, <2>6 DEF TypeOK
<1>22. CASE ClearPlan
  <2>1. mode = "idle" /\ plan' = <<>> /\ cursor' = cursor /\ mode' = mode
        /\ UNCHANGED <<heap, symbols, mutables, stmt, frames, elems, machines, begun>>
    BY <1>22 DEF ClearPlan
  <2>2. PlanOK' /\ frames = <<>> /\ stmt = NoStmt
    BY <2>1 DEF TypeOK, PlanOK, EvalOK
  <2> QED BY <1>a, <2>1, <2>2
<1>23. CASE UNCHANGED vars
  BY <1>23 DEF vars, TypeOK, HeapOK, TablesOK, PlanOK, EvalOK, MachinesOK, Base, BaseOf
<1>24. CASE OpenTerm \/ NextElement
  BY <1>7, <1>24 DEF OpenTerm, NextElement, Evaluating, InTerm, Ready
<1> QED
  BY <1>1, <1>2, <1>3, <1>4, <1>5, <1>6, <1>6a, <1>8, <1>9, <1>10, <1>11, <1>12, <1>14,
     <1>15, <1>16, <1>17, <1>18, <1>19, <1>20, <1>21, <1>22, <1>23, <1>24
  DEF Next, Assign, AddAssign

(* Every handle in the symbol table, the plan, the pending terms and the   *)
(* environments of machines stays valid, and step() stays inside the plan, *)
(* whatever programs run, call machines, fail or panic and however the     *)
(* plan is stepped and cleared between them.                               *)
THEOREM TypeCorrect == Spec => []TypeOK
BY InitType, NextType, PTL DEF Spec

-----------------------------------------------------------------------------
(* The plan is at its fixpoint, and assignments join cells of one kind.    *)

(* A heap that has the cells of h and maybe more.                          *)
Extends(h, g) == Len(h) <= Len(g) /\ \A c \in 1..Len(h) : g[c] = h[c]

(* A step that holds still holds when cells are allocated.                 *)
LEMMA HoldsGrow ==
  ASSUME NEW h \in Seq(Cell), NEW g \in Seq(Cell), Extends(h, g),
         NEW s \in StepsOver(Len(h)), Holds(h, s)
  PROVE  Holds(g, s)
<1>1. CASE s \in AddSteps(Len(h))
  <2>1. s.op = "add" /\ s.args[1] \in 1..Len(h) /\ s.args[2] \in 1..Len(h) /\ s.out \in 1..Len(h)
    BY <1>1 DEF AddSteps
  <2> QED BY <2>1 DEF Holds, Extends
<1>2. CASE s \in [op : {"convert", "assign", "addassign"},
                  args : {<<c>> : c \in 1..Len(h)}, out : 1..Len(h)]
  <2>1. s.op # "add" /\ s.args[1] \in 1..Len(h) /\ s.out \in 1..Len(h)
    BY <1>2
  <2> QED BY <2>1 DEF Holds, Extends
<1>3. CASE s \in [op : {"define"}, args : {<<>>}, out : 0..Len(h)]
  BY <1>3 DEF Holds
<1> QED BY <1>1, <1>2, <1>3 DEF StepsOver

(* A function solved into its fresh output cell holds, and allocating it   *)
(* changes no other cell.                                                  *)
LEMMA CompiledHolds ==
  ASSUME NEW h \in Seq(Cell), NEW k \in Kinds, NEW s \in StepsOver(Len(h) + 1),
         s.out = Len(h) + 1,
         \/ s.op = "add" /\ s.args[1] \in 1..Len(h) /\ s.args[2] \in 1..Len(h)
         \/ s.op = "convert" /\ s.args[1] \in 1..Len(h)
  PROVE  Extends(h, Compiled(h, k, s)) /\ Holds(Compiled(h, k, s), s)
<1> DEFINE g == Append(h, [kind |-> k, val |-> 0])
           c == Len(h) + 1
<1>1. /\ Len(g) = c /\ g[c] = [kind |-> k, val |-> 0] /\ \A d \in 1..Len(h) : g[d] = h[d]
      /\ DOMAIN g = 1..c /\ c \in 1..c /\ c \notin 1..Len(h) /\ Len(h) \in Nat
  OBVIOUS
<1>2. PICK v : Solve(g, s) = [g EXCEPT ![c].val = v]
               /\ (s.op = "add" => v = Plus(h[s.args[1]].val, h[s.args[2]].val))
               /\ (s.op = "convert" => v = h[s.args[1]].val)
  <2> HIDE DEF g
  <2> QED BY <1>1 DEF Solve
<1>3. /\ Solve(g, s)[c].val = v /\ \A d \in 1..Len(h) : Solve(g, s)[d] = h[d]
      /\ Len(Solve(g, s)) = c
  <2>1. [g EXCEPT ![c].val = v] = [g EXCEPT ![c] = [g[c] EXCEPT !.val = v]]
    OBVIOUS
  <2>2. [g[c] EXCEPT !.val = v].val = v
    BY <1>1
  <2>3. g \in Seq(Cell)
    BY ConstantsAssumption DEF Cell
  <2>4. Len(Solve(g, s)) = c
    <3> HIDE DEF g
    <3> QED BY <1>1, <2>3, SolveType
  <2> HIDE DEF g
  <2> QED BY <1>1, <1>2, <2>1, <2>2, <2>4
<1> QED BY <1>1, <1>2, <1>3 DEF Compiled, Extends, Holds

(* Solving a step that holds, and assigns nothing, changes nothing.        *)
LEMMA SolveHolds ==
  ASSUME NEW h \in Seq(Cell), NEW s \in StepsOver(Len(h)), ~Mutates(s), Holds(h, s)
  PROVE  Solve(h, s) = h
<1>1. s.op # "assign" /\ s.op # "addassign"
  BY DEF Mutates
<1>2. ASSUME NEW c \in 1..Len(h) PROVE [h EXCEPT ![c].val = h[c].val] = h
  <2>1. [h[c] EXCEPT !.val = h[c].val] = h[c]
    BY CellType DEF Cell
  <2> QED BY <2>1
<1>3. CASE s \in AddSteps(Len(h))
  <2>1. s.op = "add" /\ s.out \in 1..Len(h)
    BY <1>3 DEF AddSteps
  <2>2. Solve(h, s) = [h EXCEPT ![s.out].val = h[s.out].val]
    BY <2>1 DEF Solve, Holds
  <2> QED BY <1>2, <2>1, <2>2
<1>4. CASE s \in [op : {"convert", "assign", "addassign"},
                  args : {<<c>> : c \in 1..Len(h)}, out : 1..Len(h)]
  <2>1. s.op = "convert" /\ s.out \in 1..Len(h)
    BY <1>1, <1>4
  <2>2. Solve(h, s) = [h EXCEPT ![s.out].val = h[s.out].val]
    BY <2>1 DEF Solve, Holds
  <2> QED BY <1>2, <2>1, <2>2
<1>5. CASE s \in [op : {"define"}, args : {<<>>}, out : 0..Len(h)]
  BY <1>5 DEF Solve
<1> QED BY <1>3, <1>4, <1>5 DEF StepsOver

(* Solving a step whose sides have one kind changes no kind, and only the  *)
(* cell the step writes.                                                   *)
LEMMA SolveKinds ==
  ASSUME NEW h \in Seq(Cell), NEW s \in StepsOver(Len(h)),
         s.op = "assign" => h[s.out].kind = h[s.args[1]].kind
  PROVE  /\ \A c \in 1..Len(h) : Solve(h, s)[c].kind = h[c].kind
         /\ \A c \in 1..Len(h) : Solve(h, s)[c] # h[c] => s.out = c /\ s.op # "define"
<1>1. CASE s.op = "define"
  BY <1>1 DEF Solve
<1>2. CASE s.op = "assign"
  <2>1. Solve(h, s) = [h EXCEPT ![s.out] = h[s.args[1]]]
    BY <1>2 DEF Solve
  <2> QED BY <1>2, <2>1
<1>3. CASE s.op \notin {"define", "assign"}
  <2>1. PICK v : Solve(h, s) = [h EXCEPT ![s.out].val = v] \/ Solve(h, s) = h
    BY <1>3 DEF Solve
  <2>2. ASSUME NEW c \in 1..Len(h) PROVE [h[c] EXCEPT !.val = v].kind = h[c].kind
    BY CellType DEF Cell
  <2>3. CASE Solve(h, s) = [h EXCEPT ![s.out].val = v]
    <3>1. ASSUME NEW c \in 1..Len(h)
          PROVE  Solve(h, s)[c] = IF c = s.out THEN [h[c] EXCEPT !.val = v] ELSE h[c]
      BY <2>3
    <3> QED BY <1>3, <2>2, <3>1
  <2> QED BY <1>3, <2>1, <2>3
<1> QED BY <1>1, <1>2, <1>3

(* The pending steps of the term activations fs hold of the heap h.        *)
Pends(fs, h) ==
  \A f \in DOMAIN fs : \A i \in DOMAIN fs[f].steps : Holds(h, fs[f].steps[i])

LEMMA PendsGrow ==
  ASSUME NEW h \in Seq(Cell), NEW g \in Seq(Cell), Extends(h, g),
         NEW fs \in Seq(FramesOver(Len(h))), Pends(fs, h)
  PROVE  Pends(fs, g)
<1> SUFFICES ASSUME NEW f \in DOMAIN fs, NEW i \in DOMAIN fs[f].steps
             PROVE  Holds(g, fs[f].steps[i])
  BY DEF Pends
<1>1. fs[f] \in FramesOver(Len(h))
  OBVIOUS
<1>2. fs[f].steps \in Seq(AddSteps(Len(h)))
  BY <1>1 DEF FramesOver
<1>3. fs[f].steps[i] \in StepsOver(Len(h))
  BY <1>2 DEF StepsOver
<1> QED BY <1>3, HoldsGrow DEF Pends

(* Appending to the plan does not take an assignment out of it.            *)
LEMMA FreeBefore ==
  ASSUME NEW S, plan \in Seq(S), NEW new \in Seq(S), plan' = plan \o new, AssignmentFree'
  PROVE  AssignmentFree
<1>1. ASSUME NEW i \in DOMAIN plan PROVE i \in DOMAIN plan' /\ plan'[i] = plan[i]
  OBVIOUS
<1> QED BY <1>1 DEF AssignmentFree

(* Appending steps that hold, while cells are only allocated.              *)
LEMMA PlanGrows ==
  ASSUME TypeOK, PlanHolds, AssignKinds, heap' \in Seq(Cell), Extends(heap, heap'),
         NEW new \in Seq(StepsOver(Len(heap'))), plan' = plan \o new,
         \A i \in DOMAIN new : (AssignmentFree => Holds(heap', new[i])) /\ ~Mutates(new[i])
  PROVE  PlanHolds' /\ AssignKinds'
<1>1. heap \in Seq(Cell) /\ plan \in Seq(StepsOver(Len(heap))) /\ Len(heap) \in Nat
  BY DEF TypeOK, HeapOK, PlanOK
<1>2. ASSUME NEW i \in DOMAIN plan' PROVE
      \/ i \in DOMAIN plan /\ plan'[i] = plan[i] /\ plan[i] \in StepsOver(Len(heap))
      \/ (AssignmentFree => Holds(heap', plan'[i])) /\ ~Mutates(plan'[i])
  <2>1. DOMAIN plan' = 1..(Len(plan) + Len(new))
    BY <1>1
  <2>2. CASE i <= Len(plan)
    BY <1>1, <2>1, <2>2
  <2>3. CASE i > Len(plan)
    <3>1. plan'[i] = new[i - Len(plan)] /\ i - Len(plan) \in DOMAIN new
      BY <1>1, <2>1, <2>3
    <3> QED BY <3>1
  <2> QED BY <1>1, <2>1, <2>2, <2>3
<1>3. ASSUME NEW i \in DOMAIN plan PROVE i \in DOMAIN plan' /\ plan'[i] = plan[i]
  BY <1>1
<1>4. PlanHolds'
  <2> SUFFICES ASSUME AssignmentFree', NEW i \in DOMAIN plan' PROVE Holds(heap', plan'[i])
    BY DEF PlanHolds
  <2>1. AssignmentFree
    BY <1>3 DEF AssignmentFree
  <2>2. CASE i \in DOMAIN plan /\ plan'[i] = plan[i] /\ plan[i] \in StepsOver(Len(heap))
    BY <1>1, <2>1, <2>2, HoldsGrow DEF PlanHolds
  <2> QED BY <1>2, <2>1, <2>2
<1>5. AssignKinds'
  <2> SUFFICES ASSUME NEW i \in DOMAIN plan', plan'[i].op = "assign"
               PROVE  heap'[plan'[i].out].kind = heap'[plan'[i].args[1]].kind
    BY DEF AssignKinds
  <2>1. i \in DOMAIN plan /\ plan'[i] = plan[i] /\ plan[i] \in StepsOver(Len(heap))
    BY <1>2 DEF Mutates
  <2>2. plan[i].out \in 1..Len(heap) /\ plan[i].args[1] \in 1..Len(heap)
    BY <2>1 DEF StepsOver, AddSteps
  <2> QED BY <2>1, <2>2 DEF AssignKinds, Extends
<1> QED BY <1>4, <1>5

(* The terms that are left have the steps they had, or none.               *)
TermsLeft ==
  \A k \in DOMAIN frames' :
    frames'[k].steps = <<>> \/ (k \in DOMAIN frames /\ frames'[k].steps = frames[k].steps)

(* While cells are only allocated, pending steps go on holding.            *)
LEMMA PendingKept ==
  ASSUME TypeOK, PendingHolds, heap' \in Seq(Cell), Extends(heap, heap'),
         AssignmentFree' => AssignmentFree, TermsLeft
  PROVE  PendingHolds'
<1>1. heap \in Seq(Cell) /\ frames \in Seq(FramesOver(Len(heap)))
  BY DEF TypeOK, HeapOK, EvalOK
<1>2. SUFFICES ASSUME AssignmentFree' PROVE Pends(frames', heap')
  BY DEF PendingHolds, Pends
<1>3. Pends(frames, heap')
  <2>1. Pends(frames, heap)
    BY <1>2 DEF PendingHolds, Pends
  <2> QED BY <1>1, <2>1, PendsGrow
<1>4. ASSUME NEW k \in DOMAIN frames', NEW i \in DOMAIN frames'[k].steps
      PROVE  Holds(heap', frames'[k].steps[i])
  <2>1. frames'[k].steps # <<>>
    OBVIOUS
  <2>2. k \in DOMAIN frames /\ frames'[k].steps = frames[k].steps
    BY <2>1 DEF TermsLeft
  <2> QED BY <1>3, <2>2 DEF Pends
<1> QED BY <1>4 DEF Pends

(* What a failure abandons is terms.                                       *)
LEMMA FailTerms ==
  ASSUME TypeOK, mode = "running", heap' \in Seq(Cell), Len(heap) <= Len(heap'),
         NEW error, NEW pl, Fail(error, pl)
  PROVE  TermsLeft /\ plan' = pl
<1>1. PICK k \in 0..Len(machines) : Abandon(k)
  BY FailAbandons
<1>2. \A j \in DOMAIN frames' : j \in DOMAIN frames /\ j <= BaseOf(k) /\ frames'[j] = frames[j]
  BY <1>1, AbandonType
<1> QED BY <1>2, FailAbandons DEF TermsLeft

(* An operand evaluated with the steps new joining the plan.               *)
LEMMA OperandInv ==
  ASSUME IInv, TypeOK', InTerm,
         NEW h \in Seq(Cell), Extends(heap, h), NEW r \in 0..Len(h),
         NEW fs \in Seq(FramesOver(Len(heap))), fs # <<>>, AssignmentFree => Pends(fs, heap),
         NEW new \in Seq(StepsOver(Len(heap))),
         \A i \in DOMAIN new : (AssignmentFree => Holds(heap, new[i])) /\ ~Mutates(new[i]),
         Operand(h, r, fs, plan \o new)
  PROVE  PlanHolds' /\ PendingHolds' /\ AssignKinds'
<1> DEFINE f == Last(fs)
           c == Len(h) + 1
           step == Step("add", <<f.lhs, r>>, c)
<1>0. /\ heap \in Seq(Cell) /\ Len(heap) \in Nat /\ Len(h) \in Nat /\ Len(heap) <= Len(h)
      /\ f \in FramesOver(Len(heap)) /\ f.steps \in Seq(AddSteps(Len(heap)))
      /\ Front(fs) \in Seq(FramesOver(Len(heap))) /\ plan \in Seq(StepsOver(Len(heap)))
      /\ TypeOK /\ PendingHolds
  <2>1. f \in FramesOver(Len(heap)) /\ Front(fs) \in Seq(FramesOver(Len(heap)))
    BY Parts
  <2>2. f.steps \in Seq(AddSteps(Len(heap)))
    BY <2>1 DEF FramesOver
  <2> QED BY <2>1, <2>2 DEF IInv, TypeOK, HeapOK, PlanOK, Extends
<1>1. AssignmentFree => Pends(Front(fs), heap) /\ \A i \in DOMAIN f.steps : Holds(heap, f.steps[i])
  <2>1. fs[Len(fs)] = f /\ Len(fs) \in DOMAIN fs
    BY Parts
  <2>2. ASSUME NEW k \in DOMAIN Front(fs) PROVE k \in DOMAIN fs /\ Front(fs)[k] = fs[k]
    BY Parts
  <2> QED BY <2>1, <2>2 DEF Pends
<1>2. ASSUME heap' \in Seq(Cell), Extends(heap, heap'), plan' = plan \o new
      PROVE  PlanHolds' /\ AssignKinds'
  <2>1. new \in Seq(StepsOver(Len(heap')))
    <3>1. Len(heap) <= Len(heap') /\ Len(heap') \in Nat
      BY <1>2 DEF Extends
    <3> QED BY <1>0, <3>1, StepsGrow
  <2>2. \A i \in DOMAIN new : AssignmentFree => Holds(heap', new[i])
    BY <1>0, <1>2, HoldsGrow
  <2> QED BY <1>2, <2>1, <2>2, PlanGrows DEF IInv
<1>3. ASSUME NEW g \in Seq(Cell), Extends(heap, g), heap' = g, plan' = plan \o new,
             NEW t, t \in FramesOver(Len(g)), frames' = Append(Front(fs), t),
             AssignmentFree => \A i \in DOMAIN t.steps : Holds(g, t.steps[i])
      PROVE  PendingHolds'
  <2>0. SUFFICES ASSUME AssignmentFree' PROVE Pends(frames', g)
    BY <1>3 DEF PendingHolds, Pends
  <2>1. AssignmentFree
    BY <1>0, <1>3, <2>0, FreeBefore
  <2>2. Pends(Front(fs), g)
    BY <1>0, <1>1, <1>3, <2>1, PendsGrow
  <2>3. ASSUME NEW k \in DOMAIN frames' PROVE frames'[k] = t \/ (k \in DOMAIN Front(fs) /\ frames'[k] = Front(fs)[k])
    BY <1>0, <1>3
  <2> QED BY <1>3, <2>1, <2>2, <2>3 DEF Pends
<1>4. CASE f.lhs = NoValue
  <2>1. heap' = h /\ plan' = plan \o new /\ frames' = Append(Front(fs), [f EXCEPT !.lhs = r])
    BY <1>4 DEF Operand
  <2>2. [f EXCEPT !.lhs = r] \in FramesOver(Len(h)) /\ [f EXCEPT !.lhs = r].steps = f.steps
    <3>1. f \in FramesOver(Len(h)) /\ r \in -1..Len(h)
      BY <1>0, StepsGrow
    <3>2. ASSUME NEW g \in FramesOver(Len(h))
          PROVE  [g EXCEPT !.lhs = r] \in FramesOver(Len(h)) /\ [g EXCEPT !.lhs = r].steps = g.steps
      BY <3>1 DEF FramesOver
    <3> QED BY <3>1, <3>2
  <2>3. AssignmentFree => \A i \in DOMAIN f.steps : Holds(h, f.steps[i])
    <3>1. \A i \in DOMAIN f.steps : f.steps[i] \in StepsOver(Len(heap))
      BY <1>0 DEF StepsOver
    <3> QED BY <1>0, <1>1, <3>1, HoldsGrow
  <2>4. PendingHolds'
    BY <1>3, <2>1, <2>2, <2>3
  <2> QED BY <1>2, <2>1, <2>4
<1>5. CASE f.lhs # NoValue /\ IsKind(h, f.lhs, "f64") /\ IsKind(h, r, "f64")
  <2> DEFINE t == [lhs |-> c, steps |-> Append(f.steps, step)]
  <2>1. heap' = Compiled(h, "f64", step) /\ plan' = plan \o new /\ frames' = Append(Front(fs), t)
    BY <1>5 DEF Operand
  <2>2. /\ step.op = "add" /\ step.out = c /\ step.args[1] \in 1..Len(h) /\ step.args[2] \in 1..Len(h)
        /\ step \in AddSteps(c) /\ step \in StepsOver(c)
    BY <1>0, <1>5 DEF Step, AddSteps, StepsOver, IsKind
  <2>3. heap' \in Seq(Cell) /\ Len(heap') = c
    BY <1>0, <2>1, <2>2, CompiledType DEF Kinds
  <2>4. Extends(h, heap') /\ Holds(heap', step)
    BY <1>0, <2>1, <2>2, CompiledHolds DEF Kinds
  <2>5. Extends(heap, heap')
    <3>1. Extends(heap, h)
      OBVIOUS
    <3>2. \A k \in 1..Len(heap) : k \in 1..Len(h) /\ h[k] = heap[k]
      BY <1>0, <3>1 DEF Extends
    <3>3. \A k \in 1..Len(h) : heap'[k] = h[k]
      BY <2>4 DEF Extends
    <3>4. Len(heap) <= Len(heap')
      BY <1>0, <2>3
    <3> QED BY <3>2, <3>3, <3>4 DEF Extends
  <2>6. /\ AssignmentFree => \A i \in DOMAIN f.steps : Holds(heap', f.steps[i])
        /\ f.steps \in Seq(AddSteps(c))
    <3>1. \A i \in DOMAIN f.steps : f.steps[i] \in StepsOver(Len(heap))
      BY <1>0 DEF StepsOver
    <3>2. f.steps \in Seq(AddSteps(c))
      BY <1>0, StepsGrow
    <3> QED BY <1>0, <1>1, <2>3, <2>5, <3>1, <3>2, HoldsGrow
  <2>7. t \in FramesOver(c)
    BY <1>0, <2>2, <2>6 DEF FramesOver
  <2>8. AssignmentFree => \A i \in DOMAIN t.steps : Holds(heap', t.steps[i])
    <3>1. ASSUME NEW i \in DOMAIN t.steps
          PROVE  t.steps[i] = step \/ (i \in DOMAIN f.steps /\ t.steps[i] = f.steps[i])
      <4>1. DOMAIN t.steps = 1..(Len(f.steps) + 1) /\ f.steps \in Seq(AddSteps(c))
        BY <2>6
      <4> HIDE DEF step, f
      <4>2. t.steps = Append(f.steps, step)
        OBVIOUS
      <4> QED BY <4>1, <4>2
    <3> QED BY <2>4, <2>6, <3>1
  <2>9. PendingHolds'
    <3> HIDE DEF t
    <3> QED BY <1>3, <2>1, <2>3, <2>5, <2>7, <2>8
  <2> QED BY <1>2, <2>1, <2>3, <2>5, <2>9
<1>6. CASE f.lhs # NoValue /\ ~(IsKind(h, f.lhs, "f64") /\ IsKind(h, r, "f64"))
  <2>1. heap' = h /\ Fail("UnhandledFunctionArgumentKind", plan \o new)
    BY <1>6 DEF Operand
  <2>2. TermsLeft /\ plan' = plan \o new
    BY <1>0, <2>1, FailTerms DEF InTerm
  <2>3. AssignmentFree' => AssignmentFree
    BY <1>0, <2>2, FreeBefore
  <2>4. PendingHolds'
    BY <1>0, <2>1, <2>2, <2>3, PendingKept
  <2> QED BY <1>2, <2>1, <2>2, <2>4
<1> QED BY <1>4, <1>5, <1>6

(* A step that touches no cell and adds no step of the plan or of a term.  *)
LEMMA QuietInv ==
  ASSUME TypeOK, PlanHolds, PendingHolds, AssignKinds, heap' = heap,
         plan' = plan, TermsLeft
  PROVE  PlanHolds' /\ PendingHolds' /\ AssignKinds'
<1>1. PlanHolds' /\ AssignKinds'
  BY DEF PlanHolds, AssignKinds, AssignmentFree
<1>2. heap' \in Seq(Cell) /\ Extends(heap, heap')
  BY DEF TypeOK, HeapOK, Extends
<1>3. AssignmentFree' => AssignmentFree
  BY DEF AssignmentFree
<1>4. PendingHolds'
  BY <1>2, <1>3, PendingKept
<1> QED BY <1>1, <1>4

(* The steps of a term that is closed: they hold, and assign nothing.      *)
LEMMA ClosedSteps ==
  ASSUME IInv, CloseTerm
  PROVE  LET f == Last(frames)
         IN  /\ InTerm /\ frames # <<>> /\ f.lhs \in 0..Len(heap)
             /\ f.steps \in Seq(StepsOver(Len(heap)))
             /\ \A i \in DOMAIN f.steps :
                  (AssignmentFree => Holds(heap, f.steps[i])) /\ ~Mutates(f.steps[i])
             /\ Front(frames) \in Seq(FramesOver(Len(heap)))
             /\ Len(Front(frames)) = Len(frames) - 1
             /\ AssignmentFree => Pends(Front(frames), heap)
             /\ \A k \in DOMAIN Front(frames) : k \in DOMAIN frames /\ Front(frames)[k] = frames[k]
<1> DEFINE f == Last(frames)
<1>1. /\ InTerm /\ frames \in Seq(FramesOver(Len(heap))) /\ Len(heap) \in Nat
      /\ frames # <<>> /\ f.lhs # NoValue /\ PendingHolds
  <2>1. InTerm /\ Len(frames) > Base /\ Base \in Nat /\ f.lhs # NoValue
    BY Bases DEF CloseTerm, InTerm, IInv
  <2>2. frames \in Seq(FramesOver(Len(heap))) /\ Len(heap) \in Nat /\ PendingHolds
    BY DEF IInv, TypeOK, HeapOK, EvalOK
  <2> QED BY <2>1, <2>2
<1>2. /\ f \in FramesOver(Len(heap)) /\ Front(frames) \in Seq(FramesOver(Len(heap)))
      /\ Len(Front(frames)) = Len(frames) - 1
      /\ \A k \in DOMAIN Front(frames) : k \in DOMAIN frames /\ Front(frames)[k] = frames[k]
      /\ Len(frames) \in DOMAIN frames /\ frames[Len(frames)] = f
  BY <1>1, Parts
<1>3. /\ f.lhs \in 0..Len(heap) /\ f.steps \in Seq(AddSteps(Len(heap)))
      /\ f.steps \in Seq(StepsOver(Len(heap)))
  BY <1>1, <1>2 DEF FramesOver, StepsOver
<1>4. \A i \in DOMAIN f.steps : f.steps[i].op = "add"
  <2>1. \A i \in DOMAIN f.steps : f.steps[i] \in AddSteps(Len(heap))
    <3> HIDE DEF f
    <3> QED BY <1>3
  <2> QED BY <2>1 DEF AddSteps
<1>5. /\ \A i \in DOMAIN f.steps :
           (AssignmentFree => Holds(heap, f.steps[i])) /\ ~Mutates(f.steps[i])
      /\ AssignmentFree => Pends(Front(frames), heap)
  BY <1>1, <1>2, <1>4 DEF PendingHolds, Pends, Mutates
<1> QED BY <1>1, <1>2, <1>3, <1>5

(* Every action keeps the inductive invariant.                             *)
LEMMA NextInv == IInv /\ [Next]_vars => IInv'
<1> SUFFICES ASSUME IInv, [Next]_vars PROVE PlanHolds' /\ PendingHolds' /\ AssignKinds'
  BY NextType DEF IInv
<1>0. /\ TypeOK /\ TypeOK' /\ PlanHolds /\ PendingHolds /\ AssignKinds
      /\ heap \in Seq(Cell) /\ Len(heap) \in Nat /\ plan \in Seq(StepsOver(Len(heap)))
      /\ frames \in Seq(FramesOver(Len(heap))) /\ heap' \in Seq(Cell)
  BY NextType DEF IInv, TypeOK, HeapOK, PlanOK, EvalOK
<1>1. ASSUME heap' = heap, plan' = plan, TermsLeft
      PROVE  PlanHolds' /\ PendingHolds' /\ AssignKinds'
  BY <1>0, <1>1, QuietInv
<1>1a. ASSUME frames' = frames PROVE TermsLeft
  BY <1>1a DEF TermsLeft
<1>1b. ASSUME frames' = Append(frames, EmptyFrame) PROVE TermsLeft
  <2>1. ASSUME NEW k \in DOMAIN frames'
        PROVE  frames'[k] = EmptyFrame \/ (k \in DOMAIN frames /\ frames'[k] = frames[k])
    BY <1>0, <1>1b
  <2> QED BY <2>1 DEF TermsLeft, EmptyFrame
<1>1c. ASSUME NEW error, Fail(error, plan), heap' = heap, mode = "running"
       PROVE  PlanHolds' /\ PendingHolds' /\ AssignKinds'
  <2>1. TermsLeft /\ plan' = plan
    BY <1>0, <1>1c, FailTerms
  <2> QED BY <1>1, <1>1c, <2>1
<1>2. CASE \/ Interpret \/ EndProgram \/ FsmDeclare \/ Expression \/ InlineExpression
           \/ NextElement \/ OpenTerm \/ CallMachine \/ MachineExpression
  BY <1>1, <1>1a, <1>1b, <1>2
  DEF Interpret, EndProgram, FsmDeclare, Expression, InlineExpression, NextElement, OpenTerm,
      CallMachine, MachineExpression, Done
<1>2a. CASE Panic
  <2>1. 0 \in 0..Len(machines) /\ Abandon(0) /\ UNCHANGED <<heap, plan>>
    BY <1>0, <1>2a, Bases DEF Panic
  <2>2. \A j \in DOMAIN frames' : j \in DOMAIN frames /\ frames'[j] = frames[j]
    BY <1>0, <2>1, AbandonType
  <2> QED BY <1>1, <2>1, <2>2 DEF TermsLeft
<1>2b. CASE MachineFails
  BY <1>1c, <1>2b DEF MachineFails, Between
<1>2c. ASSUME NEW r \in Handle, Return(r)
       PROVE  PlanHolds' /\ PendingHolds' /\ AssignKinds'
  <2>1. frames' = [frames EXCEPT ![Base].lhs = r] /\ UNCHANGED <<heap, plan>>
    BY <1>2c DEF Return
  <2>2. ASSUME NEW k \in DOMAIN frames' PROVE k \in DOMAIN frames /\ frames'[k].steps = frames[k].steps
    <3>1. k \in DOMAIN frames /\ frames[k] \in FramesOver(Len(heap))
      BY <1>0, <2>1
    <3>2. frames'[k] = frames[k] \/ frames'[k] = [frames[k] EXCEPT !.lhs = r]
      BY <2>1, <3>1
    <3> QED BY <3>1, <3>2 DEF FramesOver
  <2> QED BY <1>1, <2>1, <2>2 DEF TermsLeft
<1>3. ASSUME NEW s \in Statements, BeginStatement(s)
      PROVE  PlanHolds' /\ PendingHolds' /\ AssignKinds'
  <2>1. heap' = heap /\ mode = "running"
    BY <1>3 DEF BeginStatement, Between
  <2> QED BY <1>1, <1>1b, <1>1c, <1>3, <2>1 DEF BeginStatement
<1>4. ASSUME NEW id, NEW count, StepPlan(id, count)
      PROVE  PlanHolds' /\ PendingHolds' /\ AssignKinds'
  BY <1>1, <1>1a, <1>4 DEF StepPlan
<1>5. CASE EndStep \/ UNCHANGED vars
  BY <1>1, <1>1a, <1>5 DEF EndStep, vars
<1>6. CASE Clear \/ ClearPlan
  <2>1. plan' = <<>> /\ frames' = frames /\ frames = <<>>
    BY <1>0, <1>6 DEF Clear, ClearPlan, TypeOK, EvalOK
  <2> QED BY <2>1 DEF PlanHolds, PendingHolds, AssignKinds
<1>7. Extends(heap, heap) /\ <<>> \in Seq(StepsOver(Len(heap))) /\ plan \o <<>> = plan
      /\ (AssignmentFree => Pends(frames, heap))
  BY <1>0 DEF Extends, PendingHolds, Pends
<1>7a. \A i \in DOMAIN <<>> : (AssignmentFree => Holds(heap, (<<>>)[i])) /\ ~Mutates((<<>>)[i])
  OBVIOUS
<1>7b. InTerm => frames # <<>>
  BY <1>0, Bases DEF InTerm
<1>8. ASSUME NEW v \in Literals, Literal(v)
      PROVE  PlanHolds' /\ PendingHolds' /\ AssignKinds'
  <2>1. v \in Cell
    BY ConstantsAssumption DEF Literals, Cell, Kinds
  <2> DEFINE h == Append(heap, v)
  <2>2. /\ h \in Seq(Cell) /\ Extends(heap, h) /\ Len(heap) + 1 \in 0..Len(h)
    BY <1>0, <2>1 DEF Extends
  <2>3. InTerm /\ frames # <<>> /\ Operand(h, Len(heap) + 1, frames, plan \o <<>>)
    BY <1>7, <1>7b, <1>8 DEF Literal, Evaluating
  <2> HIDE DEF h
  <2> QED BY <1>0, <1>7, <1>7a, <2>2, <2>3, OperandInv
<1>9. ASSUME NEW n \in Names \cup {Ans}, Variable(n)
      PROVE  PlanHolds' /\ PendingHolds' /\ AssignKinds'
  <2>1. CASE n \in DOMAIN symbols
    <3>1. /\ InTerm /\ frames # <<>> /\ Operand(heap, symbols[n], frames, plan \o <<>>)
          /\ symbols[n] \in 0..Len(heap)
      BY <1>0, <1>7, <1>7b, <1>9, <2>1 DEF Variable, Evaluating, TypeOK, TablesOK
    <3> QED BY <1>0, <1>7, <1>7a, <3>1, OperandInv
  <2>2. CASE n \notin DOMAIN symbols
    BY <1>1c, <1>9, <2>2 DEF Variable, Evaluating, InTerm
  <2> QED BY <2>1, <2>2
<1>9a. ASSUME NEW r \in Handle, EnvironmentValue(r)
       PROVE  PlanHolds' /\ PendingHolds' /\ AssignKinds'
  <2>1. /\ InTerm /\ frames # <<>> /\ Operand(heap, r, frames, plan \o <<>>) /\ r \in 0..Len(heap)
    BY <1>0, <1>7, <1>7b, <1>9a DEF EnvironmentValue, Evaluating
  <2> QED BY <1>0, <1>7, <1>7a, <2>1, OperandInv
<1>11. CASE CloseTerm
  <2> DEFINE f == Last(frames)
  <2>1. /\ InTerm /\ frames # <<>> /\ f.lhs \in 0..Len(heap)
        /\ f.steps \in Seq(StepsOver(Len(heap)))
        /\ \A i \in DOMAIN f.steps :
             (AssignmentFree => Holds(heap, f.steps[i])) /\ ~Mutates(f.steps[i])
        /\ Front(frames) \in Seq(FramesOver(Len(heap))) /\ Len(Front(frames)) = Len(frames) - 1
        /\ AssignmentFree => Pends(Front(frames), heap)
        /\ \A k \in DOMAIN Front(frames) : k \in DOMAIN frames /\ Front(frames)[k] = frames[k]
    BY <1>11, ClosedSteps
  <2>5. CASE Len(frames) > Base + 1
    <3>1. Front(frames) # <<>>
      <4>1. Len(Front(frames)) > 0 /\ Base \in Nat
        BY <1>0, <2>1, <2>5, Bases
      <4> QED BY <4>1
    <3>2. Operand(heap, f.lhs, Front(frames), plan \o f.steps)
      BY <1>11, <2>5 DEF CloseTerm, AppendSteps
    <3> HIDE DEF f
    <3> QED BY <1>0, <1>7, <2>1, <3>1, <3>2, OperandInv
  <2>6. CASE ~(Len(frames) > Base + 1)
    <3>1. heap' = heap /\ plan' = plan \o f.steps /\ frames' = Front(frames)
      BY <1>11, <2>6 DEF CloseTerm, AppendSteps
    <3> HIDE DEF f
    <3>2. PlanHolds' /\ AssignKinds'
      BY <1>0, <1>7, <2>1, <3>1, PlanGrows
    <3>3. TermsLeft
      BY <2>1, <3>1 DEF TermsLeft
    <3>4. AssignmentFree' => AssignmentFree
      BY <1>0, <2>1, <3>1, FreeBefore
    <3> QED BY <1>0, <1>7, <3>1, <3>2, <3>3, <3>4, PendingKept
  <2> QED BY <2>5, <2>6
<1>13. CASE VariableDefine
  <2> DEFINE s == Step("define", <<>>, elems[1])
  <2>1. Ready("define") /\ heap' = heap /\ plan' = plan \o <<s>> /\ frames' = frames
    BY <1>0, <1>13 DEF VariableDefine, SaveSymbol, Done
  <2>2. s \in StepsOver(Len(heap)) /\ Holds(heap, s) /\ ~Mutates(s)
    BY <1>0, <2>1, ReadyStatement DEF Step, StepsOver, Holds, Mutates
  <2> HIDE DEF s
  <2>3. /\ <<s>> \in Seq(StepsOver(Len(heap'))) /\ <<s>> \in Seq(StepsOver(Len(heap)))
        /\ \A i \in DOMAIN <<s>> : (AssignmentFree => Holds(heap', <<s>>[i])) /\ ~Mutates(<<s>>[i])
    BY <2>1, <2>2
  <2>4. PlanHolds' /\ AssignKinds'
    BY <1>0, <1>7, <2>1, <2>3, PlanGrows
  <2>5. AssignmentFree' => AssignmentFree
    BY <1>0, <2>1, <2>3, FreeBefore
  <2> QED BY <1>0, <1>1a, <1>7, <2>1, <2>4, <2>5, PendingKept
<1>14. CASE VariableDefineKind
  <2> DEFINE r == elems[1]
             c == Len(heap) + 1
             convert == Step("convert", <<r>>, c)
             define == Step("define", <<>>, c)
  <2>1. Ready("define") /\ stmt.kind # "any" /\ mode = "running"
    BY <1>14 DEF VariableDefineKind, Ready
  <2>2. CASE IsKind(heap, r, stmt.kind)
    <3>1. /\ heap' = Compiled(heap, stmt.kind, convert) /\ frames' = frames
          /\ plan' = plan \o <<convert, define>>
      BY <1>14, <2>2 DEF VariableDefineKind, SaveSymbol, Done
    <3>2. /\ convert \in StepsOver(c) /\ define \in StepsOver(c) /\ stmt.kind \in Kinds
          /\ convert.op = "convert" /\ convert.out = c /\ convert.args[1] \in 1..Len(heap)
          /\ define.op = "define"
      BY <1>0, <2>1, <2>2, ReadyStatement, StatementNames DEF Step, StepsOver, IsKind
    <3> HIDE DEF convert, define
    <3>3. heap' \in Seq(Cell) /\ Len(heap') = c
      BY <1>0, <3>1, <3>2, CompiledType
    <3>4. Extends(heap, heap') /\ Holds(heap', convert)
      BY <1>0, <3>1, <3>2, CompiledHolds
    <3>5. ~Mutates(convert) /\ ~Mutates(define) /\ Holds(heap', define)
      BY <3>2 DEF Mutates, Holds
    <3>6. <<convert, define>> \in Seq(StepsOver(Len(heap')))
      BY <3>2, <3>3
    <3>7. \A i \in DOMAIN <<convert, define>> :
            (AssignmentFree => Holds(heap', <<convert, define>>[i])) /\ ~Mutates(<<convert, define>>[i])
      BY <3>4, <3>5
    <3>8. PlanHolds' /\ AssignKinds'
      BY <1>0, <3>1, <3>3, <3>4, <3>6, <3>7, PlanGrows
    <3>9. AssignmentFree' => AssignmentFree
      <4>1. plan \in Seq(StepsOver(c)) /\ <<convert, define>> \in Seq(StepsOver(c))
        BY <1>0, <3>2, HeapGrows
      <4> QED BY <3>1, <4>1, FreeBefore
    <3> QED BY <1>0, <1>1a, <3>1, <3>3, <3>4, <3>8, <3>9, PendingKept
  <2>3. CASE ~IsKind(heap, r, stmt.kind)
    BY <1>1c, <1>14, <2>1, <2>3 DEF VariableDefineKind
  <2> QED BY <2>2, <2>3
<1>15. ASSUME NEW op \in {"assign", "addassign"}, VariableAssign(op)
       PROVE  PlanHolds' /\ PendingHolds' /\ AssignKinds'
  <2> DEFINE n == stmt.names[1]
             r == elems[1]
             sink == mutables[n]
             step == Step(op, <<r>>, sink)
  <2>1. CASE ~(/\ n \in DOMAIN mutables /\ AssignArm(heap, sink, r)
               /\ op = "addassign" => IsKind(heap, sink, "f64"))
    <3>1. PICK error : Fail(error, plan) /\ heap' = heap
      BY <1>15, <2>1 DEF VariableAssign, GetMutable
    <3> QED BY <1>1c, <1>15, <3>1 DEF VariableAssign, Ready
  <2>2. CASE /\ n \in DOMAIN mutables /\ AssignArm(heap, sink, r)
             /\ op = "addassign" => IsKind(heap, sink, "f64")
    <3>1. heap' = Solve(heap, step) /\ plan' = Append(plan, step)
      BY <1>15, <2>2 DEF VariableAssign, GetMutable, Done
    <3>2. /\ sink \in 1..Len(heap) /\ r \in 1..Len(heap) /\ heap[sink].kind = heap[r].kind
          /\ step.op = op /\ step.out = sink /\ step.args[1] = r
      BY <2>2 DEF AssignArm, Assignable, Step
    <3>3. step \in StepsOver(Len(heap))
      BY <3>2 DEF Step, StepsOver
    <3> HIDE DEF step
    <3>3a. step.op = "assign" => heap[step.out].kind = heap[step.args[1]].kind
      BY <3>2
    <3>3b. heap \in Seq(Cell)
      BY <1>0
    <3>3c. \A c \in 1..Len(heap) : Solve(heap, step)[c].kind = heap[c].kind
      BY <3>3, <3>3a, <3>3b, SolveKinds
    <3>4. \A c \in 1..Len(heap) : heap'[c].kind = heap[c].kind
      BY <3>1, <3>3c
    <3>5. PlanHolds' /\ PendingHolds'
      <4>1. plan'[Len(plan) + 1] = step /\ Len(plan) + 1 \in DOMAIN plan'
        BY <1>0, <3>1, <3>3
      <4>2. ~AssignmentFree'
        BY <3>2, <4>1 DEF AssignmentFree, Mutates
      <4> QED BY <4>2 DEF PlanHolds, PendingHolds
    <3>6. AssignKinds'
      <4> SUFFICES ASSUME NEW i \in DOMAIN plan', plan'[i].op = "assign"
                   PROVE  heap'[plan'[i].out].kind = heap'[plan'[i].args[1]].kind
        BY DEF AssignKinds
      <4>1. plan'[i] = step \/ (i \in DOMAIN plan /\ plan'[i] = plan[i])
        BY <1>0, <3>1, <3>3
      <4>2. CASE plan'[i] = step
        BY <3>2, <3>4, <4>2
      <4>3. CASE i \in DOMAIN plan /\ plan'[i] = plan[i]
        <5>1. plan[i] \in StepsOver(Len(heap)) /\ plan[i].op = "assign"
          BY <1>0, <4>3
        <5>2. plan[i].out \in 1..Len(heap) /\ plan[i].args[1] \in 1..Len(heap)
          BY <5>1 DEF StepsOver, AddSteps
        <5> QED BY <1>0, <3>4, <4>3, <5>1, <5>2 DEF AssignKinds
      <4> QED BY <4>1, <4>2, <4>3
    <3> QED BY <3>5, <3>6
  <2> QED BY <2>1, <2>2
<1>16. CASE TupleDestructure
  <2>1. /\ heap' = heap /\ mode = "running"
        /\ (plan' = plan /\ frames' = frames) \/ Fail("TupleDestructure", plan)
    BY <1>16 DEF TupleDestructure, Done, Ready
  <2> QED BY <1>1, <1>1a, <1>1c, <2>1
<1>17. CASE SolveStep
  <2>1. /\ mode = "stepping" /\ heap' = Solve(heap, plan[cursor.at])
        /\ plan' = plan /\ frames' = frames
    BY <1>17 DEF SolveStep
  <2>2. cursor.at \in DOMAIN plan /\ plan[cursor.at] \in StepsOver(Len(heap)) /\ frames = <<>>
    BY <1>0, <2>1 DEF TypeOK, PlanOK, EvalOK
  <2>3. CASE AssignmentFree
    <3>1. heap' = heap
      BY <1>0, <2>1, <2>2, <2>3, SolveHolds DEF AssignmentFree, PlanHolds
    <3> QED BY <1>1, <1>1a, <2>1, <3>1
  <2>4. CASE ~AssignmentFree
    <3>1. PlanHolds' /\ PendingHolds'
      BY <2>1, <2>2, <2>4 DEF PlanHolds, PendingHolds, AssignmentFree
    <3>2. \A c \in 1..Len(heap) : heap'[c].kind = heap[c].kind
      BY <1>0, <2>1, <2>2, SolveKinds DEF AssignKinds
    <3>3. ASSUME NEW i \in DOMAIN plan, plan[i].op = "assign"
          PROVE  plan[i].out \in 1..Len(heap) /\ plan[i].args[1] \in 1..Len(heap)
      BY <1>0, <3>3 DEF StepsOver, AddSteps
    <3> QED BY <1>0, <2>1, <3>1, <3>2, <3>3 DEF AssignKinds
  <2> QED BY <2>3, <2>4
<1> QED
  BY <1>2, <1>2a, <1>2b, <1>2c, <1>3, <1>4, <1>5, <1>6, <1>8, <1>9, <1>9a, <1>11, <1>13, <1>14,
     <1>15, <1>16, <1>17
  DEF Next, Assign, AddAssign

(* The initial state satisfies the inductive invariant.                    *)
LEMMA InitInv == Init => IInv
BY InitType DEF Init, IInv, PlanHolds, PendingHolds, AssignKinds

(* Evaluating an operand changes no existing cell.                         *)
LEMMA OperandExtends ==
  ASSUME TypeOK, NEW h \in Seq(Cell), Extends(heap, h), NEW r \in 0..Len(h),
         NEW fs \in Seq(FramesOver(Len(heap))), fs # <<>>, NEW pl, Operand(h, r, fs, pl)
  PROVE  Extends(heap, heap')
<1> DEFINE f == Last(fs)
           c == Len(h) + 1
           step == Step("add", <<f.lhs, r>>, c)
<1>1. CASE heap' = h
  BY <1>1
<1>2. CASE IsKind(h, f.lhs, "f64") /\ IsKind(h, r, "f64") /\ heap' = Compiled(h, "f64", step)
  <2>1. /\ step.op = "add" /\ step.out = c /\ step.args[1] \in 1..Len(h) /\ step.args[2] \in 1..Len(h)
        /\ step \in StepsOver(c)
    BY <1>2 DEF Step, AddSteps, StepsOver, IsKind
  <2> HIDE DEF step
  <2>2. Extends(h, heap')
    BY <1>2, <2>1, CompiledHolds DEF Kinds
  <2>3. Len(heap) \in Nat /\ Len(h) \in Nat /\ Len(heap') \in Nat
    BY <1>2, <2>1, CompiledType DEF Kinds, TypeOK, HeapOK
  <2>4. \A k \in 1..Len(heap) : k \in 1..Len(h) /\ h[k] = heap[k]
    BY <2>3 DEF Extends
  <2> QED BY <2>2, <2>3, <2>4 DEF Extends
<1> QED BY <1>1, <1>2 DEF Operand

(* What a step of the interpreter does to a cell that exists before and    *)
(* after it.                                                               *)
LEMMA CellsChange ==
  ASSUME IInv, Next, NEW c \in DOMAIN heap \cap DOMAIN heap'
  PROVE  /\ heap'[c].kind = heap[c].kind
         /\ heap'[c] # heap[c] =>
              IF mode = "stepping"
              THEN \E i \in DOMAIN plan : plan[i].out = c /\ plan[i].op # "define"
              ELSE /\ stmt.op \in {"assign", "addassign"}
                   /\ stmt.names[1] \in DOMAIN mutables
                   /\ mutables[stmt.names[1]] = c
<1> DEFINE Change == heap'[c] # heap[c] =>
              IF mode = "stepping"
              THEN \E i \in DOMAIN plan : plan[i].out = c /\ plan[i].op # "define"
              ELSE /\ stmt.op \in {"assign", "addassign"}
                   /\ stmt.names[1] \in DOMAIN mutables
                   /\ mutables[stmt.names[1]] = c
<1>0. /\ heap \in Seq(Cell) /\ Len(heap) \in Nat /\ plan \in Seq(StepsOver(Len(heap)))
      /\ frames \in Seq(FramesOver(Len(heap))) /\ c \in 1..Len(heap)
      /\ TypeOK /\ AssignKinds
  BY DEF IInv, TypeOK, HeapOK, PlanOK, EvalOK
<1>1. ASSUME heap'[c] = heap[c] PROVE heap'[c].kind = heap[c].kind /\ Change
  BY <1>1
<1>2. ASSUME Extends(heap, heap') PROVE heap'[c].kind = heap[c].kind /\ Change
  BY <1>0, <1>1, <1>2 DEF Extends
<1>2a. InTerm => frames # <<>>
  BY <1>0, Bases DEF InTerm
<1>3. ASSUME NEW v \in Literals, Literal(v) PROVE Extends(heap, heap')
  <2>1. v \in Cell
    BY ConstantsAssumption DEF Literals, Cell, Kinds
  <2> DEFINE h == Append(heap, v)
  <2>2. h \in Seq(Cell) /\ Extends(heap, h) /\ Len(heap) + 1 \in 0..Len(h)
    BY <1>0, <2>1 DEF Extends
  <2>3. frames # <<>> /\ Operand(h, Len(heap) + 1, frames, plan)
    BY <1>2a, <1>3 DEF Literal, Evaluating
  <2> HIDE DEF h
  <2> QED BY <1>0, <2>2, <2>3, OperandExtends
<1>4. Extends(heap, heap)
  BY DEF Extends
<1>5. ASSUME NEW n \in Names \cup {Ans}, Variable(n) PROVE Extends(heap, heap')
  <2>1. CASE n \in DOMAIN symbols
    <3>1. frames # <<>> /\ Operand(heap, symbols[n], frames, plan) /\ symbols[n] \in 0..Len(heap)
      BY <1>0, <1>2a, <1>5, <2>1 DEF Variable, Evaluating, TypeOK, TablesOK
    <3> QED BY <1>0, <1>4, <3>1, OperandExtends
  <2>2. CASE n \notin DOMAIN symbols
    BY <1>4, <1>5, <2>2 DEF Variable
  <2> QED BY <2>1, <2>2
<1>5a. ASSUME NEW r \in Handle, EnvironmentValue(r) PROVE Extends(heap, heap')
  <2>1. frames # <<>> /\ Operand(heap, r, frames, plan) /\ r \in 0..Len(heap)
    BY <1>0, <1>2a, <1>5a DEF EnvironmentValue, Evaluating
  <2> QED BY <1>0, <1>4, <2>1, OperandExtends
<1>6. CASE CloseTerm
  <2> DEFINE f == Last(frames)
  <2>1. /\ frames # <<>> /\ f.lhs \in 0..Len(heap)
        /\ Front(frames) \in Seq(FramesOver(Len(heap))) /\ Len(Front(frames)) = Len(frames) - 1
    BY <1>6, ClosedSteps
  <2>4. CASE Len(frames) > Base + 1
    <3>1. Len(Front(frames)) > 0 /\ Base \in Nat
      BY <1>0, <2>1, <2>4, Bases
    <3>2. Front(frames) # <<>>
      BY <3>1
    <3>3. Operand(heap, f.lhs, Front(frames), AppendSteps(plan, f))
      BY <1>6, <2>4 DEF CloseTerm
    <3> HIDE DEF f
    <3>4. Extends(heap, heap')
      BY <1>0, <1>4, <2>1, <3>2, <3>3, OperandExtends
    <3> QED BY <1>2, <3>4
  <2>5. CASE ~(Len(frames) > Base + 1)
    BY <1>1, <1>6, <2>5 DEF CloseTerm
  <2> QED BY <2>4, <2>5
<1>7. CASE VariableDefineKind
  <2> DEFINE r == elems[1]
             d == Len(heap) + 1
             convert == Step("convert", <<r>>, d)
  <2>1. CASE IsKind(heap, r, stmt.kind)
    <3>1. heap' = Compiled(heap, stmt.kind, convert) /\ stmt.kind \in Kinds
      <4>1. heap' = Compiled(heap, stmt.kind, convert)
        BY <1>7, <2>1 DEF VariableDefineKind
      <4>2. stmt.kind \in Kinds
        BY <1>0, <2>1, CellType DEF IsKind
      <4> QED BY <4>1, <4>2
    <3>2. /\ convert \in StepsOver(d) /\ convert.op = "convert" /\ convert.out = d
          /\ convert.args[1] \in 1..Len(heap)
      BY <1>0, <2>1 DEF Step, StepsOver, IsKind
    <3> HIDE DEF convert
    <3> QED BY <1>0, <1>2, <3>1, <3>2, CompiledHolds
  <2>2. CASE ~IsKind(heap, r, stmt.kind)
    BY <1>1, <1>7, <2>2 DEF VariableDefineKind
  <2> QED BY <2>1, <2>2
<1>8. ASSUME NEW op \in {"assign", "addassign"}, VariableAssign(op)
      PROVE  heap'[c].kind = heap[c].kind /\ Change
  <2> DEFINE n == stmt.names[1]
             r == elems[1]
             sink == mutables[n]
             step == Step(op, <<r>>, sink)
  <2>1. CASE heap' = heap
    BY <1>1, <2>1
  <2>2. CASE /\ n \in DOMAIN mutables /\ AssignArm(heap, sink, r) /\ heap' = Solve(heap, step)
    <3>1. /\ sink \in 1..Len(heap) /\ r \in 1..Len(heap) /\ heap[sink].kind = heap[r].kind
          /\ step.op = op /\ step.out = sink /\ step.args[1] = r
      BY <2>2 DEF AssignArm, Assignable, Step
    <3>2. step \in StepsOver(Len(heap))
      BY <3>1 DEF Step, StepsOver
    <3>3. mode # "stepping" /\ stmt.op = op
      BY <1>8 DEF VariableAssign, Ready
    <3> HIDE DEF step
    <3>4. heap'[c].kind = heap[c].kind /\ (heap'[c] # heap[c] => sink = c)
      BY <1>0, <2>2, <3>1, <3>2, SolveKinds
    <3> QED BY <2>2, <3>3, <3>4
  <2> QED BY <1>8, <2>1, <2>2 DEF VariableAssign, GetMutable
<1>9. CASE SolveStep
  <2>1. mode = "stepping" /\ heap' = Solve(heap, plan[cursor.at])
    BY <1>9 DEF SolveStep
  <2>2. cursor.at \in DOMAIN plan /\ plan[cursor.at] \in StepsOver(Len(heap))
    BY <1>0, <2>1 DEF TypeOK, PlanOK
  <2> QED BY <1>0, <2>1, <2>2, SolveKinds DEF AssignKinds
<1>10. CASE Clear
  BY <1>10 DEF Clear
<1> QED
  BY <1>1, <1>2, <1>3, <1>5, <1>5a, <1>6, <1>7, <1>8, <1>9, <1>10
  DEF Next, Interpret, EndProgram, Panic, BeginStatement, OpenTerm, VariableDefine, Assign,
      AddAssign, NextElement, TupleDestructure, FsmDeclare, Expression, InlineExpression,
      CallMachine, MachineExpression, MachineFails, Return, StepPlan, EndStep, ClearPlan

(* In every reachable state each step of an assignment-free plan, and each *)
(* pending step, holds of the values, and both sides of every assign step  *)
(* have one kind.                                                          *)
THEOREM Invariance == Spec => []IInv
BY InitInv, NextInv, PTL DEF Spec

(* A plan that assigns nothing is at its fixpoint: stepping it, or any     *)
(* single step of it any number of times, changes no value.                *)
THEOREM SteppingIsIdempotent == Spec => StepIdempotent
<1>1. IInv /\ [Next]_vars => [mode = "stepping" /\ AssignmentFree => UNCHANGED heap]_vars
  <2> SUFFICES ASSUME IInv, Next, mode = "stepping", AssignmentFree PROVE UNCHANGED heap
    OBVIOUS
  <2>0. heap \in Seq(Cell) /\ plan \in Seq(StepsOver(Len(heap))) /\ frames = <<>> /\ stmt = NoStmt
    BY DEF IInv, TypeOK, HeapOK, PlanOK, EvalOK
  <2>1. CASE SolveStep
    <3>1. heap' = Solve(heap, plan[cursor.at])
      BY <2>1 DEF SolveStep
    <3>2. cursor.at \in DOMAIN plan /\ plan[cursor.at] \in StepsOver(Len(heap))
      BY <2>0 DEF IInv, TypeOK, PlanOK
    <3> QED BY <2>0, <3>1, <3>2, SolveHolds DEF IInv, AssignmentFree, PlanHolds
  <2>2. CASE EndStep
    BY <2>2 DEF EndStep
  <2> QED BY <2>0, <2>1, <2>2
    DEF Next, Interpret, EndProgram, Panic, BeginStatement, Literal, Variable, EnvironmentValue,
        OpenTerm, CloseTerm, CallMachine, MachineExpression, MachineFails, Return,
        VariableDefine, VariableDefineKind, Assign, AddAssign, VariableAssign, NextElement,
        TupleDestructure, FsmDeclare, Expression, InlineExpression, StepPlan, Clear, ClearPlan,
        Evaluating, InTerm, Between, Ready
<1> QED BY <1>1, Invariance, PTL DEF Spec, StepIdempotent

(* A cell keeps its kind for as long as it exists: convert and arithmetic  *)
(* write values only, and an assign step joins cells of one kind.          *)
THEOREM KindsAreStable == Spec => KindStable
<1>1. IInv /\ [Next]_vars
      => [\A c \in DOMAIN heap \cap DOMAIN heap' : heap'[c].kind = heap[c].kind]_vars
  <2> SUFFICES ASSUME IInv, Next, NEW c \in DOMAIN heap \cap DOMAIN heap'
               PROVE  heap'[c].kind = heap[c].kind
    OBVIOUS
  <2> QED BY CellsChange
<1> QED BY <1>1, Invariance, PTL DEF Spec, KindStable

(* An existing value changes only in an assignment to a name whose mutable *)
(* entry is that cell, or when step() runs a step that writes it.          *)
THEOREM OnlyAssignmentMutates == Spec => MutationOnlyByAssignment
<1> DEFINE A == \A c \in DOMAIN heap \cap DOMAIN heap' :
                  heap'[c] # heap[c] =>
                    IF mode = "stepping"
                    THEN \E i \in DOMAIN plan : plan[i].out = c /\ plan[i].op # "define"
                    ELSE /\ stmt.op \in {"assign", "addassign"}
                         /\ stmt.names[1] \in DOMAIN mutables
                         /\ mutables[stmt.names[1]] = c
<1>1. IInv /\ [Next]_vars => [A]_vars
  <2> SUFFICES ASSUME IInv, Next, NEW c \in DOMAIN heap \cap DOMAIN heap', heap'[c] # heap[c]
               PROVE  IF mode = "stepping"
                      THEN \E i \in DOMAIN plan : plan[i].out = c /\ plan[i].op # "define"
                      ELSE /\ stmt.op \in {"assign", "addassign"}
                           /\ stmt.names[1] \in DOMAIN mutables
                           /\ mutables[stmt.names[1]] = c
    OBVIOUS
  <2> QED BY CellsChange
<1> QED BY <1>1, Invariance, PTL DEF Spec, MutationOnlyByAssignment


-----------------------------------------------------------------------------
(* The plan is in dataflow order.                                          *)

OrderInv == PlanOrder /\ PendingUnknown /\ DefinesNew

(* The cells a step is about exist.                                        *)
LEMMA StepCells ==
  ASSUME NEW n \in Nat, NEW s \in StepsOver(n)
  PROVE  Reads(s) \subseteq 0..n /\ s.out \in 0..n
<1>1. CASE s \in AddSteps(n)
  BY <1>1 DEF AddSteps, Reads, Range
<1>2. CASE s \in [op : {"convert", "assign", "addassign"}, args : {<<c>> : c \in 1..n}, out : 1..n]
  BY <1>2 DEF Reads, Range
<1>3. CASE s \in [op : {"define"}, args : {<<>>}, out : 0..n]
  BY <1>3 DEF Reads, Range
<1> QED BY <1>1, <1>2, <1>3 DEF StepsOver

(* Steps that compute cells the plan does not know can follow it.          *)
LEMMA OrderGrows ==
  ASSUME NEW S, plan \in Seq(S), NEW t \in Seq(S), plan' = plan \o t, PlanOrder,
         \A i \in DOMAIN t : Computes(t[i]) =>
           /\ Later(t, i)
           /\ \A j \in DOMAIN plan : t[i].out \notin Reads(plan[j]) /\ t[i].out # plan[j].out
  PROVE  PlanOrder'
<1> DEFINE n == Len(plan)
<1>0. /\ n \in Nat /\ Len(t) \in Nat /\ DOMAIN plan = 1..n /\ DOMAIN t = 1..Len(t)
      /\ DOMAIN plan' = 1..(n + Len(t))
      /\ \A i \in 1..n : plan'[i] = plan[i]
      /\ \A i \in (n + 1)..(n + Len(t)) : plan'[i] = t[i - n]
  OBVIOUS
<1> SUFFICES ASSUME NEW i \in DOMAIN plan', NEW j \in DOMAIN plan', Computes(plan'[j]), i <= j
             PROVE  /\ plan'[j].out \notin Reads(plan'[i])
                    /\ i # j => ~(Computes(plan'[i]) /\ plan'[i].out = plan'[j].out)
  BY DEF PlanOrder
<1>1. CASE j <= n
  BY <1>0, <1>1 DEF PlanOrder
<1>2. CASE j > n
  <2>1. j - n \in DOMAIN t /\ plan'[j] = t[j - n]
    BY <1>0, <1>2
  <2>2. /\ Later(t, j - n)
        /\ \A k \in DOMAIN plan : t[j - n].out \notin Reads(plan[k]) /\ t[j - n].out # plan[k].out
    BY <2>1
  <2>3. CASE i <= n
    BY <1>0, <2>1, <2>2, <2>3
  <2>4. CASE i > n
    <3>1. i - n \in 1..(j - n) /\ plan'[i] = t[i - n] /\ (i # j => i - n # j - n)
      BY <1>0, <2>4
    <3> QED BY <2>1, <2>2, <3>1 DEF Later
  <2> QED BY <1>0, <2>3, <2>4
<1> QED BY <1>0, <1>1, <1>2

(* No step pending in the terms fs computes one of the cells.              *)
Avoids(fs, cells) ==
  \A f \in DOMAIN fs : \A i \in DOMAIN fs[f].steps : fs[f].steps[i].out \notin cells

(* Cells that no pending term computes become known: as the value of a     *)
(* term, to a name, a statement or a machine, or to a step of the plan.    *)
LEMMA ApartKept ==
  ASSUME NEW fs, NEW pl, NEW new, Apart(fs, pl), Avoids(fs, new),
         Known' \subseteq Known \cup new,
         \A j \in DOMAIN plan' :
           \/ \E m \in DOMAIN pl : plan'[j] = pl[m]
           \/ Reads(plan'[j]) \cup {plan'[j].out} \subseteq new,
         \A k \in DOMAIN frames' :
           /\ \/ frames'[k].steps = <<>>
              \/ k \in DOMAIN fs /\ frames'[k].steps = fs[k].steps
           /\ \/ frames'[k].lhs \in new
              \/ k \in DOMAIN fs /\ frames'[k].lhs = fs[k].lhs
  PROVE  PendingUnknown'
<1> SUFFICES ASSUME NEW k \in DOMAIN frames', NEW i \in DOMAIN frames'[k].steps
             PROVE  LET o == frames'[k].steps[i].out
                    IN  /\ o \notin Known'
                        /\ \A j \in DOMAIN plan' : o \notin Reads(plan'[j]) /\ o # plan'[j].out
                        /\ \A g \in DOMAIN frames' \ {k} : Unknown(o, frames'[g])
                        /\ Later(frames'[k].steps, i)
  BY DEF PendingUnknown, Apart
<1>1. PICK o : o = frames'[k].steps[i].out
  OBVIOUS
<1>2. k \in DOMAIN fs /\ frames'[k].steps = fs[k].steps /\ i \in DOMAIN fs[k].steps
  OBVIOUS
<1>3. /\ o \notin Known /\ o \notin new
      /\ \A m \in DOMAIN pl : o \notin Reads(pl[m]) /\ o # pl[m].out
      /\ \A g \in DOMAIN fs \ {k} : Unknown(o, fs[g])
      /\ Later(fs[k].steps, i)
  <2>1. o = fs[k].steps[i].out
    BY <1>1, <1>2
  <2> QED BY <1>2, <2>1 DEF Apart, Avoids
<1>4. ASSUME NEW j \in DOMAIN plan' PROVE o \notin Reads(plan'[j]) /\ o # plan'[j].out
  BY <1>3
<1>5. ASSUME NEW g \in DOMAIN frames' \ {k} PROVE Unknown(o, frames'[g])
  <2>1. o # frames'[g].lhs
    <3>1. CASE frames'[g].lhs \in new
      BY <1>3, <3>1
    <3>2. CASE g \in DOMAIN fs /\ frames'[g].lhs = fs[g].lhs
      BY <1>3, <3>2 DEF Unknown
    <3> QED BY <3>1, <3>2
  <2>2. CASE frames'[g].steps = <<>>
    BY <2>1, <2>2 DEF Unknown
  <2>3. CASE g \in DOMAIN fs /\ frames'[g].steps = fs[g].steps
    BY <1>3, <2>1, <2>3 DEF Unknown
  <2> QED BY <2>2, <2>3
<1> QED BY <1>1, <1>2, <1>3, <1>4, <1>5

(* The cells a pending step computes exist.                                *)
LEMMA PendingCells ==
  ASSUME TypeOK, NEW k \in DOMAIN frames, NEW i \in DOMAIN frames[k].steps
  PROVE  frames[k].steps[i].out \in 1..Len(heap)
<1>1. frames[k] \in FramesOver(Len(heap))
  BY DEF TypeOK, EvalOK
<1>2. frames[k].steps[i] \in AddSteps(Len(heap))
  BY <1>1 DEF FramesOver
<1> QED BY <1>2 DEF AddSteps

(* Everything a name, a statement or a machine knows is a handle.          *)
LEMMA KnownHandles ==
  ASSUME TypeOK PROVE Known \subseteq 0..Len(heap)
<1>1. Len(heap) \in Nat /\ elems \in Seq(0..Len(heap))
  BY DEF TypeOK, HeapOK, EvalOK, Handle, Cells
<1>2. Range(elems) \subseteq 0..Len(heap)
  BY <1>1 DEF Range
<1>3. Range(symbols) \subseteq 0..Len(heap) /\ Range(mutables) \subseteq 0..Len(heap)
  BY <1>1, HeapGrows DEF Range
<1>4. ASSUME NEW k \in DOMAIN machines
      PROVE  machines[k].env \cup Range(machines[k].elems) \subseteq 0..Len(heap)
  <2>1. machines[k] \in MachinesOver(Len(heap))
    BY DEF TypeOK, MachinesOK
  <2>2. machines[k].env \subseteq 0..Len(heap) /\ machines[k].elems \in Seq(0..Len(heap))
    BY <2>1 DEF MachinesOver
  <2> QED BY <2>2 DEF Range
<1> QED BY <1>2, <1>3, <1>4 DEF Known

(* What is abandoned only makes less known.                                *)
LEMMA AbandonKnown ==
  ASSUME TypeOK, mode = "running", heap' \in Seq(Cell), Len(heap) <= Len(heap'),
         NEW k \in 0..Len(machines), Abandon(k)
  PROVE  /\ Known' \subseteq Known \cup Range(symbols') \cup Range(mutables')
         /\ \A j \in DOMAIN frames' : j \in DOMAIN frames /\ j \in 1..Base /\ frames'[j] = frames[j]
<1>1. /\ \A j \in DOMAIN frames' : j \in DOMAIN frames /\ j <= BaseOf(k) /\ frames'[j] = frames[j]
      /\ elems' = <<>> /\ machines' = SubSeq(machines, 1, k)
  BY AbandonType
<1>2. /\ BaseOf(k) \in Nat /\ BaseOf(k) <= Base /\ Base \in Nat /\ Len(machines) \in Nat
      /\ frames \in Seq(FramesOver(Len(heap))) /\ machines \in Seq(MachinesOver(Len(heap)))
  BY Bases DEF TypeOK, EvalOK, MachinesOK
<1>3. ASSUME NEW j \in DOMAIN machines' PROVE j \in DOMAIN machines /\ machines'[j] = machines[j]
  BY <1>1, <1>2
<1>4. Range(elems') = {}
  BY <1>1 DEF Range
<1>5. ASSUME NEW r \in Known' PROVE r \in Known \cup Range(symbols') \cup Range(mutables')
  BY <1>3, <1>4 DEF Known
<1>6. ASSUME NEW j \in DOMAIN frames'
      PROVE  j \in DOMAIN frames /\ j \in 1..Base /\ frames'[j] = frames[j]
  BY <1>1, <1>2
<1> QED BY <1>5, <1>6

(* An expression fails within the terms fs, whose outer ones are as they   *)
(* were: what those compute stays unknown.                                 *)
LEMMA FailApart ==
  ASSUME TypeOK, mode = "running", heap' \in Seq(Cell), Len(heap) <= Len(heap'),
         NEW fs, NEW pl, Apart(fs, pl), NEW error, Fail(error, pl),
         \A j \in 1..Base : j \in DOMAIN fs /\ fs[j] = frames[j],
         Avoids(fs, Range(symbols') \cup Range(mutables'))
  PROVE  PendingUnknown' /\ plan' = pl
<1> DEFINE new == Range(symbols') \cup Range(mutables')
<1>1. plan' = pl
  BY FailAbandons
<1>2. PICK k \in 0..Len(machines) : Abandon(k)
  BY FailAbandons
<1>3. /\ Known' \subseteq Known \cup new
      /\ \A j \in DOMAIN frames' : j \in DOMAIN fs /\ frames'[j] = fs[j]
  BY <1>2, AbandonKnown
<1>4. \A j \in DOMAIN plan' : \E m \in DOMAIN pl : plan'[j] = pl[m]
  BY <1>1
<1> HIDE DEF new
<1>5. Avoids(fs, new)
  BY DEF new
<1> QED BY <1>1, <1>3, <1>4, <1>5, ApartKept

(* What the tables know no pending term computes.                          *)
LEMMA TablesApart ==
  ASSUME NEW fs, NEW pl, Apart(fs, pl), UNCHANGED <<symbols, mutables>>
  PROVE  Avoids(fs, Range(symbols') \cup Range(mutables'))
BY DEF Apart, Avoids, Known

(* The innermost, n-th, of the terms fs compiles its next operator: its    *)
(* (l + 1)-th step, with output c and second operand r.                    *)
Compiles(fs, pl, n, l, c, r) ==
  /\ n \in Nat \ {0} /\ DOMAIN fs = 1..n /\ l \in Nat /\ DOMAIN fs[n].steps = 1..l
  /\ Known' = Known /\ plan' = pl /\ DOMAIN frames' = 1..n
  /\ \A k \in 1..n : k # n => frames'[k] = fs[k]
  /\ frames'[n].lhs = c /\ DOMAIN frames'[n].steps = 1..(l + 1)
  /\ \A i \in 1..l : frames'[n].steps[i] = fs[n].steps[i]
  /\ frames'[n].steps[l + 1].out = c
  /\ Reads(frames'[n].steps[l + 1]) = {fs[n].lhs, r}

(* Nothing refers to the cell c yet.                                       *)
Fresh(fs, pl, c) ==
  /\ c \notin Known
  /\ \A j \in DOMAIN pl : pl[j].out # c /\ c \notin Reads(pl[j])
  /\ \A k \in DOMAIN fs : /\ fs[k].lhs # c
                          /\ \A i \in DOMAIN fs[k].steps :
                               fs[k].steps[i].out # c /\ c \notin Reads(fs[k].steps[i])

(* The new step's output is a cell that nothing refers to.                 *)
LEMMA NextOperandApart ==
  ASSUME NEW fs, NEW pl, NEW n, NEW l, NEW c, NEW r, r # c,
         Apart(fs, pl), Compiles(fs, pl, n, l, c, r), Fresh(fs, pl, c),
         \A k \in DOMAIN fs : k # n => \A i \in DOMAIN fs[k].steps : fs[k].steps[i].out # r
  PROVE  PendingUnknown'
<1> USE DEF Compiles, Fresh
<1> SUFFICES ASSUME NEW k \in 1..n, NEW i \in DOMAIN frames'[k].steps
             PROVE  /\ frames'[k].steps[i].out \notin Known
                    /\ \A j \in DOMAIN pl : /\ frames'[k].steps[i].out \notin Reads(pl[j])
                                            /\ frames'[k].steps[i].out # pl[j].out
                    /\ \A g \in 1..n \ {k} : Unknown(frames'[k].steps[i].out, frames'[g])
                    /\ Later(frames'[k].steps, i)
  BY DEF PendingUnknown, Apart
<1>0. n \in 1..n
  OBVIOUS
<1>1. ASSUME i \in DOMAIN fs[k].steps
      PROVE  /\ fs[k].steps[i].out \notin Known
             /\ \A j \in DOMAIN pl : /\ fs[k].steps[i].out \notin Reads(pl[j])
                                     /\ fs[k].steps[i].out # pl[j].out
             /\ \A g \in 1..n \ {k} : Unknown(fs[k].steps[i].out, fs[g])
             /\ Later(fs[k].steps, i)
  <2>1. DOMAIN fs = 1..n
    OBVIOUS
  <2> HIDE DEF Compiles, Fresh
  <2> QED BY <1>1, <2>1 DEF Apart
<1>2. CASE k # n
  <2>1. frames'[k] = fs[k] /\ i \in DOMAIN fs[k].steps
    BY <1>2
  <2>2. ASSUME NEW g \in 1..n \ {k} PROVE Unknown(fs[k].steps[i].out, frames'[g])
    <3>1. Unknown(fs[k].steps[i].out, fs[g])
      BY <1>1, <2>1
    <3>2. CASE g = n
      <4>1. fs[k].steps[i].out \notin {fs[n].lhs, r, c}
        BY <1>2, <2>1, <3>1, <3>2 DEF Unknown
      <4>2. ASSUME NEW j \in 1..(l + 1)
            PROVE  /\ fs[k].steps[i].out \notin Reads(frames'[n].steps[j])
                   /\ fs[k].steps[i].out # frames'[n].steps[j].out
        <5>1. CASE j \in 1..l
          <6>1. frames'[n].steps[j] = fs[n].steps[j] /\ j \in DOMAIN fs[n].steps
            BY <5>1
          <6> QED BY <3>1, <3>2, <6>1 DEF Unknown
        <5>2. CASE j = l + 1
          BY <4>1, <5>2
        <5> QED BY <5>1, <5>2
      <4> QED BY <3>2, <4>1, <4>2 DEF Unknown
    <3>3. CASE g # n
      BY <3>1, <3>3
    <3> QED BY <3>2, <3>3
  <2> QED BY <1>1, <2>1, <2>2
<1>3. ASSUME NEW g \in 1..n \ {n} PROVE frames'[g] = fs[g]
  OBVIOUS
<1>4. CASE k = n /\ i \in 1..l
  <2>1. frames'[n].steps[i] = fs[n].steps[i] /\ i \in DOMAIN fs[k].steps
    BY <1>4
  <2>2. Later(frames'[n].steps, i)
    <3>1. Later(fs[n].steps, i)
      BY <1>1, <1>4, <2>1
    <3>2. \A j \in 1..i : frames'[n].steps[j] = fs[n].steps[j]
      BY <1>4
    <3> QED BY <2>1, <3>1, <3>2 DEF Later
  <2> QED BY <1>1, <1>3, <1>4, <2>1, <2>2
<1>5. CASE k = n /\ i = l + 1
  <2>1. ASSUME NEW g \in 1..n \ {n} PROVE Unknown(c, frames'[g])
    BY <1>3 DEF Unknown
  <2>2. ASSUME NEW j \in 1..i
        PROVE  c \notin Reads(frames'[n].steps[j]) /\ (j # i => frames'[n].steps[j].out # c)
    <3>1. CASE j = i
      BY <1>0, <1>5, <3>1
    <3>2. CASE j # i
      <4>1. j \in 1..l /\ frames'[n].steps[j] = fs[n].steps[j]
        BY <1>5, <3>2
      <4> QED BY <1>0, <4>1
    <3> QED BY <3>1, <3>2
  <2>3. Later(frames'[n].steps, i)
    BY <1>5, <2>2 DEF Later
  <2> QED BY <1>5, <2>1, <2>3
<1>6. k = n => i \in 1..(l + 1)
  OBVIOUS
<1> QED BY <1>2, <1>4, <1>5, <1>6

(* An operand evaluated to a cell that no term is computing.               *)
LEMMA OperandApart ==
  ASSUME TypeOK, InTerm, NEW h \in Seq(Cell), Len(heap) <= Len(h), NEW r \in 0..Len(h),
         NEW fs \in Seq(FramesOver(Len(heap))), Len(fs) > Base,
         \A j \in 1..Base : fs[j] = frames[j],
         NEW pl \in Seq(StepsOver(Len(heap))), Operand(h, r, fs, pl), Apart(fs, pl),
         Avoids(fs, {r})
  PROVE  PendingUnknown'
<1> DEFINE N == Len(heap)
<1>0. PICK c : c = Len(h) + 1
  OBVIOUS
<1>1. PICK n \in Nat \ {0} : n = Len(fs) /\ DOMAIN fs = 1..n
  BY Bases
<1>2. N \in Nat /\ Len(h) \in Nat /\ c \in Nat /\ c > N /\ r # c /\ n \in 1..n
  BY <1>0 DEF TypeOK, HeapOK
<1> DEFINE f == fs[n]
           step == Step("add", <<f.lhs, r>>, c)
<1>3. \A k \in 1..n : fs[k] \in FramesOver(N) /\ fs[k].lhs \in -1..N /\ fs[k].steps \in Seq(AddSteps(N))
  <2>1. \A k \in 1..n : fs[k] \in FramesOver(N)
    BY <1>1
  <2> QED BY <2>1 DEF FramesOver
<1>4. Last(fs) = f
  BY <1>1 DEF Last
<1>5. DOMAIN Front(fs) = 1..(n - 1) /\ \A k \in 1..(n - 1) : Front(fs)[k] = fs[k]
  BY <1>1 DEF Front
<1>6. Front(fs) \in Seq(FramesOver(N)) /\ Len(Front(fs)) = n - 1
  <2>1. fs # <<>>
    BY <1>1
  <2>2. Front(fs) \in Seq(FramesOver(N)) /\ Len(Front(fs)) = Len(fs) - 1
    BY <2>1, Parts
  <2> QED BY <1>1, <2>2
<1>7. ASSUME NEW g, frames' = Append(Front(fs), g)
      PROVE  DOMAIN frames' = 1..n /\ frames'[n] = g /\ \A k \in 1..n : k # n => frames'[k] = fs[k]
  <2>1. Len(frames') = n /\ frames'[n] = g /\ DOMAIN frames' = 1..n
    BY <1>6, <1>7
  <2>2. ASSUME NEW k \in 1..n, k # n PROVE frames'[k] = fs[k]
    <3>1. k \in 1..(n - 1)
      BY <2>2
    <3>2. frames'[k] = Front(fs)[k]
      BY <1>6, <1>7, <3>1
    <3> QED BY <1>5, <3>1, <3>2
  <2> QED BY <2>1, <2>2
<1>8. \A k \in 1..n : k # n => \A i \in DOMAIN fs[k].steps : fs[k].steps[i].out # r
  BY <1>1 DEF Avoids
<1> HIDE DEF f
<1>9. CASE f.lhs = NoValue
  <2>1. plan' = pl /\ symbols' = symbols /\ frames' = Append(Front(fs), [f EXCEPT !.lhs = r])
    BY <1>4, <1>9 DEF Operand
  <2>2. /\ DOMAIN frames' = 1..n /\ frames'[n] = [f EXCEPT !.lhs = r]
        /\ \A k \in 1..n : k # n => frames'[k] = fs[k]
    BY <1>7, <2>1
  <2>3. f \in FramesOver(N)
    BY <1>2, <1>3 DEF f
  <2>4. frames'[n].lhs = r /\ frames'[n].steps = fs[n].steps
    BY <2>2, <2>3 DEF FramesOver, f
  <2>5. \A k \in DOMAIN frames' :
          /\ k \in DOMAIN fs /\ frames'[k].steps = fs[k].steps
          /\ frames'[k].lhs \in {r} \/ frames'[k].lhs = fs[k].lhs
    BY <1>1, <2>2, <2>4
  <2>6. Known' = Known
    BY <1>4, <1>9 DEF Operand, Known
  <2> QED BY <2>1, <2>5, <2>6, ApartKept
<1>10. CASE f.lhs # NoValue /\ IsKind(h, f.lhs, "f64") /\ IsKind(h, r, "f64")
  <2>1. /\ plan' = pl /\ Known' = Known
        /\ frames' = Append(Front(fs), [lhs |-> c, steps |-> Append(f.steps, step)])
    BY <1>0, <1>4, <1>10 DEF Operand, Known
  <2>2. /\ DOMAIN frames' = 1..n /\ frames'[n] = [lhs |-> c, steps |-> Append(f.steps, step)]
        /\ \A k \in 1..n : k # n => frames'[k] = fs[k]
    BY <1>7, <2>1
  <2>3. step.out = c /\ Reads(step) = {f.lhs, r}
    BY DEF Step, Reads, Range
  <2> HIDE DEF step
  <2>4. PICK l \in Nat : l = Len(f.steps) /\ DOMAIN f.steps = 1..l
    BY <1>2, <1>3 DEF f
  <2>5. f.steps \in Seq(AddSteps(N)) /\ frames'[n].lhs = c /\ frames'[n].steps = Append(f.steps, step)
    BY <1>2, <1>3, <2>2 DEF f
  <2>6. /\ DOMAIN frames'[n].steps = 1..(l + 1) /\ frames'[n].steps[l + 1] = step
        /\ \A i \in 1..l : frames'[n].steps[i] = f.steps[i]
    BY <2>4, <2>5
  <2>7. ASSUME NEW k \in 1..n, NEW i \in DOMAIN fs[k].steps
        PROVE  fs[k].steps[i].out # c /\ c \notin Reads(fs[k].steps[i])
    <3>1. fs[k].steps[i] \in StepsOver(N)
      BY <1>3 DEF StepsOver
    <3> QED BY <1>2, <3>1, StepCells
  <2>8. ASSUME NEW j \in DOMAIN pl PROVE pl[j].out # c /\ c \notin Reads(pl[j])
    <3>1. pl[j] \in StepsOver(N)
      OBVIOUS
    <3> QED BY <1>2, <3>1, StepCells
  <2>9. c \notin Known
    BY <1>2, KnownHandles
  <2>10. \A k \in 1..n : fs[k].lhs # c
    BY <1>2, <1>3
  <2>11. l \in Nat /\ DOMAIN fs[n].steps = 1..l /\ \A i \in 1..l : frames'[n].steps[i] = fs[n].steps[i]
    BY <2>4, <2>6 DEF f
  <2>12. frames'[n].steps[l + 1].out = c /\ Reads(frames'[n].steps[l + 1]) = {fs[n].lhs, r}
    BY <2>3, <2>6 DEF f
  <2>13. Fresh(fs, pl, c)
    BY <1>1, <2>7, <2>8, <2>9, <2>10 DEF Fresh
  <2>14. Compiles(fs, pl, n, l, c, r)
    BY <1>1, <2>1, <2>2, <2>5, <2>6, <2>11, <2>12 DEF Compiles
  <2> QED BY <1>1, <1>2, <1>8, <2>13, <2>14, NextOperandApart
<1>11. ASSUME heap' = h, Fail("UnhandledFunctionArgumentKind", pl), UNCHANGED <<symbols, mutables>>
       PROVE  PendingUnknown'
  <2>1. \A j \in 1..Base : j \in DOMAIN fs /\ fs[j] = frames[j]
    BY <1>1, Bases
  <2>2. Avoids(fs, Range(symbols') \cup Range(mutables'))
    BY <1>11, TablesApart
  <2> QED BY <1>11, <2>1, <2>2, FailApart DEF InTerm
<1>12. \/ f.lhs = NoValue
       \/ f.lhs # NoValue /\ IsKind(h, f.lhs, "f64") /\ IsKind(h, r, "f64")
       \/ heap' = h /\ Fail("UnhandledFunctionArgumentKind", pl) /\ UNCHANGED <<symbols, mutables>>
  BY <1>4 DEF Operand
<1> QED BY <1>9, <1>10, <1>11, <1>12

(* Closing the innermost term appends its steps to the plan: the plan      *)
(* stays in order, and the cells of the outer terms stay unknown to it.    *)
LEMMA CloseInOrder ==
  ASSUME TypeOK, OrderInv, frames # <<>>,
         NEW pl, pl = AppendSteps(plan, Last(frames))
  PROVE  /\ pl \in Seq(StepsOver(Len(heap)))
         /\ plan' = pl => PlanOrder'
         /\ Front(frames) \in Seq(FramesOver(Len(heap))) /\ Len(Front(frames)) = Len(frames) - 1
         /\ Apart(Front(frames), pl)
         /\ \A k \in DOMAIN Front(frames) : \A i \in DOMAIN Front(frames)[k].steps :
              Front(frames)[k].steps[i].out # Last(frames).lhs
<1> DEFINE N == Len(heap)
<1>1. PICK n \in Nat \ {0} : n = Len(frames) /\ DOMAIN frames = 1..n
  BY DEF TypeOK, EvalOK
<1> DEFINE f == frames[n]
<1>2. N \in Nat /\ plan \in Seq(StepsOver(N)) /\ frames \in Seq(FramesOver(N)) /\ n \in 1..n
  BY DEF TypeOK, HeapOK, PlanOK, EvalOK
<1>3. f.steps \in Seq(StepsOver(N))
  <2>1. f \in FramesOver(N)
    BY <1>1, <1>2
  <2>2. f.steps \in Seq(AddSteps(N))
    BY <2>1 DEF FramesOver
  <2> QED BY <2>2 DEF StepsOver
<1>4. Last(frames) = f /\ pl = plan \o f.steps
  BY <1>1 DEF Last, AppendSteps
<1>5. /\ DOMAIN Front(frames) = 1..(n - 1) /\ Len(Front(frames)) = n - 1
      /\ \A k \in 1..(n - 1) : Front(frames)[k] = frames[k]
  BY <1>1, <1>2 DEF Front
<1>6. Front(frames) \in Seq(FramesOver(N))
  BY <1>2, Parts
<1>7. pl \in Seq(StepsOver(N))
  <2>1. \A S : \A a, b \in Seq(S) : a \o b \in Seq(S)
    OBVIOUS
  <2> QED BY <1>2, <1>3, <1>4, <2>1
<1>8. ASSUME NEW k \in 1..n, NEW i \in DOMAIN frames[k].steps
      PROVE  /\ frames[k].steps[i].out \notin Known
             /\ \A j \in DOMAIN plan : /\ frames[k].steps[i].out \notin Reads(plan[j])
                                       /\ frames[k].steps[i].out # plan[j].out
             /\ \A g \in 1..n \ {k} : Unknown(frames[k].steps[i].out, frames[g])
             /\ Later(frames[k].steps, i)
  BY <1>1 DEF OrderInv, PendingUnknown, Apart
<1> HIDE DEF f, N
<1>9. ASSUME plan' = pl PROVE PlanOrder'
  <2>1. \A i \in DOMAIN f.steps :
          /\ Later(f.steps, i)
          /\ \A j \in DOMAIN plan : f.steps[i].out \notin Reads(plan[j]) /\ f.steps[i].out # plan[j].out
    BY <1>2, <1>8 DEF f
  <2> QED BY <1>2, <1>3, <1>4, <1>9, <2>1, OrderGrows DEF OrderInv
<1>10. ASSUME NEW k \in 1..(n - 1), NEW i \in DOMAIN frames[k].steps
       PROVE  /\ frames[k].steps[i].out \notin Known
              /\ \A j \in DOMAIN pl : /\ frames[k].steps[i].out \notin Reads(pl[j])
                                      /\ frames[k].steps[i].out # pl[j].out
              /\ \A g \in 1..(n - 1) \ {k} : Unknown(frames[k].steps[i].out, frames[g])
              /\ Later(frames[k].steps, i)
              /\ frames[k].steps[i].out # f.lhs
  <2>1. k \in 1..n /\ k # n
    BY <1>1
  <2>2. Unknown(frames[k].steps[i].out, f)
    BY <1>2, <1>8, <2>1 DEF f
  <2>3. ASSUME NEW j \in DOMAIN pl
        PROVE  frames[k].steps[i].out \notin Reads(pl[j]) /\ frames[k].steps[i].out # pl[j].out
    <3>1. (j \in DOMAIN plan /\ pl[j] = plan[j])
          \/ (\E m \in DOMAIN f.steps : pl[j] = f.steps[m])
      <4>1. /\ Len(plan) \in Nat /\ Len(f.steps) \in Nat /\ DOMAIN pl = 1..(Len(plan) + Len(f.steps))
            /\ DOMAIN plan = 1..Len(plan) /\ DOMAIN f.steps = 1..Len(f.steps)
        BY <1>2, <1>3, <1>4
      <4>2. CASE j <= Len(plan)
        BY <1>2, <1>3, <1>4, <4>1, <4>2
      <4>3. CASE j > Len(plan)
        <5>1. j - Len(plan) \in DOMAIN f.steps /\ pl[j] = f.steps[j - Len(plan)]
          BY <1>2, <1>3, <1>4, <4>1, <4>3
        <5> QED BY <5>1
      <4> QED BY <4>1, <4>2, <4>3
    <3>2. CASE j \in DOMAIN plan /\ pl[j] = plan[j]
      BY <1>8, <2>1, <3>2
    <3>3. CASE \E m \in DOMAIN f.steps : pl[j] = f.steps[m]
      BY <2>2, <3>3 DEF Unknown
    <3> QED BY <3>1, <3>2, <3>3
  <2>4. \A g \in 1..(n - 1) \ {k} : Unknown(frames[k].steps[i].out, frames[g])
    BY <1>1, <1>8, <2>1
  <2>5. frames[k].steps[i].out # f.lhs
    BY <2>2 DEF Unknown
  <2> QED BY <1>8, <2>1, <2>3, <2>4, <2>5
<1>11. Apart(Front(frames), pl)
  <2> SUFFICES ASSUME NEW k \in 1..(n - 1), NEW i \in DOMAIN Front(frames)[k].steps
               PROVE  LET o == Front(frames)[k].steps[i].out
                      IN  /\ o \notin Known
                          /\ \A j \in DOMAIN pl : o \notin Reads(pl[j]) /\ o # pl[j].out
                          /\ \A g \in 1..(n - 1) \ {k} : Unknown(o, Front(frames)[g])
                          /\ Later(Front(frames)[k].steps, i)
    BY <1>5 DEF Apart
  <2>1. Front(frames)[k] = frames[k] /\ i \in DOMAIN frames[k].steps
    BY <1>5
  <2>2. \A g \in 1..(n - 1) \ {k} : Front(frames)[g] = frames[g]
    BY <1>5
  <2> QED BY <1>10, <2>1, <2>2
<1>12. ASSUME NEW k \in 1..(n - 1), NEW i \in DOMAIN Front(frames)[k].steps
       PROVE  Front(frames)[k].steps[i].out # f.lhs
  <2>1. Front(frames)[k] = frames[k] /\ i \in DOMAIN frames[k].steps
    BY <1>5
  <2> QED BY <1>10, <2>1
<1> QED BY <1>1, <1>4, <1>5, <1>6, <1>7, <1>9, <1>11, <1>12 DEF N

(* What happens to the plan when an operand is evaluated.                  *)
LEMMA OperandPlan ==
  ASSUME NEW h, NEW r, NEW fs, NEW pl, Operand(h, r, fs, pl)
  PROVE  plan' = pl
BY DEF Operand, Fail

(* A define being evaluated keeps its name unbound until it binds it, or   *)
(* until its expression calls a machine.                                   *)
LEMMA NextDefinesNew ==
  ASSUME TypeOK, DefinesNew, [Next]_vars PROVE DefinesNew'
<1>1. CASE UNCHANGED <<stmt, symbols>>
  BY <1>1 DEF DefinesNew
<1>2. CASE stmt' = NoStmt
  BY <1>2 DEF DefinesNew, NoStmt, Statement
<1>2a. ASSUME NEW error, NEW pl, Fail(error, pl) PROVE stmt' = NoStmt
  BY <1>2a DEF Fail, Abandon
<1>3. ASSUME NEW s \in Statements, BeginStatement(s) PROVE DefinesNew'
  <2>1. CASE Fail("VariableAlreadyDefined", plan)
    BY <1>2, <1>2a, <2>1
  <2>2. CASE stmt' = s /\ ~(s.op = "define" /\ AlreadyDefined(s.names[1])) /\ symbols' = symbols
    BY <2>2 DEF DefinesNew, AlreadyDefined
  <2> QED BY <1>3, <2>1, <2>2 DEF BeginStatement
<1>4. ASSUME NEW h, NEW r, NEW fs, NEW pl, Operand(h, r, fs, pl)
      PROVE  UNCHANGED <<stmt, symbols>> \/ stmt' = NoStmt
  BY <1>2a, <1>4 DEF Operand
<1>5. ASSUME NEW v \in Literals, Literal(v) PROVE DefinesNew'
  BY <1>1, <1>2, <1>4, <1>5 DEF Literal
<1>6. ASSUME NEW n \in Names \cup {Ans}, Variable(n) PROVE DefinesNew'
  BY <1>1, <1>2, <1>2a, <1>4, <1>6 DEF Variable
<1>6a. ASSUME NEW r \in Handle, EnvironmentValue(r) PROVE DefinesNew'
  BY <1>1, <1>2, <1>4, <1>6a DEF EnvironmentValue
<1>7. CASE CloseTerm
  <2>1. UNCHANGED <<stmt, symbols>> \/ stmt' = NoStmt
    BY <1>4, <1>7 DEF CloseTerm
  <2> QED BY <1>1, <1>2, <2>1
<1>8. CASE VariableDefine \/ VariableDefineKind \/ Assign \/ AddAssign \/ TupleDestructure
           \/ FsmDeclare \/ Expression \/ InlineExpression \/ Panic \/ CallMachine \/ MachineFails
  BY <1>2, <1>2a, <1>8
  DEF VariableDefine, VariableDefineKind, Assign, AddAssign, VariableAssign, TupleDestructure,
      FsmDeclare, Expression, InlineExpression, Panic, CallMachine, MachineFails, Abandon, SaveSymbol,
      Done
<1>8a. ASSUME NEW r \in Handle, Return(r) PROVE DefinesNew'
  <2>1. stmt' = Last(machines).stmt /\ machines # <<>>
    BY <1>8a DEF Return
  <2>2. Last(machines) \in MachinesOver(Len(heap))
    BY <2>1, Parts DEF TypeOK, MachinesOK
  <2>3. stmt' \in {NoStmt} \cup {Called(s) : s \in Statements}
    BY <2>1, <2>2 DEF MachinesOver
  <2>4. CASE stmt' \in {Called(s) : s \in Statements}
    BY <2>4, CalledFlag DEF DefinesNew
  <2> QED BY <1>2, <2>3, <2>4
<1>9. CASE Clear
  <2>1. stmt' = stmt /\ stmt = NoStmt
    BY <1>9 DEF Clear, TypeOK, EvalOK
  <2> QED BY <1>2, <2>1
<1> QED
  BY <1>1, <1>3, <1>5, <1>6, <1>6a, <1>7, <1>8, <1>8a, <1>9
  DEF Next, vars, Interpret, EndProgram, OpenTerm, MachineExpression, NextElement, StepPlan,
      SolveStep, EndStep, ClearPlan

(* Every step of the interpreter keeps the plan in dataflow order.         *)
LEMMA NextOrder ==
  ASSUME TypeOK, OrderInv, [Next]_vars
  PROVE  PlanOrder' /\ PendingUnknown'
<1> DEFINE N == Len(heap)
<1>0. /\ heap \in Seq(Cell) /\ N \in Nat /\ plan \in Seq(StepsOver(N)) /\ frames \in Seq(FramesOver(N))
      /\ PlanOrder /\ PendingUnknown /\ Apart(frames, plan)
      /\ Base \in Nat /\ Base <= Len(frames) /\ Len(frames) \in Nat
  BY Bases DEF TypeOK, HeapOK, PlanOK, EvalOK, OrderInv, PendingUnknown
<1>1. CASE UNCHANGED <<plan, frames, symbols, mutables, elems, machines>>
  <2>1. Known' = Known
    BY <1>1 DEF Known
  <2> QED BY <1>0, <1>1, <2>1 DEF PlanOrder, PendingUnknown, Apart, Unknown, Later, Reads, Computes
<1>2. ASSUME plan' = plan PROVE PlanOrder'
  BY <1>0, <1>2 DEF PlanOrder, Reads, Computes
<1>3. ASSUME NEW new, Avoids(frames, new), Known' \subseteq Known \cup new,
             NEW t \in Seq(StepsOver(N + 1)), plan' = plan \o t,
             \A i \in DOMAIN t :
               /\ Reads(t[i]) \cup {t[i].out} \subseteq new
               /\ Computes(t[i]) => i = 1 /\ t[i].out = N + 1 /\ N + 1 \notin Reads(t[i]),
             \A k \in DOMAIN frames' : k \in DOMAIN frames /\ frames'[k] = frames[k]
      PROVE  PlanOrder' /\ PendingUnknown'
  <2>1. plan \in Seq(StepsOver(N + 1))
    BY <1>0, HeapGrows
  <2>2. \A j \in DOMAIN plan : N + 1 \notin Reads(plan[j]) /\ N + 1 # plan[j].out
    <3>1. \A j \in DOMAIN plan : plan[j] \in StepsOver(N)
      BY <1>0
    <3> QED BY <1>0, <3>1, StepCells
  <2>3. ASSUME NEW i \in DOMAIN t, Computes(t[i])
        PROVE  /\ Later(t, i)
               /\ \A j \in DOMAIN plan : t[i].out \notin Reads(plan[j]) /\ t[i].out # plan[j].out
    <3>1. i = 1 /\ t[i].out = N + 1 /\ N + 1 \notin Reads(t[i])
      BY <1>3, <2>3
    <3> QED BY <2>2, <3>1 DEF Later
  <2>4. PlanOrder'
    BY <1>0, <1>3, <2>1, <2>3, OrderGrows
  <2>5. ASSUME NEW j \in DOMAIN plan'
        PROVE  \/ \E m \in DOMAIN plan : plan'[j] = plan[m]
               \/ Reads(plan'[j]) \cup {plan'[j].out} \subseteq new
    <3>1. /\ Len(plan) \in Nat /\ Len(t) \in Nat /\ DOMAIN plan' = 1..(Len(plan) + Len(t))
          /\ DOMAIN plan = 1..Len(plan) /\ DOMAIN t = 1..Len(t)
          /\ \A i \in 1..Len(plan) : plan'[i] = plan[i]
          /\ \A i \in (Len(plan) + 1)..(Len(plan) + Len(t)) : plan'[i] = t[i - Len(plan)]
      BY <1>0, <1>3
    <3>2. CASE j <= Len(plan)
      BY <3>1, <3>2
    <3>3. CASE j > Len(plan)
      <4>1. j - Len(plan) \in DOMAIN t /\ plan'[j] = t[j - Len(plan)]
        BY <3>1, <3>3
      <4> QED BY <1>3, <4>1
    <3> QED BY <3>1, <3>2, <3>3
  <2>6. PendingUnknown'
    BY <1>0, <1>3, <2>5, ApartKept
  <2> QED BY <2>4, <2>6
<1>4. ASSUME plan' = plan, NEW new, Avoids(frames, new), Known' \subseteq Known \cup new,
             \A k \in DOMAIN frames' :
               /\ \/ frames'[k].steps = <<>>
                  \/ k \in DOMAIN frames /\ frames'[k].steps = frames[k].steps
               /\ \/ frames'[k].lhs \in new
                  \/ k \in DOMAIN frames /\ frames'[k].lhs = frames[k].lhs
      PROVE  PlanOrder' /\ PendingUnknown'
  <2>1. \A j \in DOMAIN plan' : \E m \in DOMAIN plan : plan'[j] = plan[m]
    BY <1>4
  <2> QED BY <1>0, <1>2, <1>4, <2>1, ApartKept
<1>5. ASSUME mode = "running", heap' = heap, NEW error, Fail(error, plan),
             UNCHANGED <<symbols, mutables>>
      PROVE  PlanOrder' /\ PendingUnknown'
  <2>1. Avoids(frames, Range(symbols') \cup Range(mutables'))
    BY <1>0, <1>5, TablesApart
  <2>2. \A j \in 1..Base : j \in DOMAIN frames /\ frames[j] = frames[j]
    BY <1>0
  <2>3. heap' \in Seq(Cell) /\ Len(heap) <= Len(heap') /\ Apart(frames, plan)
    BY <1>0, <1>5
  <2>4. PendingUnknown' /\ plan' = plan
    BY <1>5, <2>1, <2>2, <2>3, FailApart
  <2> QED BY <1>2, <2>4
<1>6. \A r : r \in Known \cup {NoValue, NonScalar, N + 1} => Avoids(frames, {r})
  <2>1. Avoids(frames, Known)
    BY <1>0 DEF Apart, Avoids
  <2>2. Avoids(frames, {NoValue, NonScalar, N + 1})
    BY <1>0, PendingCells DEF Avoids, NoValue, NonScalar
  <2> QED BY <2>1, <2>2 DEF Avoids
<1>7. \A S : S \subseteq Known \cup {NoValue, NonScalar, N + 1} => Avoids(frames, S)
  BY <1>6 DEF Avoids
<1>8. ASSUME InTerm, NEW h \in Seq(Cell), N <= Len(h), NEW r \in 0..Len(h),
             r \in Known \cup {NonScalar, N + 1}, Operand(h, r, frames, plan)
      PROVE  PlanOrder' /\ PendingUnknown'
  <2>1. Avoids(frames, {r})
    BY <1>6, <1>8
  <2>2. Len(frames) > Base /\ \A j \in 1..Base : frames[j] = frames[j]
    BY <1>8 DEF InTerm
  <2>3. PendingUnknown'
    BY <1>0, <1>8, <2>1, <2>2, OperandApart
  <2> QED BY <1>2, <1>8, <2>3, OperandPlan
<1>9. ASSUME elems' = <<>>, machines' = machines, UNCHANGED <<symbols, mutables>>
      PROVE  Known' \subseteq Known
  BY <1>9 DEF Known, Range
<1>10. ASSUME NEW s \in Statements, BeginStatement(s) PROVE PlanOrder' /\ PendingUnknown'
  <2>1. CASE Fail("VariableAlreadyDefined", plan)
    BY <1>5, <1>10, <2>1 DEF BeginStatement, Between
  <2>2. CASE /\ frames' = Append(frames, EmptyFrame) /\ plan' = plan
             /\ elems' = <<>> /\ machines' = machines
    <3>1. Known' \subseteq Known
      BY <1>9, <1>10, <2>2 DEF BeginStatement
    <3>2. \A k \in DOMAIN frames' : frames'[k] = EmptyFrame \/ (k \in DOMAIN frames /\ frames'[k] = frames[k])
      BY <1>0, <2>2
    <3>3. EmptyFrame.steps = <<>> /\ EmptyFrame.lhs \in {NoValue}
      BY DEF EmptyFrame
    <3> QED BY <1>4, <1>7, <2>2, <3>1, <3>2, <3>3
  <2> QED BY <1>10, <2>1, <2>2 DEF BeginStatement
<1>11. ASSUME NEW v \in Literals, Literal(v) PROVE PlanOrder' /\ PendingUnknown'
  <2> DEFINE h == Append(heap, v)
             r == N + 1
  <2>1. v \in Cell
    BY ConstantsAssumption DEF Literals, Cell, Kinds
  <2>2. h \in Seq(Cell) /\ Len(h) = N + 1 /\ r \in 0..Len(h) /\ N <= Len(h)
    BY <1>0, <2>1
  <2>3. InTerm /\ Operand(h, r, frames, plan)
    BY <1>11 DEF Literal, Evaluating
  <2> HIDE DEF h
  <2> QED BY <1>8, <2>2, <2>3
<1>12. ASSUME NEW n \in Names \cup {Ans}, Variable(n) PROVE PlanOrder' /\ PendingUnknown'
  <2>1. CASE n \in DOMAIN symbols
    <3>1. InTerm /\ Operand(heap, symbols[n], frames, plan) /\ symbols[n] \in 0..N
      BY <1>12, <2>1 DEF Variable, Evaluating, TypeOK, TablesOK, Handle, Cells, NonScalar
    <3>2. symbols[n] \in Known
      BY <2>1 DEF Known, Range
    <3> QED BY <1>0, <1>8, <3>1, <3>2
  <2>2. CASE n \notin DOMAIN symbols
    BY <1>5, <1>12, <2>2 DEF Variable, Evaluating, InTerm
  <2> QED BY <2>1, <2>2
<1>12a. ASSUME machines # <<>>
        PROVE  /\ Last(machines).env \cup Range(Last(machines).elems) \subseteq Known
               /\ Last(machines).base = Base /\ Base > 0
  <2>1. Len(machines) \in DOMAIN machines /\ Last(machines) = machines[Len(machines)] /\ Len(machines) # 0
    BY <1>12a, Parts DEF TypeOK, MachinesOK
  <2> QED BY <1>12a, <2>1, Bases DEF Known, Base, BaseOf
<1>12b. Env \subseteq Known
  BY <1>12a DEF Env
<1>13. ASSUME NEW r \in Handle, EnvironmentValue(r) PROVE PlanOrder' /\ PendingUnknown'
  <2>1. InTerm /\ Operand(heap, r, frames, plan) /\ r \in Known /\ r \in 0..N
    BY <1>12b, <1>13 DEF EnvironmentValue, Evaluating, Handle, Cells, NonScalar
  <2> QED BY <1>0, <1>8, <2>1
<1>14. ASSUME frames' = Append(frames, EmptyFrame), UNCHANGED <<plan, symbols, mutables, elems, machines>>
       PROVE  PlanOrder' /\ PendingUnknown'
  <2>1. Known' \subseteq Known
    BY <1>14 DEF Known
  <2>2. \A k \in DOMAIN frames' : frames'[k] = EmptyFrame \/ (k \in DOMAIN frames /\ frames'[k] = frames[k])
    BY <1>0, <1>14
  <2>3. EmptyFrame.steps = <<>> /\ EmptyFrame.lhs \in {NoValue}
    BY DEF EmptyFrame
  <2> QED BY <1>4, <1>7, <1>14, <2>1, <2>2, <2>3
<1>15. CASE OpenTerm \/ MachineExpression \/ NextElement
  BY <1>14, <1>15 DEF OpenTerm, MachineExpression, NextElement
<1>16. CASE CloseTerm
  <2> DEFINE pl == AppendSteps(plan, Last(frames))
             fs == Front(frames)
             r  == Last(frames).lhs
  <2>1. frames # <<>> /\ r # NoValue /\ InTerm /\ Len(frames) > Base
    BY <1>0, <1>16 DEF CloseTerm, InTerm
  <2>2. /\ pl \in Seq(StepsOver(N)) /\ (plan' = pl => PlanOrder')
        /\ fs \in Seq(FramesOver(N)) /\ Len(fs) = Len(frames) - 1 /\ Apart(fs, pl)
        /\ Avoids(fs, {r})
    BY <2>1, CloseInOrder DEF Avoids
  <2>3. r \in 0..N /\ \A j \in 1..(Len(frames) - 1) : fs[j] = frames[j]
    <3>1. Last(frames) \in FramesOver(N)
      BY <1>0, <2>1, Parts
    <3>2. \A j \in 1..(Len(frames) - 1) : fs[j] = frames[j]
      BY <1>0, <2>1, Parts
    <3> QED BY <1>0, <2>1, <3>1, <3>2 DEF FramesOver, NoValue
  <2>4. CASE Len(frames) > Base + 1
    <3>1. Operand(heap, r, fs, pl)
      BY <1>16, <2>4 DEF CloseTerm
    <3>2. Len(fs) > Base /\ \A j \in 1..Base : fs[j] = frames[j]
      BY <1>0, <2>2, <2>3, <2>4
    <3> HIDE DEF pl, fs, r
    <3>3. PendingUnknown'
      <4>1. heap \in Seq(Cell) /\ Len(heap) <= Len(heap) /\ r \in 0..Len(heap)
        BY <1>0, <2>3
      <4> QED BY <2>1, <2>2, <3>1, <3>2, <4>1, OperandApart
    <3> QED BY <2>2, <3>1, <3>3, OperandPlan
  <2>5. CASE ~(Len(frames) > Base + 1)
    <3>1. /\ plan' = pl /\ frames' = fs /\ UNCHANGED <<symbols, mutables>>
          /\ \/ /\ machines' = [machines EXCEPT ![Len(machines)].env = @ \cup {r}]
                /\ elems' = elems
             \/ elems' = Append(elems, r) /\ machines' = machines
      BY <1>16, <2>5 DEF CloseTerm
    <3> HIDE DEF pl, fs, r
    <3>2. Known' \subseteq Known \cup {r}
      <4>1. CASE machines' = [machines EXCEPT ![Len(machines)].env = @ \cup {r}] /\ elems' = elems
        <5>1. /\ DOMAIN machines' = DOMAIN machines
              /\ \A k \in DOMAIN machines : /\ machines'[k].elems = machines[k].elems
                                            /\ machines'[k].env \subseteq machines[k].env \cup {r}
          <6>1. machines \in Seq(MachinesOver(N)) /\ \A k \in DOMAIN machines : machines[k] \in MachinesOver(N)
            BY DEF TypeOK, MachinesOK
          <6> QED BY <4>1, <6>1 DEF MachinesOver
        <5> QED BY <3>1, <4>1, <5>1 DEF Known
      <4>2. CASE elems' = Append(elems, r) /\ machines' = machines
        <5>1. elems \in Seq(Handle)
          BY DEF TypeOK, EvalOK
        <5>2. Range(elems') \subseteq Range(elems) \cup {r}
          BY <4>2, <5>1 DEF Range
        <5> QED BY <3>1, <4>2, <5>2 DEF Known
      <4> QED BY <3>1, <4>1, <4>2
    <3>3. \A j \in DOMAIN plan' : \E m \in DOMAIN pl : plan'[j] = pl[m]
      BY <3>1
    <3>4. \A k \in DOMAIN frames' : k \in DOMAIN fs /\ frames'[k] = fs[k]
      BY <3>1
    <3>5. PendingUnknown'
      BY <2>2, <3>2, <3>3, <3>4, ApartKept
    <3> QED BY <2>2, <3>1, <3>5
  <2> QED BY <2>4, <2>5
<1>17. ASSUME NEW k \in 0..Len(machines), Abandon(k), mode = "running",
              UNCHANGED <<heap, symbols, mutables, plan>>
       PROVE  PlanOrder' /\ PendingUnknown'
  <2>1. /\ Known' \subseteq Known \cup Range(symbols') \cup Range(mutables')
        /\ \A j \in DOMAIN frames' : j \in DOMAIN frames /\ frames'[j] = frames[j]
    BY <1>0, <1>17, AbandonKnown
  <2>2. Known' \subseteq Known
    BY <1>17, <2>1 DEF Known
  <2>3. Avoids(frames, {})
    BY DEF Avoids
  <2> QED BY <1>4, <1>17, <2>1, <2>2, <2>3
<1>18. CASE Panic
  <2>1. 0 \in 0..Len(machines)
    BY Bases
  <2> QED BY <1>17, <1>18, <2>1 DEF Panic
<1>19. CASE CallMachine
  <2>1. Known' \subseteq Known
    <3> DEFINE call == [stmt |-> IF stmt = NoStmt THEN NoStmt ELSE Called(stmt),
                        elems |-> elems, base |-> Len(frames), env |-> Env]
    <3>1. /\ machines' = Append(machines, call) /\ elems' = <<>> /\ UNCHANGED <<symbols, mutables>>
          /\ call.elems = elems /\ call.env = Env
      BY <1>19 DEF CallMachine
    <3> HIDE DEF call
    <3>2. \A k \in DOMAIN machines' : machines'[k] = call \/ (k \in DOMAIN machines /\ machines'[k] = machines[k])
      BY <3>1 DEF TypeOK, MachinesOK
    <3>3. Range(elems') = {} /\ Range(elems) \subseteq Known
      BY <3>1 DEF Range, Known
    <3>4. \A k \in DOMAIN machines' : machines'[k].env \cup Range(machines'[k].elems) \subseteq Known
      BY <1>12b, <3>1, <3>2, <3>3 DEF Known
    <3> QED BY <3>1, <3>3, <3>4 DEF Known
  <2>2. Avoids(frames, {}) /\ plan' = plan /\ frames' = frames
    BY <1>19 DEF Avoids, CallMachine
  <2> QED BY <1>4, <2>1, <2>2
<1>20. ASSUME NEW r \in Handle, Return(r) PROVE PlanOrder' /\ PendingUnknown'
  <2>1. /\ machines # <<>> /\ r \in Last(machines).env \cup {NonScalar}
        /\ elems' = Last(machines).elems /\ machines' = Front(machines)
        /\ frames' = [frames EXCEPT ![Base].lhs = r]
        /\ plan' = plan /\ UNCHANGED <<symbols, mutables>>
    BY <1>20 DEF Return
  <2>2. Known' \subseteq Known
    <3>1. \A k \in DOMAIN machines' : k \in DOMAIN machines /\ machines'[k] = machines[k]
      BY <2>1, Parts DEF TypeOK, MachinesOK
    <3>2. Range(elems') \subseteq Known
      BY <1>12a, <2>1
    <3> QED BY <2>1, <3>1, <3>2 DEF Known
  <2>3. Avoids(frames, {r})
    BY <1>6, <1>12a, <2>1
  <2>4. ASSUME NEW k \in DOMAIN frames'
        PROVE  /\ k \in DOMAIN frames /\ frames'[k].steps = frames[k].steps
               /\ frames'[k].lhs \in {r} \/ frames'[k].lhs = frames[k].lhs
    <3>1. k \in DOMAIN frames /\ frames[k] \in FramesOver(N)
      BY <1>0, <2>1, <2>4
    <3>2. frames'[k] = frames[k] \/ frames'[k] = [frames[k] EXCEPT !.lhs = r]
      BY <2>1, <3>1
    <3> QED BY <3>1, <3>2 DEF FramesOver
  <2> QED BY <1>4, <2>1, <2>2, <2>3, <2>4
<1>21. CASE MachineFails
  BY <1>5, <1>21 DEF MachineFails, Between
<1>22. ASSUME NEW op, Ready(op), op # "none"
       PROVE  /\ mode = "running" /\ stmt \in Evaluated /\ stmt.op = op /\ elems # <<>>
              /\ elems \in Seq(0..N) /\ elems[1] \in 0..N /\ elems[1] \in Known
  <2>1. /\ mode = "running" /\ stmt \in Evaluated /\ stmt.op = op /\ elems # <<>>
        /\ elems \in Seq(0..N) /\ elems[1] \in 0..N
    BY <1>22, ReadyStatement
  <2>2. 1 \in DOMAIN elems
    BY <2>1
  <2> QED BY <2>1, <2>2 DEF Known, Range
<1>23. ASSUME NEW new, NEW syms, NEW r \in new, Done(syms, r),
              Range(syms) \cup Range(mutables') \subseteq Known \cup new
       PROVE  frames' = frames /\ Known' \subseteq Known \cup new
  <2>1. /\ frames' = frames /\ elems' = <<>> /\ machines' = machines
        /\ symbols' = syms \/ symbols' = Bind(syms, Ans, r)
    BY <1>23 DEF Done
  <2>2. Range(symbols') \subseteq Range(syms) \cup {r}
    BY <2>1 DEF Bind, Range
  <2>3. Range(elems') = {}
    BY <2>1 DEF Range
  <2> QED BY <1>23, <2>1, <2>2, <2>3 DEF Known
<1>24. \A f, n, v : Range(Bind(f, n, v)) \subseteq Range(f) \cup {v}
  BY DEF Bind, Range
<1>25. ASSUME NEW r, NEW new, r \in new, SaveSymbol(stmt.names[1], r, stmt.mutable)
       PROVE  frames' = frames /\ Known' \subseteq Known \cup new
  <2>1. Done(Bind(symbols, stmt.names[1], r), r)
    BY <1>25 DEF SaveSymbol
  <2>2. Range(mutables') \subseteq Range(mutables) \cup {r}
    BY <1>24, <1>25 DEF SaveSymbol
  <2>3. Range(symbols) \cup Range(mutables) \subseteq Known
    BY DEF Known
  <2> QED BY <1>23, <1>24, <1>25, <2>1, <2>2, <2>3
<1>26. CASE VariableDefine
  <2> DEFINE r == elems[1]
             define == Step("define", <<>>, r)
             t == <<define>>
  <2>1. r \in Known /\ r \in 0..N /\ plan' = Append(plan, define) /\ SaveSymbol(stmt.names[1], r, stmt.mutable)
    BY <1>22, <1>26 DEF VariableDefine
  <2>2. define \in StepsOver(N + 1) /\ ~Computes(define) /\ Reads(define) = {r} /\ define.out = r
    BY <1>0, <2>1 DEF Step, StepsOver, Computes, Reads, Range
  <2> HIDE DEF define
  <2>3. t \in Seq(StepsOver(N + 1)) /\ plan' = plan \o t /\ DOMAIN t = {1} /\ t[1] = define
    BY <1>0, <2>1, <2>2
  <2>4. Avoids(frames, {r}) /\ frames' = frames /\ Known' \subseteq Known \cup {r}
    BY <1>6, <1>25, <2>1
  <2> HIDE DEF t, r
  <2> QED BY <1>3, <2>2, <2>3, <2>4
<1>27. CASE VariableDefineKind
  <2> DEFINE r == elems[1]
             c == N + 1
             convert == Step("convert", <<r>>, c)
             define  == Step("define", <<>>, c)
             t == <<convert, define>>
             new == {r, c}
  <2>1. r \in Known /\ r \in 0..N /\ mode = "running"
    BY <1>22, <1>27 DEF VariableDefineKind
  <2>2. CASE IsKind(heap, r, stmt.kind)
    <3>1. plan' = plan \o t /\ r \in 1..N /\ SaveSymbol(stmt.names[1], c, stmt.mutable)
      BY <1>27, <2>2 DEF VariableDefineKind, IsKind
    <3>2. /\ convert \in StepsOver(c) /\ define \in StepsOver(c) /\ ~Computes(define)
          /\ convert.out = c /\ Reads(convert) = {r} /\ define.out = c /\ Reads(define) = {c}
      BY <1>0, <3>1 DEF Step, StepsOver, Computes, Reads, Range
    <3> HIDE DEF convert, define
    <3>3. t \in Seq(StepsOver(c)) /\ DOMAIN t = 1..2 /\ t[1] = convert /\ t[2] = define
      BY <3>2
    <3>4. \A i \in DOMAIN t :
            /\ Reads(t[i]) \cup {t[i].out} \subseteq new
            /\ Computes(t[i]) => i = 1 /\ t[i].out = c /\ c \notin Reads(t[i])
      <4>1. c \notin {r}
        BY <1>0, <3>1
      <4> QED BY <3>2, <3>3, <4>1
    <3>5. Avoids(frames, new)
      BY <1>7, <2>1
    <3>6. frames' = frames /\ Known' \subseteq Known \cup new
      BY <1>25, <3>1
    <3> HIDE DEF t, r, new
    <3> QED BY <1>3, <3>1, <3>3, <3>4, <3>5, <3>6
  <2>3. CASE ~IsKind(heap, r, stmt.kind)
    BY <1>5, <1>27, <2>1, <2>3 DEF VariableDefineKind
  <2> QED BY <2>2, <2>3
<1>28. ASSUME NEW op \in {"assign", "addassign"}, VariableAssign(op)
       PROVE  PlanOrder' /\ PendingUnknown'
  <2> DEFINE n == stmt.names[1]
             r == elems[1]
             sink == mutables[n]
             step == Step(op, <<r>>, sink)
             t == <<step>>
             new == {r, sink}
  <2>1. r \in Known /\ mode = "running"
    BY <1>22, <1>28 DEF VariableAssign
  <2>2. CASE ~(/\ n \in DOMAIN mutables /\ AssignArm(heap, sink, r)
               /\ op = "addassign" => IsKind(heap, sink, "f64"))
    <3>1. PICK error : Fail(error, plan) /\ UNCHANGED <<heap, symbols, mutables>>
      BY <1>28, <2>2 DEF VariableAssign, GetMutable
    <3> QED BY <1>5, <2>1, <3>1
  <2>3. CASE /\ n \in DOMAIN mutables /\ AssignArm(heap, sink, r)
             /\ op = "addassign" => IsKind(heap, sink, "f64")
    <3>1. plan' = Append(plan, step) /\ Done(symbols, sink) /\ mutables' = mutables
      BY <1>28, <2>3 DEF VariableAssign, GetMutable
    <3>2. step \in StepsOver(N) /\ ~Computes(step) /\ Reads(step) = {r} /\ step.out = sink
      BY <2>3 DEF AssignArm, Assignable, Step, StepsOver, Computes, Reads, Range
    <3>3. sink \in Known
      BY <2>3 DEF Known, Range
    <3>4. step \in StepsOver(N + 1)
      BY <1>0, <3>2, StepsGrow
    <3> HIDE DEF step
    <3>5. t \in Seq(StepsOver(N + 1)) /\ plan' = plan \o t /\ DOMAIN t = {1} /\ t[1] = step
      BY <1>0, <3>1, <3>4
    <3>6. Range(symbols) \cup Range(mutables') \subseteq Known \cup new /\ sink \in new
      BY <3>1 DEF Known
    <3> HIDE DEF sink, r
    <3>7. frames' = frames /\ Known' \subseteq Known \cup new
      BY <1>23, <3>1, <3>6
    <3>8. Avoids(frames, new)
      BY <1>7, <2>1, <3>3
    <3>9. \A i \in DOMAIN t : Reads(t[i]) \cup {t[i].out} \subseteq new /\ ~Computes(t[i])
      BY <3>2, <3>5
    <3> HIDE DEF t, new
    <3> QED BY <1>3, <3>5, <3>7, <3>8, <3>9
  <2> QED BY <2>2, <2>3
<1>29. CASE TupleDestructure
  <2> DEFINE names == {stmt.names[i] : i \in Accepted}
             val(n) == elems[CHOOSE i \in Accepted : stmt.names[i] = n]
             insert(f) == [n \in DOMAIN f \cup names |-> IF n \in names THEN val(n) ELSE f[n]]
  <2>1. /\ mode = "running" /\ elems \in Seq(0..N) /\ heap' = heap
        /\ mutables' = insert(mutables)
        /\ \/ Done(insert(symbols), NonScalar) /\ plan' = plan
           \/ Fail("TupleDestructure", plan) /\ symbols' = insert(symbols)
    BY <1>22, <1>29 DEF TupleDestructure
  <2>2. \A n \in names : val(n) \in Known
    <3>1. ASSUME NEW n \in names PROVE val(n) \in Known
      <4>1. PICK i \in Accepted : i = CHOOSE j \in Accepted : stmt.names[j] = n
        BY <3>1
      <4>2. i \in DOMAIN elems
        <5>1. stmt \in Evaluated /\ stmt.op = "destructure"
          BY <1>22, <1>29 DEF TupleDestructure
        <5>2. i \in 1..2
          BY <5>1, StatementNames DEF Accepted
        <5>3. i \in 1..i
          BY <5>2
        <5>4. i <= Len(elems)
          BY <5>3 DEF Accepted
        <5> QED BY <2>1, <5>2, <5>4
      <4> QED BY <4>1, <4>2 DEF Known, Range
    <3> QED BY <3>1
  <2>3. \A f : Range(insert(f)) \subseteq Range(f) \cup Known
    BY <2>2 DEF Range
  <2> HIDE DEF insert
  <2>4. Range(insert(symbols)) \cup Range(mutables') \subseteq Known
    <3>1. Range(symbols) \cup Range(mutables) \subseteq Known
      BY DEF Known
    <3> QED BY <2>1, <2>3, <3>1
  <2>5. CASE Done(insert(symbols), NonScalar) /\ plan' = plan
    <3>1. frames' = frames /\ Known' \subseteq Known \cup {NonScalar}
      BY <1>23, <2>4, <2>5
    <3> QED BY <1>4, <1>6, <2>5, <3>1
  <2>6. CASE Fail("TupleDestructure", plan) /\ symbols' = insert(symbols)
    <3>1. Avoids(frames, Range(symbols') \cup Range(mutables'))
      BY <1>7, <2>4, <2>6
    <3>2. \A j \in 1..Base : j \in DOMAIN frames /\ frames[j] = frames[j]
      BY <1>0
    <3>3. heap' \in Seq(Cell) /\ Len(heap) <= Len(heap') /\ Apart(frames, plan)
      BY <1>0, <2>1
    <3>4. PendingUnknown' /\ plan' = plan
      BY <2>1, <2>6, <3>1, <3>2, <3>3, FailApart
    <3> QED BY <1>2, <3>4
  <2> QED BY <2>1, <2>5, <2>6
<1>30. CASE FsmDeclare \/ Expression \/ InlineExpression
  <2> DEFINE r == elems[1]
  <2>1. r \in Known /\ plan' = plan /\ mutables' = mutables
    BY <1>22, <1>30 DEF FsmDeclare, Expression, InlineExpression
  <2>2. Range(symbols) \cup Range(mutables) \subseteq Known
    BY DEF Known
  <2>3. frames' = frames /\ Known' \subseteq Known \cup {r}
    <3>1. CASE FsmDeclare
      <4>1. Done(Bind(symbols, stmt.names[1], r), r)
        BY <3>1 DEF FsmDeclare
      <4> HIDE DEF r
      <4> QED BY <1>23, <1>24, <2>1, <2>2, <4>1
    <3>2. CASE Expression
      <4>1. Done(symbols, r)
        BY <3>2 DEF Expression
      <4> HIDE DEF r
      <4> QED BY <1>23, <2>1, <2>2, <4>1
    <3>3. CASE InlineExpression
      BY <1>9, <3>3 DEF InlineExpression
    <3> QED BY <1>30, <3>1, <3>2, <3>3
  <2> QED BY <1>4, <1>6, <2>1, <2>3
<1>31. CASE Clear \/ ClearPlan
  <2>1. plan' = <<>> /\ frames' = <<>>
    BY <1>31 DEF Clear, ClearPlan, TypeOK, EvalOK
  <2> QED BY <2>1 DEF PlanOrder, PendingUnknown, Apart
<1> QED
  BY <1>1, <1>10, <1>11, <1>12, <1>13, <1>15, <1>16, <1>18, <1>19, <1>20, <1>21, <1>26, <1>27,
     <1>28, <1>29, <1>30, <1>31
  DEF Next, vars, Interpret, EndProgram, StepPlan, SolveStep, EndStep, Assign, AddAssign

(* The initial state is in order.                                          *)
LEMMA InitOrder == Init => OrderInv
BY DEF Init, OrderInv, PlanOrder, PendingUnknown, Apart, DefinesNew, NoStmt, Statement

(* In every reachable state the plan is in dataflow order, the cells that  *)
(* pending steps compute are unknown, and the name of a define that has    *)
(* called no machine is unbound.                                           *)
THEOREM OrderInvariance == Spec => []OrderInv
<1>1. TypeOK /\ OrderInv /\ [Next]_vars => OrderInv'
  <2> SUFFICES ASSUME TypeOK, OrderInv, [Next]_vars PROVE OrderInv'
    OBVIOUS
  <2>1. PlanOrder' /\ PendingUnknown'
    BY NextOrder
  <2>2. DefinesNew'
    BY NextDefinesNew DEF OrderInv
  <2> QED BY <2>1, <2>2 DEF OrderInv
<1> QED BY <1>1, InitOrder, TypeCorrect, PTL DEF Spec

(* The step that computes a cell comes before every step that reads it,    *)
(* and no two steps compute the same cell, however the terms were nested   *)
(* and whatever machines they called.                                      *)
THEOREM PlanIsInOrder == Spec => []PlanOrder
<1>1. OrderInv => PlanOrder
  BY DEF OrderInv
<1> QED BY <1>1, OrderInvariance, PTL

(* No destructuring, failure or return of a machine rebinds a name: until  *)
(* the interpreter is cleared only "ans", state machine declarations and   *)
(* defines whose own expression called a machine do.                       *)
THEOREM NamesKeepTheirCells == Spec => NoRebinding
<1> DEFINE Kept == \A n \in DOMAIN symbols \ {Ans} :
                     /\ n \in DOMAIN symbols'
                     /\ ~(stmt.op = "fsm" /\ stmt.names[1] = n)
                     /\ ~(stmt.op = "define" /\ stmt.called /\ stmt.names[1] = n)
                     => symbols'[n] = symbols[n]
<1>1. TypeOK /\ OrderInv /\ [Next]_vars => [Kept]_vars
  <2> SUFFICES ASSUME DefinesNew, TypeOK, Next, NEW n \in DOMAIN symbols, n # Ans,
                      n \in DOMAIN symbols', ~(stmt.op = "fsm" /\ stmt.names[1] = n),
                      ~(stmt.op = "define" /\ stmt.called /\ stmt.names[1] = n)
               PROVE  symbols'[n] = symbols[n]
    BY DEF OrderInv
  <2>1. CASE symbols' = symbols
    BY <2>1
  <2>2. ASSUME NEW r, Done(symbols, r) PROVE symbols'[n] = symbols[n]
    BY <2>2 DEF Done, Bind
  <2>3. ASSUME NEW r, NEW m, SaveSymbol(stmt.names[1], r, m), stmt.op = "define"
        PROVE  symbols'[n] = symbols[n]
    <3>1. n # stmt.names[1]
      BY <2>3 DEF DefinesNew
    <3>2. symbols' = Bind(symbols, stmt.names[1], r)
          \/ symbols' = Bind(Bind(symbols, stmt.names[1], r), Ans, r)
      BY <2>3 DEF SaveSymbol, Done
    <3> QED BY <3>1, <3>2 DEF Bind
  <2>4. ASSUME NEW h, NEW r, NEW fs, NEW pl, Operand(h, r, fs, pl) PROVE symbols' = symbols
    BY <2>4 DEF Operand
  <2>5. CASE VariableDefine
    BY <2>3, <2>5 DEF VariableDefine, Ready
  <2>6. CASE VariableDefineKind
    BY <2>1, <2>3, <2>6 DEF VariableDefineKind, Ready
  <2>7. ASSUME NEW op, VariableAssign(op) PROVE symbols'[n] = symbols[n]
    BY <2>1, <2>2, <2>7 DEF VariableAssign
  <2>8. CASE TupleDestructure
    <3> DEFINE new == {stmt.names[i] : i \in Accepted}
               val(k) == elems[CHOOSE i \in Accepted : stmt.names[i] = k]
               insert == [k \in DOMAIN symbols \cup new |-> IF k \in new THEN val(k) ELSE symbols[k]]
    <3>1. n \notin new
      <4>1. ASSUME NEW i \in Accepted PROVE i \in 1..i /\ ~AlreadyDefined(stmt.names[i])
        <5>1. stmt \in Evaluated /\ stmt.op = "destructure"
          BY <2>8, ReadyStatement DEF TupleDestructure
        <5>2. i \in 1..2
          BY <5>1, StatementNames DEF Accepted
        <5>3. i \in 1..i
          BY <5>2
        <5> QED BY <5>3 DEF Accepted
      <4> QED BY <4>1 DEF AlreadyDefined
    <3>2. insert[n] = symbols[n]
      BY <3>1
    <3>3. symbols' = insert \/ symbols' = Bind(insert, Ans, NonScalar)
      BY <2>8 DEF TupleDestructure, Done
    <3> HIDE DEF new, val
    <3>4. n \in DOMAIN insert
      OBVIOUS
    <3> HIDE DEF insert
    <3> QED BY <3>2, <3>3, <3>4 DEF Bind
  <2>9. CASE Clear
    BY <2>9 DEF Clear
  <2>10. CASE Expression
    BY <2>2, <2>10 DEF Expression
  <2>11. ASSUME NEW v \in Literals, Literal(v) PROVE symbols' = symbols
    BY <2>4, <2>11 DEF Literal
  <2>12. ASSUME NEW k \in Names \cup {Ans}, Variable(k) PROVE symbols' = symbols
    BY <2>4, <2>12 DEF Variable
  <2>12a. ASSUME NEW r \in Handle, EnvironmentValue(r) PROVE symbols' = symbols
    BY <2>4, <2>12a DEF EnvironmentValue
  <2>13. CASE CloseTerm
    BY <2>1, <2>4, <2>13 DEF CloseTerm
  <2>14. CASE FsmDeclare
    <3>1. symbols' = Bind(symbols, stmt.names[1], elems[1])
          \/ symbols' = Bind(Bind(symbols, stmt.names[1], elems[1]), Ans, elems[1])
      BY <2>14 DEF FsmDeclare, Done
    <3>2. n # stmt.names[1]
      BY <2>14 DEF FsmDeclare, Ready
    <3> QED BY <3>1, <3>2 DEF Bind
  <2> QED
    BY <2>1, <2>5, <2>6, <2>7, <2>8, <2>9, <2>10, <2>11, <2>12, <2>12a,
       <2>13, <2>14
    DEF Next, Interpret, EndProgram, Panic, BeginStatement, OpenTerm, CallMachine,
        MachineExpression, Return, MachineFails, Assign, AddAssign,
        NextElement, InlineExpression, StepPlan, SolveStep, EndStep, ClearPlan
<1> QED BY <1>1, OrderInvariance, TypeCorrect, PTL DEF Spec, NoRebinding
=============================================================================
