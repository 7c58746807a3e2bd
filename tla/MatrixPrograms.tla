--------------------------- MODULE MatrixPrograms ---------------------------
(***************************************************************************)
(* Programs that read and assign parts of matrix variables and join them   *)
(* into matrices.  Each statement builds a function (a matrix literal one  *)
(* for each row and one for their stack, kept as one entry), appends it to *)
(* the plan and solves it; step solves the whole plan again, in order, on  *)
(* what the variables hold by then.  A statement whose function does not   *)
(* exist is an error and leaves no trace, but for the rows of a literal    *)
(* that were joined by then; a loop that leaves its storage stops the      *)
(* program.                                                                *)
(***************************************************************************)
EXTENDS Concatenation

CONSTANTS
  Cells,     \* names of mutable variables
  Initials,  \* what they may hold when the statements begin
  Script,   \* bound: Script[i] is the set of statements the i-th may be
  MaxSteps   \* bound: how often the plan is stepped

VARIABLES
  cells,     \* the value of each variable
  plan,      \* the functions built so far
  steps,     \* how often the plan was stepped
  last,      \* the statement, or the step, that was run last (for the properties)
  outcome    \* how it ended

vars == <<cells, plan, steps, last, outcome>>

-----------------------------------------------------------------------------
(* Statements.                                                             *)

Literal(v) == [source |-> "literal", value |-> v]
Variable(c) == [source |-> "variable", name |-> c]

ReadOf(c, subs)           == [do |-> "read", cell |-> c, subs |-> subs]
SetOf(c, subs, from)      == [do |-> "set", cell |-> c, subs |-> subs, from |-> from]
OpOf(op, c, subs, from)   == [do |-> "op", op |-> op, cell |-> c, subs |-> subs, from |-> from]
BuildOf(rows)             == [do |-> "build", rows |-> rows]

AnySource == [source : {"literal"}, value : AnyValue] \cup [source : {"variable"}, name : Cells]

AnyStatement ==
  [do : {"read"}, cell : Cells, subs : AnySubscripts \ {<< >>}]
  \cup [do : {"set"}, cell : Cells, subs : AnySubscripts, from : AnySource]
  \cup [do : {"op"}, op : Operators, cell : Cells, subs : AnySubscripts, from : AnySource]
  \cup [do : {"build"}, rows : Seq(Seq(AnySource) \ {<< >>}) \ {<< >>}]

ASSUME StatementsAssumption ==
  /\ Default \in Int /\ MaxSteps \in Nat
  /\ Initials \subseteq [Cells -> AnyValue]
  /\ Script \in Seq(SUBSET AnyStatement)

None    == [do |-> "none"]
Stepped == [do |-> "step"]

ValueIn(store, from) ==
  IF from.source = "literal" THEN from.value ELSE store[from.name]

\* The parts of a matrix literal, row by row.
PartsIn(store, s) == [r \in DOMAIN s.rows |-> [k \in DOMAIN s.rows[r] |-> ValueIn(store, s.rows[r][k])]]

IsItself(item) == item.s.from.source = "variable" /\ item.s.from.name = item.s.cell

Item(s, f) == [s |-> s, f |-> f]

Init ==
  /\ cells \in Initials
  /\ plan = << >> /\ steps = 0
  /\ last = None /\ outcome = "ok"

Ends(s, how) ==
  /\ last' = s /\ outcome' = how
  /\ UNCHANGED <<cells, plan, steps>>

\* x[...]: what is not implemented panics before a function is built.
Read(s) ==
  LET x == cells[s.cell]
      f == AccessFunction(x, s.subs)
  IN  \/ Family(s.subs) = <<"all", "all">> /\ Ends(s, "panic")
      \/ Family(s.subs) # <<"all", "all">> /\ f = NoFunction /\ Ends(s, "error")
      \/ /\ Family(s.subs) # <<"all", "all">> /\ f # NoFunction
         /\ AccessPanics(f, x) /\ Ends(s, "panic")
      \/ /\ Family(s.subs) # <<"all", "all">> /\ f # NoFunction
         /\ ~AccessPanics(f, x)
         /\ plan' = Append(plan, Item(s, AccessSolved(f, x)))
         /\ last' = s /\ outcome' = "ok"
         /\ UNCHANGED <<cells, steps>>

\* The part Set and OpSet share: the function f is built, pushed and solved.
Run(s, f) ==
  LET x == cells[s.cell]
      v == ValueIn(cells, s.from)
      item == Item(s, f)
  IN  \/ f = NoAssigns /\ Ends(s, "error")
      \/ f # NoAssigns /\ AssignPanics(f, x, v) /\ Ends(s, "panic")
      \/ /\ f # NoAssigns /\ ~AssignPanics(f, x, v)
         /\ cells' = [cells EXCEPT ![s.cell] = AssignSolved(f, x, v, IsItself(item))]
         /\ plan' = Append(plan, item)
         /\ last' = s /\ outcome' = "ok"
         /\ UNCHANGED steps

Set(s) ==
  \/ Family(s.subs) = <<"all", "all">> /\ Ends(s, "panic")
  \/ /\ Family(s.subs) # <<"all", "all">>
     /\ Run(s, AssignFunction(cells[s.cell], s.subs, ValueIn(cells, s.from)))

OpSet(s) ==
  \/ ~OpAssignable(s.subs) /\ Ends(s, "panic")
  \/ /\ OpAssignable(s.subs)
     /\ Run(s, OpAssignFunction(s.op, cells[s.cell], s.subs, ValueIn(cells, s.from)))

\* [a b; c d]
Build(s) ==
  LET f == matrix(PartsIn(cells, s))
  IN  IF MatrixPanics(f, PartsIn(cells, s)) THEN Ends(s, "panic")
      ELSE /\ plan' = IF f.rows = << >> THEN plan ELSE Append(plan, Item(s, f))
           /\ last' = s /\ outcome' = IF f.ok THEN "ok" ELSE "error"
           /\ UNCHANGED <<cells, steps>>

-----------------------------------------------------------------------------
(* step                                                                    *)

\* One function of the plan solved on a state [cells, plan, panicked].
SolveAt(state, k) ==
  LET item == state.plan[k]
      parts == PartsIn(state.cells, item.s)
      x == state.cells[item.s.cell]
      v == ValueIn(state.cells, item.s.from)
  IN  CASE state.panicked -> state
        [] ~state.panicked /\ item.s.do = "build" ->
             IF MatrixPanics(item.f, parts) THEN [state EXCEPT !.panicked = TRUE]
             ELSE [state EXCEPT !.plan[k].f = MatrixSolved(@, parts)]
        [] ~state.panicked /\ item.s.do = "read" ->
             IF AccessPanics(item.f, x) THEN [state EXCEPT !.panicked = TRUE]
             ELSE [state EXCEPT !.plan[k].f = AccessSolved(@, x)]
        [] ~state.panicked /\ item.s.do \in {"set", "op"} ->
             IF AssignPanics(item.f, x, v) THEN [state EXCEPT !.panicked = TRUE]
             ELSE [state EXCEPT !.cells[item.s.cell] = AssignSolved(item.f, x, v, IsItself(item))]

Now == [cells |-> cells, plan |-> plan, panicked |-> FALSE]

\* Plausible bug: the newest function is solved first.
MutNewestFirst == FoldLeft(SolveAt, Now, Reverse([k \in DOMAIN plan |-> k]))

SolvedPlan == FoldLeft(SolveAt, Now, [k \in DOMAIN plan |-> k])

Step ==
  /\ outcome # "panic" /\ plan # << >> /\ steps < MaxSteps
  /\ IF SolvedPlan.panicked
       THEN outcome' = "panic" /\ UNCHANGED <<cells, plan>>
       ELSE cells' = SolvedPlan.cells /\ plan' = SolvedPlan.plan /\ outcome' = "ok"
  /\ steps' = steps + 1 /\ last' = Stepped

Statement ==
  /\ outcome = "ok" /\ steps = 0 /\ Len(plan) < Len(Script)
  /\ \E s \in Script[Len(plan) + 1] :
       \/ s.do = "read" /\ Read(s)
       \/ s.do = "set" /\ Set(s)
       \/ s.do = "op" /\ OpSet(s)
       \/ s.do = "build" /\ Build(s)

Next == Statement \/ Step

Spec == Init /\ [][Next]_vars

-----------------------------------------------------------------------------
(* What the subscripts say, whatever loop serves them.                     *)

\* The positions a subscript selects of n, in order.
Selects(sub, n) ==
  LET ix == Prepared(sub)
      every == [i \in 1..n |-> i]
  IN  CASE ix.kind = "all" -> every
        [] ix.kind = "mask" -> SetBits(ix.on)
        [] ix.kind = "flag" -> IF ix.on[1] THEN every ELSE << >>
        [] OTHER -> ix.at

\* One subscript counts the elements down the columns, two the rows and columns.
RowsOf(x, subs) == Selects(subs[1], IF Len(subs) = 1 THEN Size(x) ELSE x.rows)
ColsOf(x, subs) == IF Len(subs) = 1 THEN <<1>> ELSE Selects(subs[2], x.cols)

PositionOf(x, subs, r, c) == IF Len(subs) = 1 THEN Index1d(x, r) ELSE Index2d(x, r, c)

MaskIn(sub, n) == sub.syntax = "formula" /\ AsIndex(sub.value).kind = "mask"
                  => Size(sub.value) = n

InBounds(x, subs) ==
  /\ MaskIn(subs[1], IF Len(subs) = 1 THEN Size(x) ELSE x.rows)
  /\ Len(subs) = 2 => MaskIn(subs[2], x.cols)
  /\ \A r \in ToSet(RowsOf(x, subs)), c \in ToSet(ColsOf(x, subs)) :
       PositionOf(x, subs, r, c) # Outside

SelectedBy(x, subs) ==
  {PositionOf(x, subs, r, c) : r \in ToSet(RowsOf(x, subs)), c \in ToSet(ColsOf(x, subs))}

\* The elements selected, column by column.
Reference(x, subs) ==
  LET rows == RowsOf(x, subs)
      cols == ColsOf(x, subs)
  IN  Loops(Len(cols), Len(rows), LAMBDA c, r : x.elems[PositionOf(x, subs, rows[r], cols[c])])

ByMask(subs) == \E i \in DOMAIN subs : Prepared(subs[i]).kind \in {"mask", "flag"}

\* A value of the shape of what is selected; under a mask, of the shape of x.
Fits(x, subs, v) ==
  \/ ~IsMatrix(v)
  \/ ~ByMask(subs) /\ v.rows = Len(RowsOf(x, subs)) /\ v.cols = Len(ColsOf(x, subs))
  \/ ByMask(subs) /\ SameShape(x, v)

-----------------------------------------------------------------------------
(* Properties.                                                             *)

\* Every variable keeps as many elements as its shape has, and results too.
TypeOK ==
  /\ \A c \in Cells : Size(cells[c]) = cells[c].rows * cells[c].cols
  /\ \A k \in DOMAIN plan : plan[k].s.do = "read" =>
       Size(plan[k].f.out) = plan[k].f.out.rows * plan[k].f.out.cols
  /\ steps \in 0..MaxSteps
  /\ outcome \in {"ok", "error", "panic"}

IsRead(k)  == plan[k].s.do = "read"
IsBuild(k) == plan[k].s.do = "build"
Writes(k)  == plan[k].s.do \in {"set", "op"}

\* The variables the result of k depends on.
Sources(k) ==
  LET row(r) == {plan[k].s.rows[r][i] : i \in DOMAIN plan[k].s.rows[r]}
      parts == UNION {row(r) : r \in DOMAIN plan[k].s.rows}
  IN  IF IsRead(k) THEN {plan[k].s.cell} ELSE {p.name : p \in {q \in parts : q.source = "variable"}}

\* Nothing wrote a variable that k reads since it was solved.
Current(k) ==
  \/ k = Len(plan) /\ last # Stepped
  \/ last = Stepped /\ \A j \in k..Len(plan) : Writes(j) => plan[j].s.cell \notin Sources(k)

\* x = v of a matrix, which may change its shape.
SetsWhole(k) == Writes(k) /\ plan[k].f.name = "assign_value" /\ IsMatrix(cells[plan[k].s.cell])

KeepsShapes(k) == \A j \in DOMAIN plan : SetsWhole(j) => plan[j].s.cell \notin Sources(k)

\* The functions that do not select as their subscripts say: README.md,
\* "Known divergences".
ScramblesRows(f) == f.name = "Access2DVDbA"
Misplaces == {"assign_2d_range_range_v", "assign_2d_range_range_vb", "assign_2d_all_range_v",
              "assign_2d_all_range_vb"}
Strays == {"assign_2d_range_range_ub", "assign_2d_range_all_b"}

\* A read whose subscripts are within the variable holds the elements they
\* select, column by column as they are stored, and still does after the plan is
\* stepped on other values. (The reference shows another order: MasksReadByRows.)
ReadsSelect ==
  \A k \in DOMAIN plan :
    LET x == cells[plan[k].s.cell]
        subs == plan[k].s.subs
    IN  IsRead(k) /\ Current(k) /\ ~ScramblesRows(plan[k].f) /\ InBounds(x, subs)
        /\ KeepsShapes(k)
        => plan[k].f.out.elems = Reference(x, subs)

\* The height of the rows over row h of a literal, and the width before part i.
Over(rows, h)   == MapThenSumSet(LAMBDA g : rows[g][1].rows, 1..h - 1)
Before(row, i)  == MapThenSumSet(LAMBDA j : row[j].cols, 1..i - 1)

\* A matrix literal holds each of its parts, whole and in its place, and nothing
\* else, and still does after the plan is stepped on other values.
LiteralsJoin ==
  \A k \in DOMAIN plan :
    IsBuild(k) /\ plan[k].f.ok /\ Current(k) /\ KeepsShapes(k) =>
      LET rows == PartsIn(cells, plan[k].s)
          y == MatrixOut(plan[k].f, rows)
          last_row == Len(rows)
      IN  /\ y.rows = Over(rows, last_row) + rows[last_row][1].rows
          /\ Size(y) = MapThenSumSet(LAMBDA h : rows[h][1].rows * Before(rows[h], Len(rows[h]) + 1), DOMAIN rows)
          /\ \A h \in DOMAIN rows : \A i \in DOMAIN rows[h] :
               LET part == rows[h][i]
               IN  \A r \in 1..part.rows, c \in 1..part.cols :
                     Nth(y.elems, Index2d(y, Over(rows, h) + r, Before(rows[h], i) + c))
                       = part.elems[Index2d(part, r, c)]

\* docs/reference/indexing.mec: `x[rows, :]` selects the rows where `rows` is true.
MaskedRowsAreRows ==
  \A k \in DOMAIN plan :
    LET x == cells[plan[k].s.cell]
        subs == plan[k].s.subs
    IN  IsRead(k) /\ Current(k) /\ ScramblesRows(plan[k].f) /\ InBounds(x, subs)
        => plan[k].f.out.elems = Reference(x, subs)

\* docs/reference/indexing.mec:55: x[x != 0] of [1 -2 3; 0 5 -1; 1 0 0] is
\* "[1, -2, 3, 5, -1]": a mask of the shape of x selects row by row.
MasksReadByRows ==
  \A k \in DOMAIN plan :
    LET x == cells[plan[k].s.cell]
        subs == plan[k].s.subs
        mask == subs[1].value
        by_rows == SelectSeq(Loops(x.rows, x.cols, LAMBDA r, c : Index2d(x, r, c)),
                             LAMBDA i : mask.elems[i] = 1)
    IN  IsRead(k) /\ Current(k) /\ Len(subs) = 1 /\ ByMask(subs) /\ SameShape(x, mask)
        => plan[k].f.out.elems = [i \in DOMAIN by_rows |-> x.elems[by_rows[i]]]

\* The assignment that the last transition ran, if it ran one.
Assigned == Len(plan') = Len(plan) + 1 /\ plan'[Len(plan')].s.do \in {"set", "op"}
Latest == plan'[Len(plan')]

\* An assignment to a part of a variable changes no other variable, no shape
\* and no element that its subscripts do not select.
AssignsOnlySelected ==
  [][Assigned /\ Latest.s.subs # << >> /\ Latest.f.name \notin Strays =>
       LET s == Latest.s
           x == cells[s.cell]
           y == cells'[s.cell]
       IN  /\ \A c \in Cells \ {s.cell} : cells'[c] = cells[c]
           /\ SameForm(x, y) /\ SameShape(x, y)
           /\ \A i \in 1..Size(x) : y.elems[i] # x.elems[i] => i \in SelectedBy(x, s.subs)]_vars

\* The value an assignment gives the element at row r and column c of what it
\* selects, and the last of several for one element wins.
Given(x, subs, v, r, c) ==
  CASE ~IsMatrix(v) -> v.elems[1]
    [] IsMatrix(v) /\ ByMask(subs) ->
         v.elems[PositionOf(x, subs, RowsOf(x, subs)[r], ColsOf(x, subs)[c])]
    [] OTHER -> v.elems[(c - 1) * v.rows + r]

IsLast(s, i) == \A j \in i + 1..Len(s) : s[j] # s[i]

\* After x[...] = v, of a v that fits, x[...] is v: each element selected holds
\* the value given for it, the last one where it is selected twice.
WhatIsAssignedIsRead ==
  [][Assigned /\ Latest.s.do = "set" /\ Latest.s.subs # << >> /\ ~IsItself(Latest)
     /\ Latest.f.name \notin Strays \cup Misplaces =>
       LET s == Latest.s
           x == cells[s.cell]
           v == ValueIn(cells, s.from)
           rows == RowsOf(x, s.subs)
           cols == ColsOf(x, s.subs)
       IN  Fits(x, s.subs, v) =>
             \A r \in DOMAIN rows, c \in DOMAIN cols :
               IsLast(rows, r) /\ IsLast(cols, c) =>
                 cells'[s.cell].elems[PositionOf(x, s.subs, rows[r], cols[c])]
                   = Given(x, s.subs, v, r, c)]_vars

Times(s, i) == Cardinality({k \in DOMAIN s : s[k] = i})

\* x[...] += v for several elements: each is operated on once for every time it
\* is selected, in order, so a row selected twice grows twice.
EveryOccurrenceCounts ==
  [][Assigned /\ Latest.s.do = "op" /\ Family(Latest.s.subs) \in {<<"range">>, <<"range", "all">>}
     /\ ~IsItself(Latest) =>
       LET s == Latest.s
           x == cells[s.cell]
           v == ValueIn(cells, s.from)
           rows == RowsOf(x, s.subs)
           cols == ColsOf(x, s.subs)
           op(old, new) == Put(s.op, old, new)
       IN  Fits(x, s.subs, v) =>
             \A r \in ToSet(rows), c \in DOMAIN cols :
               LET i == PositionOf(x, s.subs, r, cols[c])
                   hits == SelectSeq([k \in DOMAIN rows |-> k], LAMBDA k : rows[k] = r)
               IN  cells'[s.cell].elems[i] =
                     FoldLeft(LAMBDA old, k : op(old, Given(x, s.subs, v, k, c)), x.elems[i], hits)]_vars

\* A statement that names elements of the variable, and gives a value that
\* fits, never stops the program; a matrix literal never does.
FittingStatementsRun ==
  outcome = "panic" /\ last # Stepped => last.do # "build" /\
    LET x == cells[last.cell]
    IN  \/ Family(last.subs) = <<"all", "all">>
        \/ last.do = "op" /\ ~OpAssignable(last.subs)
        \/ last.subs # << >> /\ ~InBounds(x, last.subs)
        \/ last.do # "read" /\ ~Fits(x, last.subs, ValueIn(cells, last.from))
        \/ last.do = "set" /\ AssignFunction(x, last.subs, ValueIn(cells, last.from)).name \in Strays

Replaces(k) == Writes(k) /\ plan[k].f.op = "="
FromLiteral(k) == plan[k].s.from.source = "literal"

\* Stepping a plan of reads and of assignments of literals leaves every variable
\* as the statements left it: the last writer of an element is the last again.
StepsKeepLiterals ==
  [][last' = Stepped /\ outcome' # "panic"
     /\ (\A k \in DOMAIN plan : ~Writes(k) \/ (Replaces(k) /\ FromLiteral(k)))
     => cells' = cells]_vars

\* A step stops the program only after a statement replaced a whole variable:
\* otherwise no shape the plan was built for has changed.
StepsRunUnlessReplaced ==
  outcome = "panic" /\ last = Stepped => \E k \in DOMAIN plan : SetsWhole(k)
=============================================================================
