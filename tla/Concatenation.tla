---------------------------- MODULE Concatenation ----------------------------
(***************************************************************************)
(* Matrix literals, [a b; c d]: each row is joined side by side by a       *)
(* function of its own, and a function more stacks the rows.  The parts    *)
(* are scalars and matrices of numbers, of variables or written out; a     *)
(* function holds on to the storage of its parts and copies it into its    *)
(* result each time it is solved.                                          *)
(***************************************************************************)
EXTENDS MatrixLoops

\* How a function joins, where its parts begin when that was fixed as it was
\* built (at, empty when it is counted as they are copied), and its result.
Join(name, at, out) == [name |-> name, at |-> at, out |-> out]
NoJoin == Join("none", << >>, Scalar(Default))

\* [x] of a matrix is the storage of x.
Shared == Join("shared", << >>, Scalar(Default))

Total(s) == FoldLeft(LAMBDA a, b : a + b, 0, s)

Beginnings(lengths) == [k \in DOMAIN lengths |-> Total(SubSeq(lengths, 1, k - 1))]

Widths(parts)  == [k \in DOMAIN parts |-> parts[k].cols]
Heights(parts) == [k \in DOMAIN parts |-> parts[k].rows]

-----------------------------------------------------------------------------
(* The function of a row.                                                  *)

\* Of one element, only a DMatrix is a matrix.
HorzCatOne(part) ==
  CASE ~IsMatrix(part) -> Join("S1D", <<0>>, New("mat", 1, 1))
    [] IsMatrix(part) /\ (Size(part) # 1 \/ IsDMatrix(part)) -> Shared
    [] OTHER -> NoJoin

HorzCatRow(parts) ==
  Join("RDN", Beginnings(Widths(parts)), New("row", 1, Total(Widths(parts))))

HorzCatArgs(parts) ==
  Join("Args", << >>, New("mat", parts[1].rows, Total(Widths(parts))))

HorzCat(parts) ==
  CASE Len(parts) = 1 -> HorzCatOne(parts[1])
    [] Len(parts) # 1 /\ parts[1].rows = 1 -> HorzCatRow(parts)
    [] Len(parts) # 1 /\ parts[1].rows # 1 -> HorzCatArgs(parts)

-----------------------------------------------------------------------------
(* The function that stacks the rows.                                      *)

VertCatVector(parts) ==
  LET out == New("col", Total(Heights(parts)), 1)
  IN  IF Len(parts) <= 4 THEN Join("VD", << >>, out)
      ELSE Join("VDN", Beginnings(Heights(parts)), out)

VertCatArgs(parts) ==
  Join("RowMajor", << >>, New("mat", Total(Heights(parts)), parts[1].cols))

VertCat(parts) == IF parts[1].cols = 1 THEN VertCatVector(parts) ELSE VertCatArgs(parts)

-----------------------------------------------------------------------------
(* solve                                                                   *)

copy_into(part, offset) == Loop(Size(part), LAMBDA i : Move(offset + i, i))

\* Plausible bug: the result is filled as if it had the rows of the part.
MutNoStride(part, offset, out) == copy_into(part, offset)

\* The stride is unsigned: a part taller than the result overflows, and panics.
copy_into_row_major(part, offset, out) ==
  LET stride == out.rows - part.rows
  IN  IF stride < 0 THEN <<Move(Outside, 1)>>
      ELSE Loop(Size(part), LAMBDA i : Move(offset + i + ((i - 1) \div part.rows) * stride, i))

\* A row or a column of many parts copies its matrices first, then its scalars.
CopyOrder(parts) ==
  SetBits([k \in DOMAIN parts |-> IsMatrix(parts[k])]) \o SetBits([k \in DOMAIN parts |-> ~IsMatrix(parts[k])])

\* What a function makes of its parts, and whether it panics on the way.
Joined(f, parts) ==
  LET counted == f.at = << >>
      stacks == f.name = "RowMajor"
      copy(s, k) ==
        LET from == IF counted THEN s.offset ELSE f.at[k]
            moves == IF stacks THEN copy_into_row_major(parts[k], from, s.out)
                     ELSE copy_into(parts[k], from)
        IN  IF s.panicked \/ Panics(moves, s.out, parts[k]) THEN [s EXCEPT !.panicked = TRUE]
            ELSE [s EXCEPT !.out = Moved("=", moves, @, parts[k]),
                           !.offset = @ + (IF stacks THEN parts[k].rows ELSE Size(parts[k]))]
      order == IF counted THEN [k \in DOMAIN parts |-> k] ELSE CopyOrder(parts)
  IN  FoldLeft(copy, [out |-> f.out, offset |-> 0, panicked |-> FALSE], order)

NeedsNoSolve(f) == f \in {NoJoin, Shared}

JoinPanics(f, parts) == ~NeedsNoSolve(f) /\ Joined(f, parts).panicked

JoinSolved(f, parts) ==
  IF NeedsNoSolve(f) THEN f ELSE [f EXCEPT !.out = Joined(f, parts).out]

-----------------------------------------------------------------------------
(* The literal: its rows, each solved when it is built, then their stack.  *)

\* The value of a row whose function is f.
RowResult(f, row) == IF f = Shared THEN row[1] ELSE f.out

RowResults(joins, rows) == [r \in DOMAIN joins |-> RowResult(joins[r], rows[r])]

matrix_row(row) ==
  IF \E k \in DOMAIN row : row[k].rows # row[1].rows THEN NoJoin
  ELSE JoinSolved(HorzCat(row), row)

\* The rows are built in order up to one that fails, or whose width is not that
\* of the first; those built stay in the plan.
matrix(rows) ==
  LET joins == [r \in DOMAIN rows |-> matrix_row(rows[r])]
      results == RowResults(joins, rows)
      failed == {r \in DOMAIN rows : joins[r] = NoJoin}
      uneven == {r \in DOMAIN rows : results[r].cols # results[1].cols}
      first == Min(failed \cup uneven)
      built == IF failed \cup uneven = {} THEN joins
               ELSE SubSeq(joins, 1, IF first \in failed THEN first - 1 ELSE first)
      over == IF failed \cup uneven # {} \/ Len(rows) = 1 THEN NoJoin
               ELSE JoinSolved(VertCat(results), results)
  IN  [name |-> "matrix", rows |-> built, stack |-> over, ok |-> failed \cup uneven = {}]

MatrixPanics(f, rows) ==
  LET joins == [r \in DOMAIN f.rows |-> JoinSolved(f.rows[r], rows[r])]
  IN  \/ \E r \in DOMAIN f.rows : JoinPanics(f.rows[r], rows[r])
      \/ JoinPanics(f.stack, RowResults(joins, rows))

MatrixSolved(f, rows) ==
  LET joins == [r \in DOMAIN f.rows |-> JoinSolved(f.rows[r], rows[r])]
  IN  [f EXCEPT !.rows = joins, !.stack = JoinSolved(@, RowResults(joins, rows))]

MatrixOut(f, rows) == IF Len(rows) = 1 THEN RowResult(f.rows[1], rows[1]) ELSE f.stack.out
=============================================================================
