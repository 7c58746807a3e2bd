----------------------------- MODULE MatrixLoops -----------------------------
(***************************************************************************)
(* The loops of the assignment functions.  A scalar is read again for each *)
(* position written; where a matrix of values is read depends on the loop. *)
(***************************************************************************)
EXTENDS MatrixAssign

\* The i-th value assigned: a scalar is the value for every i.
ValueAt(v, i) == IF IsMatrix(v) THEN Index1d(v, i) ELSE 1

-----------------------------------------------------------------------------
(* One subscript.                                                          *)

assign_1d_scalar(x, ix, v) == <<Move(Index1d(x, ix[1].at[1]), 1)>>

assign_1d_scalar_b(x, ix, v) ==
  IF ix[1].on[1] THEN Loop(Size(x), LAMBDA i : Move(i, 1)) ELSE << >>

assign_1d_scalar_vb(x, ix, v) ==
  IF ix[1].on[1] THEN Loop(Min({Size(x), Size(v)}), LAMBDA i : Move(i, i)) ELSE << >>

assign_1d_all(x, v) == Loop(Size(x), LAMBDA i : Move(i, 1))

\* Plausible bug: the values are read where they are written.
MutReadInPlace(x, ix, v) ==
  Loop(Len(ix[1].at), LAMBDA i : Move(Index1d(x, ix[1].at[i]), ValueAt(v, ix[1].at[i])))

set_1d_range(x, ix, v) ==
  Loop(Len(ix[1].at), LAMBDA i : Move(Index1d(x, ix[1].at[i]), ValueAt(v, i)))

\* Plausible bug: the position of a flag is taken for a number counted from one.
MutFlagsFromZero(x, ix, v) ==
  LET set == SetBits(ix[1].on)
  IN  Loop(Len(set), LAMBDA i : Move(Index1d(x, set[i] - 1), ValueAt(v, set[i])))

\* Under a mask the values are read where they are written.
set_1d_range_b(x, ix, v) ==
  LET set == SetBits(ix[1].on)
  IN  Loop(Len(set), LAMBDA i : Move(Index1d(x, set[i]), ValueAt(v, set[i])))

-----------------------------------------------------------------------------
(* A row, a column, or part of one.                                        *)

assign_2d_scalar_scalar(x, ix, v) == <<Move(Index2d(x, ix[1].at[1], ix[2].at[1]), 1)>>

assign_2d_all_scalar(x, ix, v) ==
  Loop(x.rows, LAMBDA i : Move(Index2d(x, i, ix[2].at[1]), ValueAt(v, i)))

\* Plausible bug: the row is taken for a column.
MutRowAsColumn(x, ix, v) ==
  Loop(x.rows, LAMBDA i : Move(Index2d(x, i, ix[1].at[1]), ValueAt(v, i)))

assign_2d_scalar_all(x, ix, v) ==
  Loop(x.cols, LAMBDA i : Move(Index2d(x, ix[1].at[1], i), ValueAt(v, i)))

assign_2d_range_scalar(x, ix, v) ==
  Loop(Len(ix[1].at), LAMBDA i : Move(Index2d(x, ix[1].at[i], ix[2].at[1]), ValueAt(v, i)))

assign_2d_range_scalar_b(x, ix, v) ==
  LET set == SetBits(ix[1].on)
  IN  Loop(Len(set), LAMBDA i : Move(Index2d(x, set[i], ix[2].at[1]), ValueAt(v, set[i])))

assign_2d_scalar_range(x, ix, v) ==
  Loop(Len(ix[2].at), LAMBDA i : Move(Index2d(x, ix[1].at[1], ix[2].at[i]), ValueAt(v, i)))

assign_2d_scalar_range_b(x, ix, v) ==
  LET set == SetBits(ix[2].on)
  IN  Loop(Len(set), LAMBDA i : Move(Index2d(x, ix[1].at[1], set[i]), ValueAt(v, set[i])))

-----------------------------------------------------------------------------
(* A block.                                                                *)

\* Values are read by their number in the loop, row by row.
assign_2d_range_range(x, ix, v) ==
  LET rows == ix[1].at
      cols == ix[2].at
  IN  Loops(Len(rows), Len(cols), LAMBDA r, c :
        Move(Index2d(x, rows[r], cols[c]), ValueAt(v, (r - 1) * Len(cols) + c)))

assign_2d_range_range_b(x, ix, v) ==
  LET rows == SetBits(ix[1].on)
      cols == SetBits(ix[2].on)
      n == Len(ix[2].on)
  IN  Loops(Len(rows), Len(cols), LAMBDA r, c :
        Move(Index2d(x, rows[r], cols[c]), ValueAt(v, (rows[r] - 1) * n + cols[c])))

assign_2d_range_range_bu(x, ix, v) ==
  LET rows == SetBits(ix[1].on)
      cols == ix[2].at
  IN  Loops(Len(rows), Len(cols), LAMBDA r, c : Move(Index2d(x, rows[r], cols[c]), 1))

assign_2d_range_range_vbu(x, ix, v) ==
  LET rows == SetBits(ix[1].on)
      cols == ix[2].at
  IN  Loops(Len(cols), Len(rows), LAMBDA c, r :
        Move(Index2d(x, rows[r], cols[c]), Index1d(v, rows[r] + (cols[c] - 1) * x.rows)))

\* The first subscript is taken for flags: its k-th number, unless zero, selects row k.
assign_2d_range_range_ub(x, ix, v) ==
  LET rows == SetBits([k \in DOMAIN ix[1].at |-> ix[1].at[k] # 0])
      cols == SetBits(ix[2].on)
  IN  Loops(Len(rows), Len(cols), LAMBDA r, c : Move(Index2d(x, rows[r], cols[c]), 1))

assign_2d_range_range_vub(x, ix, v) ==
  LET rows == ix[1].at
      cols == SetBits(ix[2].on)
  IN  Loops(Len(cols), Len(rows), LAMBDA c, r :
        Move(Index2d(x, rows[r], cols[c]), Index1d(v, rows[r] + (cols[c] - 1) * x.rows)))

-----------------------------------------------------------------------------
(* Whole columns and whole rows.                                           *)

assign_2d_all_range(x, ix, v) ==
  LET cols == Chosen(ix[2])
  IN  Loops(Len(cols), x.rows, LAMBDA c, r : Move(Index2d(x, r, cols[c]), 1))

\* The columns of the values wrap around at their number of rows.
assign_2d_all_range_v(x, ix, v) ==
  LET cols == ix[2].at
  IN  Loops(Len(cols), Min({x.rows, v.rows}), LAMBDA c, r :
        Move(Index2d(x, r, cols[c]), Index2d(v, r, ((c - 1) % v.rows) + 1)))

assign_2d_all_range_vb(x, ix, v) ==
  LET cols == SetBits(ix[2].on)
  IN  Loops(Len(cols), x.rows, LAMBDA c, r : Move(Index2d(x, r, cols[c]), Index2d(v, r, c)))

assign_2d_range_all(x, ix, v) ==
  Loops(x.cols, Len(ix[1].at), LAMBDA c, r : Move(Index2d(x, ix[1].at[r], c), 1))

\* The row above the one selected is written.
assign_2d_range_all_b(x, ix, v) ==
  LET rows == SetBits(ix[1].on)
  IN  Loops(x.cols, Len(rows), LAMBDA c, r : Move(Index2d(x, rows[r] - 1, c), 1))

assign_2d_range_all_v(x, ix, v) ==
  LET rows == ix[1].at
  IN  Loops(Len(rows), Min({x.cols, v.cols}), LAMBDA r, c :
        Move(Index2d(x, rows[r], c), Index2d(v, ((r - 1) % v.rows) + 1, c)))

assign_2d_range_all_vb(x, ix, v) ==
  LET rows == SetBits(ix[1].on)
  IN  Loops(Len(rows), x.cols, LAMBDA r, c : Move(Index2d(x, rows[r], c), Index2d(v, rows[r], c)))

\* x += v for a whole matrix: element by element, as far as both go.
op_assign_whole(x, v) ==
  Loop(IF IsMatrix(v) THEN Min({Size(x), Size(v)}) ELSE Size(x), LAMBDA i : Move(i, ValueAt(v, i)))

-----------------------------------------------------------------------------
(* solve                                                                   *)

AssignMoves(f, x, v) ==
  CASE f.name = "assign_1d_scalar"    -> assign_1d_scalar(x, f.ix, v)
    [] f.name = "assign_1d_scalar_b"  -> assign_1d_scalar_b(x, f.ix, v)
    [] f.name = "assign_1d_scalar_vb" -> assign_1d_scalar_vb(x, f.ix, v)
    [] f.name = "assign_1d_all"       -> assign_1d_all(x, v)
    [] f.name \in {"set_1d_range", "set_1d_range_vec"} -> set_1d_range(x, f.ix, v)
    [] f.name \in {"set_1d_range_b", "set_1d_range_vec_b"} -> set_1d_range_b(x, f.ix, v)
    [] f.name = "assign_2d_scalar_scalar" -> assign_2d_scalar_scalar(x, f.ix, v)
    [] f.name \in {"assign_2d_all_scalar", "assign_2d_all_vector"} -> assign_2d_all_scalar(x, f.ix, v)
    [] f.name \in {"assign_2d_scalar_all_scalar", "assign_2d_scalar_all_vector"} ->
         assign_2d_scalar_all(x, f.ix, v)
    [] f.name \in {"assign_2d_range_scalar", "assign_2d_range_scalar_v"} -> assign_2d_range_scalar(x, f.ix, v)
    [] f.name \in {"assign_2d_range_scalar_b", "assign_2d_range_scalar_vb"} ->
         assign_2d_range_scalar_b(x, f.ix, v)
    [] f.name \in {"assign_2d_scalar_range", "assign_2d_scalar_range_v"} -> assign_2d_scalar_range(x, f.ix, v)
    [] f.name \in {"assign_2d_scalar_range_b", "assign_2d_scalar_range_vb"} ->
         assign_2d_scalar_range_b(x, f.ix, v)
    [] f.name \in {"assign_2d_range_range", "assign_2d_range_range_v"} -> assign_2d_range_range(x, f.ix, v)
    [] f.name \in {"assign_2d_range_range_b", "assign_2d_range_range_vb"} ->
         assign_2d_range_range_b(x, f.ix, v)
    [] f.name = "assign_2d_range_range_bu"  -> assign_2d_range_range_bu(x, f.ix, v)
    [] f.name = "assign_2d_range_range_vbu" -> assign_2d_range_range_vbu(x, f.ix, v)
    [] f.name = "assign_2d_range_range_ub"  -> assign_2d_range_range_ub(x, f.ix, v)
    [] f.name = "assign_2d_range_range_vub" -> assign_2d_range_range_vub(x, f.ix, v)
    [] f.name \in {"assign_2d_all_range", "assign_2d_all_range_b"} -> assign_2d_all_range(x, f.ix, v)
    [] f.name = "assign_2d_all_range_v"  -> assign_2d_all_range_v(x, f.ix, v)
    [] f.name = "assign_2d_all_range_vb" -> assign_2d_all_range_vb(x, f.ix, v)
    [] f.name = "assign_2d_range_all"    -> assign_2d_range_all(x, f.ix, v)
    [] f.name = "assign_2d_range_all_b"  -> assign_2d_range_all_b(x, f.ix, v)
    [] f.name = "assign_2d_range_all_v"  -> assign_2d_range_all_v(x, f.ix, v)
    [] f.name = "assign_2d_range_all_vb" -> assign_2d_range_all_vb(x, f.ix, v)
    [] f.name \in {"op_assign_vs", "op_assign_vv"} -> op_assign_whole(x, v)
    [] f.name = "assign_value" -> << >>

AssignPanics(f, x, v) == Panics(AssignMoves(f, x, v), x, v)

\* Plausible bug: x += v of two matrices takes the shape of v.
MutTakesShape(f, x, v, itself) ==
  CASE f.name \in {"assign_value", "op_assign_vv"} -> v
    [] f.name \notin {"assign_value", "op_assign_vv"} -> Moved(f.op, AssignMoves(f, x, v), x, v)

\* The variable after the function is solved; itself is whether it is also the source.
AssignSolved(f, x, v, itself) ==
  CASE f.name = "assign_value" -> v
    [] f.name # "assign_value" /\ itself -> MovedWithin(f.op, AssignMoves(f, x, v), x)
    [] f.name # "assign_value" /\ ~itself -> Moved(f.op, AssignMoves(f, x, v), x, v)
=============================================================================
