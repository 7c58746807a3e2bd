---------------------------- MODULE MatrixAccess ----------------------------
(***************************************************************************)
(* x[...] read: the function an access builds from the matrix and its      *)
(* subscripts, and what that function does each time it is solved.  A      *)
(* function keeps its prepared subscripts and its result; the matrix it    *)
(* reads is the variable's, whatever it holds by then.                     *)
(***************************************************************************)
EXTENDS Matrices

CONSTANT Default   \* what the elements of a new result are

Function(name, ix, out) == [name |-> name, ix |-> ix, out |-> out]
NoFunction == Function("none", << >>, Scalar(Default))

New(form, r, c) == Filled(form, r, c, Default)

\* The number of positions an index selects, and those positions.
Chosen(ix) == IF ix.kind = "mask" THEN SetBits(ix.on) ELSE ix.at

IsDMatrix(v) == v.form = "mat"

-----------------------------------------------------------------------------
(* The function of each family; NoFunction where no arm matches.           *)

AccessScalar(x, ix) ==
  IF ix[1].kind = "one" THEN Function("Access1DS", ix, Scalar(Default)) ELSE NoFunction

AccessScalarScalar(x, ix) ==
  IF ix[1].kind = "one" /\ ix[2].kind = "one"
    THEN Function("Access2DSS", ix, Scalar(Default)) ELSE NoFunction

AccessRange(x, ix) ==
  CASE ix[1].kind = "many" -> Function("Access1DVD", ix, New("col", Len(ix[1].at), 1))
    [] ix[1].kind = "mask" -> Function("Access1DVDb", ix, New("col", Len(ix[1].on), 1))
    [] OTHER -> NoFunction

\* The result is a column, a row or a DMatrix by the numbers of rows and
\* columns selected, but two index vectors always give a DMatrix.
AccessRangeRange(x, ix) ==
  LET r == Len(Chosen(ix[1]))
      c == Len(Chosen(ix[2]))
      form == CASE c = 1 /\ r # 1 -> "col" [] r = 1 /\ c # 1 -> "row" [] OTHER -> "mat"
  IN  CASE {ix[1].kind, ix[2].kind} \ {"many", "mask"} # {} -> NoFunction
        [] ix[1].kind = "many" /\ ix[2].kind = "many" -> Function("Access2DRR", ix, New("mat", r, c))
        [] OTHER -> Function("Access2DRR", ix, New(form, r, c))

AccessAll(x, ix) ==
  IF IsDMatrix(x) THEN Function("Access1DA", ix, New("col", Size(x), 1)) ELSE NoFunction

AccessAllScalar(x, ix) ==
  IF IsDMatrix(x) /\ ix[2].kind = "one"
    THEN Function("Access2DAS", ix, New("col", x.rows, 1)) ELSE NoFunction

AccessScalarAll(x, ix) ==
  IF IsDMatrix(x) /\ ix[1].kind = "one"
    THEN Function("Access2DSA", ix, New("row", 1, x.cols)) ELSE NoFunction

AccessAllRange(x, ix) ==
  LET c == Len(Chosen(ix[2]))
      form == CASE x.rows = 1 -> "row"
                [] x.rows # 1 /\ c = 1 /\ ix[2].kind = "mask" -> "col"
                [] OTHER -> "mat"
  IN  IF ix[2].kind \in {"many", "mask"}
        THEN Function("Access2DAR", ix, New(form, x.rows, c)) ELSE NoFunction

AccessRangeAll(x, ix) ==
  CASE ~IsDMatrix(x) -> NoFunction
    [] IsDMatrix(x) /\ ix[1].kind = "many" ->
         Function("Access2DVDA", ix, New("mat", Len(ix[1].at), x.cols))
    [] IsDMatrix(x) /\ ix[1].kind = "mask" ->
         Function("Access2DVDbA", ix, New("mat", Len(ix[1].on), x.cols))
    [] OTHER -> NoFunction

AccessRangeScalar(x, ix) ==
  IF IsDMatrix(x) /\ ix[1].kind \in {"many", "mask"} /\ ix[2].kind = "one"
    THEN Function("Access2DVDS", ix, New("col", Len(ix[1].at \o ix[1].on), 1)) ELSE NoFunction

AccessScalarRange(x, ix) ==
  IF IsDMatrix(x) /\ ix[1].kind = "one" /\ ix[2].kind \in {"many", "mask"}
    THEN Function("Access2DSVD", ix, New("row", 1, Len(ix[2].at \o ix[2].on))) ELSE NoFunction

\* What the subscripts call for.  x[:,:] is not implemented: the program panics.
AccessFunction(x, subs) ==
  LET ix == [i \in DOMAIN subs |-> Prepared(subs[i])]
      family == Family(subs)
  IN  IF ~IsMatrix(x) THEN NoFunction
      ELSE CASE family = <<"scalar">> -> AccessScalar(x, ix)
           [] family = <<"range">> -> AccessRange(x, ix)
           [] family = <<"all">> -> AccessAll(x, ix)
           [] family = <<"scalar", "scalar">> -> AccessScalarScalar(x, ix)
           [] family = <<"scalar", "range">> -> AccessScalarRange(x, ix)
           [] family = <<"range", "scalar">> -> AccessRangeScalar(x, ix)
           [] family = <<"range", "range">> -> AccessRangeRange(x, ix)
           [] family = <<"all", "scalar">> -> AccessAllScalar(x, ix)
           [] family = <<"scalar", "all">> -> AccessScalarAll(x, ix)
           [] family = <<"all", "range">> -> AccessAllRange(x, ix)
           [] family = <<"range", "all">> -> AccessRangeAll(x, ix)

-----------------------------------------------------------------------------
(* The loops.  A mask sizes its result before it copies.                   *)

\* resize_mut and its kin: elements keep their row and column, new ones copy the first.
Resized(v, r, c) ==
  [v EXCEPT !.rows = r, !.cols = c, !.elems = [k \in 1..(r * c) |->
     LET i == ((k - 1) % r) + 1
         j == ((k - 1) \div r) + 1
     IN  IF i <= v.rows /\ j <= v.cols THEN v.elems[(j - 1) * v.rows + i] ELSE v.elems[1]]]

ResizedRows(v, r) == IF r = v.rows THEN v ELSE Resized(v, r, v.cols)
ResizedCols(v, c) == IF c = v.cols THEN v ELSE Resized(v, v.rows, c)

\* The positions 1..n at which a mask is set or has ended.
MaskWithin(on, n) ==
  SetBits([i \in 1..n |-> i \notin DOMAIN on \/ on[i]])

access_1d(x, ix) == <<Move(1, Index1d(x, ix[1].at[1]))>>

access_2d(x, ix) == <<Move(1, Index2d(x, ix[1].at[1], ix[2].at[1]))>>

access_1d_slice(x, ix) ==
  Loop(Len(ix[1].at), LAMBDA i : Move(i, Index1d(x, ix[1].at[i])))

\* The loop is over the matrix, not over the mask.
access_1d_slice_bool_v(x, ix) ==
  LET from == MaskWithin(ix[1].on, Size(x))
  IN  Loop(Len(from), LAMBDA j : Move(j, IF from[j] \in DOMAIN ix[1].on THEN from[j] ELSE Outside))

access_1d_all(x, ix) == Loop(Size(x), LAMBDA i : Move(i, i))

access_col(x, ix) == Loop(x.rows, LAMBDA i : Move(i, Index2d(x, i, ix[2].at[1])))

access_row(x, ix) == Loop(x.cols, LAMBDA i : Move(i, Index2d(x, ix[1].at[1], i)))

access_2d_slice_all(x, ix) ==
  LET n == Len(ix[1].at)
  IN  Loops(x.cols, n, LAMBDA c, r : Move((c - 1) * n + r, Index2d(x, ix[1].at[r], c)))

\* Row by row into a result stored column by column.
access_2d_slice_all_bool(x, ix) ==
  LET rows == SetBits(ix[1].on)
  IN  Loops(Len(rows), x.cols, LAMBDA j, k : Move((j - 1) * x.cols + k, Index2d(x, rows[j], k)))

access_2d_row_slice(x, ix) ==
  LET from == Chosen(ix[2])
  IN  Loop(Len(from), LAMBDA c : Move(c, Index2d(x, ix[1].at[1], from[c])))

access_2d_col_slice(x, ix) ==
  LET from == Chosen(ix[1])
  IN  Loop(Len(from), LAMBDA r : Move(r, Index2d(x, from[r], ix[2].at[1])))

access_2d_range_range(x, ix, out) ==
  LET rows == Chosen(ix[1])
      cols == Chosen(ix[2])
  IN  Loops(Len(rows), Len(cols), LAMBDA r, c :
        Move(Index2d(out, r, c), Index2d(x, rows[r], cols[c])))

access_2d_all_range(x, ix, out) ==
  LET cols == IF ix[2].kind = "many" THEN ix[2].at ELSE MaskWithin(ix[2].on, x.cols)
      from(c) == IF ix[2].kind = "many" \/ c \in DOMAIN ix[2].on THEN c ELSE Outside
  IN  Loops(Len(cols), Min({x.rows, out.rows}), LAMBDA c, r :
        Move(Index2d(out, r, c), Index2d(x, r, from(cols[c]))))

-----------------------------------------------------------------------------
(* solve                                                                   *)

\* Plausible bug: a result under a mask keeps the length of the mask.
MutNoResize(f) == f.out

\* The result a function copies into.
AccessSink(f) ==
  CASE f.name = "Access1DVDb" -> ResizedRows(f.out, Len(SetBits(f.ix[1].on)))
    [] f.name = "Access2DVDbA" -> ResizedRows(f.out, Len(SetBits(f.ix[1].on)))
    [] f.name = "Access2DVDS" -> ResizedRows(f.out, Len(Chosen(f.ix[1])))
    [] f.name = "Access2DSVD" -> ResizedCols(f.out, Len(Chosen(f.ix[2])))
    [] OTHER -> f.out

AccessMoves(f, x) ==
  CASE f.name = "Access1DS"    -> access_1d(x, f.ix)
    [] f.name = "Access2DSS"   -> access_2d(x, f.ix)
    [] f.name = "Access1DVD"   -> access_1d_slice(x, f.ix)
    [] f.name = "Access1DVDb"  -> access_1d_slice_bool_v(x, f.ix)
    [] f.name = "Access1DA"    -> access_1d_all(x, f.ix)
    [] f.name = "Access2DAS"   -> access_col(x, f.ix)
    [] f.name = "Access2DSA"   -> access_row(x, f.ix)
    [] f.name = "Access2DVDA"  -> access_2d_slice_all(x, f.ix)
    [] f.name = "Access2DVDbA" -> access_2d_slice_all_bool(x, f.ix)
    [] f.name = "Access2DSVD"  -> access_2d_row_slice(x, f.ix)
    [] f.name = "Access2DVDS"  -> access_2d_col_slice(x, f.ix)
    [] f.name = "Access2DRR"   -> access_2d_range_range(x, f.ix, f.out)
    [] f.name = "Access2DAR"   -> access_2d_all_range(x, f.ix, f.out)

AccessPanics(f, x) == Panics(AccessMoves(f, x), AccessSink(f), x)

\* The function after it is solved on x, where it does not panic.
AccessSolved(f, x) == [f EXCEPT !.out = Moved("=", AccessMoves(f, x), AccessSink(f), x)]
=============================================================================
