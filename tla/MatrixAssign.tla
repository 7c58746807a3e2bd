---------------------------- MODULE MatrixAssign ----------------------------
(***************************************************************************)
(* x[...] = v and x[...] += v: the function an assignment builds from the  *)
(* matrix, its subscripts and the value assigned, and what it does each    *)
(* time it is solved.  The function writes into the variable's own cell.   *)
(***************************************************************************)
EXTENDS MatrixAccess

\* An assignment function: the loop it runs, its subscripts and its operator.
Assigns(name, op, ix) == [name |-> name, op |-> op, ix |-> ix]
NoAssigns == Assigns("none", "=", << >>)

SameForm(x, v)  == x.form = v.form
SameShape(x, v) == x.rows = v.rows /\ x.cols = v.cols

\* The arms that name one form each ask for nothing (S) or for these lengths (B).
MaskFits(on, x, n) == Len(on) = (IF IsDMatrix(x) THEN n ELSE Size(x))

-----------------------------------------------------------------------------
(* The arms of each family.                                                *)

AssignScalar(x, ix, v) ==
  CASE ix[1].kind = "one" /\ ~IsMatrix(v) -> Assigns("assign_1d_scalar", "=", ix)
    [] ix[1].kind = "flag" /\ ~IsMatrix(v) -> Assigns("assign_1d_scalar_b", "=", ix)
    [] ix[1].kind = "flag" /\ SameForm(x, v) -> Assigns("assign_1d_scalar_vb", "=", ix)
    [] OTHER -> NoAssigns

AssignAll(x, ix, v) ==
  IF ~IsMatrix(v) THEN Assigns("assign_1d_all", "=", ix) ELSE NoAssigns

\* An index that is a matrix of one number stands for a row, not for a column.
AssignScalarScalar(x, ix, v) ==
  CASE IsMatrix(v) \/ ix[2].kind # "one" -> NoAssigns
    [] ~IsMatrix(v) /\ ix[1].kind = "one" /\ ix[2].kind = "one" ->
         Assigns("assign_2d_scalar_scalar", "=", ix)
    [] ~IsMatrix(v) /\ ix[1].kind = "box" /\ ix[2].kind = "one" ->
         Assigns("assign_2d_range_scalar", "=", ix)
    [] OTHER -> NoAssigns

\* Vectors are not checked for length here: the loop panics beyond them.
AssignRange(x, ix, v) ==
  CASE ix[1].kind = "many" /\ ~IsMatrix(v) -> Assigns("set_1d_range", "=", ix)
    [] ix[1].kind = "many" /\ IsMatrix(v) -> Assigns("set_1d_range_vec", "=", ix)
    [] ix[1].kind = "mask" /\ ~IsMatrix(v) -> Assigns("set_1d_range_b", "=", ix)
    [] ix[1].kind = "mask" /\ SameForm(x, v) -> Assigns("set_1d_range_vec_b", "=", ix)
    [] OTHER -> NoAssigns

AssignAllScalar(x, ix, v) ==
  CASE ix[2].kind # "one" -> NoAssigns
    [] ix[2].kind = "one" /\ ~IsMatrix(v) -> Assigns("assign_2d_all_scalar", "=", ix)
    [] ix[2].kind = "one" /\ IsDMatrix(x) /\ v.form \in {"row", "col"} /\ x.rows = Size(v) ->
         Assigns("assign_2d_all_vector", "=", ix)
    [] OTHER -> NoAssigns

AssignScalarAll(x, ix, v) ==
  CASE ix[1].kind # "one" -> NoAssigns
    [] ix[1].kind = "one" /\ ~IsMatrix(v) -> Assigns("assign_2d_scalar_all_scalar", "=", ix)
    [] ix[1].kind = "one" /\ IsDMatrix(x) /\ v.form \in {"row", "col"} /\ x.cols = Size(v) ->
         Assigns("assign_2d_scalar_all_vector", "=", ix)
    [] OTHER -> NoAssigns

AssignRangeScalar(x, ix, v) ==
  IF ix[2].kind # "one" THEN NoAssigns
  ELSE CASE ix[1].kind = "many" /\ ~IsMatrix(v) -> Assigns("assign_2d_range_scalar", "=", ix)
         [] ix[1].kind = "many" /\ IsMatrix(v) /\ Len(ix[1].at) = Size(v) ->
              Assigns("assign_2d_range_scalar_v", "=", ix)
         [] ix[1].kind = "mask" /\ ~IsMatrix(v) -> Assigns("assign_2d_range_scalar_b", "=", ix)
         [] ix[1].kind = "mask" /\ IsMatrix(v) /\ Len(ix[1].on) = Size(v) ->
              Assigns("assign_2d_range_scalar_vb", "=", ix)
         [] OTHER -> NoAssigns

AssignScalarRange(x, ix, v) ==
  IF ix[1].kind # "one" THEN NoAssigns
  ELSE CASE ix[2].kind = "many" /\ ~IsMatrix(v) -> Assigns("assign_2d_scalar_range", "=", ix)
         [] ix[2].kind = "many" /\ IsMatrix(v) /\ Len(ix[2].at) = Size(v) ->
              Assigns("assign_2d_scalar_range_v", "=", ix)
         [] ix[2].kind = "mask" /\ ~IsMatrix(v) /\ Len(ix[2].on) = x.cols ->
              Assigns("assign_2d_scalar_range_b", "=", ix)
         [] ix[2].kind = "mask" /\ IsMatrix(v) /\ Len(ix[2].on) = x.cols /\ Size(v) = x.cols ->
              Assigns("assign_2d_scalar_range_vb", "=", ix)
         [] OTHER -> NoAssigns

\* With a mask on either side, only a DMatrix is assigned to, and from.
AssignRangeRange(x, ix, v) ==
  LET kinds == <<ix[1].kind, ix[2].kind>>
      rowsFit == Len(ix[1].on) = x.rows
      colsFit == Len(ix[2].on) = x.cols
  IN  CASE kinds = <<"many", "many">> ->
             Assigns(IF IsMatrix(v) THEN "assign_2d_range_range_v" ELSE "assign_2d_range_range", "=", ix)
        [] kinds = <<"mask", "mask">> /\ IsDMatrix(x) /\ rowsFit /\ colsFit /\ ~IsMatrix(v) ->
             Assigns("assign_2d_range_range_b", "=", ix)
        [] kinds = <<"mask", "mask">> /\ IsDMatrix(x) /\ rowsFit /\ colsFit /\ IsDMatrix(v)
             /\ SameShape(x, v) -> Assigns("assign_2d_range_range_vb", "=", ix)
        [] kinds = <<"mask", "many">> /\ IsDMatrix(x) /\ rowsFit /\ ~IsMatrix(v) ->
             Assigns("assign_2d_range_range_bu", "=", ix)
        [] kinds = <<"mask", "many">> /\ IsDMatrix(x) /\ rowsFit /\ IsDMatrix(v)
             /\ v.rows = x.rows -> Assigns("assign_2d_range_range_vbu", "=", ix)
        [] kinds = <<"many", "mask">> /\ IsDMatrix(x) /\ colsFit /\ ~IsMatrix(v) ->
             Assigns("assign_2d_range_range_ub", "=", ix)
        [] kinds = <<"many", "mask">> /\ IsDMatrix(x) /\ colsFit /\ IsDMatrix(v)
             /\ v.cols = x.cols -> Assigns("assign_2d_range_range_vub", "=", ix)
        [] OTHER -> NoAssigns

AssignAllRange(x, ix, v) ==
  LET on == ix[2].on
  IN  CASE ix[2].kind = "many" /\ ~IsMatrix(v) -> Assigns("assign_2d_all_range", "=", ix)
        [] ix[2].kind = "many" /\ IsMatrix(v) -> Assigns("assign_2d_all_range_v", "=", ix)
        [] ix[2].kind = "mask" /\ ~IsMatrix(v) /\ (IsDMatrix(x) \/ Len(on) = Size(x)) ->
             Assigns("assign_2d_all_range_b", "=", ix)
        [] ix[2].kind = "mask" /\ SameForm(x, v) /\ SameShape(x, v) /\ MaskFits(on, x, x.cols) ->
             Assigns("assign_2d_all_range_vb", "=", ix)
        [] OTHER -> NoAssigns

AssignRangeAll(x, ix, v) ==
  LET on == ix[1].on
  IN  CASE ix[1].kind = "many" /\ ~IsMatrix(v) -> Assigns("assign_2d_range_all", "=", ix)
        [] ix[1].kind = "many" /\ IsMatrix(v) -> Assigns("assign_2d_range_all_v", "=", ix)
        [] ix[1].kind = "mask" /\ ~IsMatrix(v) /\ MaskFits(on, x, x.rows) ->
             Assigns("assign_2d_range_all_b", "=", ix)
        [] ix[1].kind = "mask" /\ SameForm(x, v) /\ SameShape(x, v) /\ MaskFits(on, x, x.rows) ->
             Assigns("assign_2d_range_all_vb", "=", ix)
        [] OTHER -> NoAssigns

-----------------------------------------------------------------------------
(* Statements.                                                             *)

\* x = v: the forms must agree, the shapes need not.
AssignValue(x, v) ==
  IF SameForm(x, v) THEN Assigns("assign_value", "=", << >>) ELSE NoAssigns

\* Only a matrix has parts.
AssignFunction(x, subs, v) ==
  LET ix == [i \in DOMAIN subs |-> Prepared(subs[i])]
      family == Family(subs)
  IN  IF family # << >> /\ ~IsMatrix(x) THEN NoAssigns
      ELSE CASE family = << >> -> AssignValue(x, v)
           [] family = <<"scalar">> -> AssignScalar(x, ix, v)
           [] family = <<"range">> -> AssignRange(x, ix, v)
           [] family = <<"all">> -> AssignAll(x, ix, v)
           [] family = <<"scalar", "scalar">> -> AssignScalarScalar(x, ix, v)
           [] family = <<"scalar", "range">> -> AssignScalarRange(x, ix, v)
           [] family = <<"range", "scalar">> -> AssignRangeScalar(x, ix, v)
           [] family = <<"range", "range">> -> AssignRangeRange(x, ix, v)
           [] family = <<"all", "scalar">> -> AssignAllScalar(x, ix, v)
           [] family = <<"scalar", "all">> -> AssignScalarAll(x, ix, v)
           [] family = <<"all", "range">> -> AssignAllRange(x, ix, v)
           [] family = <<"range", "all">> -> AssignRangeAll(x, ix, v)

\* The operators of op_assign.  Division works the same way and is left out:
\* its results are not integers.
Operators == {"+=", "-=", "*="}

OpAssignValue(op, x, v) ==
  CASE ~IsMatrix(v) -> Assigns("op_assign_vs", op, << >>)
    [] IsMatrix(v) /\ SameForm(x, v) -> Assigns("op_assign_vv", op, << >>)
    [] OTHER -> NoAssigns

OpAssignRange(op, x, ix, v) ==
  IF ix[1].kind = "many"
    THEN Assigns(IF IsMatrix(v) THEN "set_1d_range_vec" ELSE "set_1d_range", op, ix)
    ELSE NoAssigns

OpAssignRangeAll(op, x, ix, v) ==
  IF ix[1].kind = "many"
    THEN Assigns(IF IsMatrix(v) THEN "assign_2d_range_all_v" ELSE "assign_2d_range_all", op, ix)
    ELSE NoAssigns

\* Only these subscripts are implemented, and one whose index is a single
\* number assigns instead of operating.
OpAssignable(subs) ==
  Family(subs) \in {<< >>, <<"scalar">>, <<"range">>, <<"scalar", "all">>, <<"range", "all">>}

OpAssignFunction(op, x, subs, v) ==
  LET ix == [i \in DOMAIN subs |-> Prepared(subs[i])]
      family == Family(subs)
  IN  IF family # << >> /\ ~IsMatrix(x) THEN NoAssigns
      ELSE CASE family = << >> -> OpAssignValue(op, x, v)
           [] family = <<"scalar">> -> AssignScalar(x, ix, v)
           [] family = <<"scalar", "all">> -> AssignScalarAll(x, ix, v)
           [] family = <<"range">> -> OpAssignRange(op, x, ix, v)
           [] family = <<"range", "all">> -> OpAssignRangeAll(op, x, ix, v)
=============================================================================
