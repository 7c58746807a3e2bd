------------------------------ MODULE Matrices ------------------------------
(***************************************************************************)
(* Values of Mech's matrix code: a scalar, a row (RowDVector), a column    *)
(* (DVector) or a DMatrix, all stored column by column, of numbers or of   *)
(* booleans.  These are the storage forms of the default features; the     *)
(* fixed-size forms have the same code instantiated for them.              *)
(*                                                                         *)
(* Every loop that copies elements from one value to another is a sequence *)
(* of moves: pairs of a position written and a position read, in the order *)
(* of the loop.  A position outside the storage is Outside, and the        *)
(* program panics there.                                                   *)
(***************************************************************************)
EXTENDS Integers, Sequences, SequencesExt, FiniteSetsExt

Value(form, rows, cols, elems) ==
  [type |-> "num", form |-> form, rows |-> rows, cols |-> cols, elems |-> elems]

Scalar(v)         == Value("scalar", 1, 1, <<v>>)
RowOf(s)          == Value("row", 1, Len(s), s)
ColumnOf(s)       == Value("col", Len(s), 1, s)
Matrix(r, c, s)   == Value("mat", r, c, s)
Booleans(v)       == [v EXCEPT !.type = "bool"]   \* its elements are 0 and 1

Size(v)    == Len(v.elems)
IsMatrix(v) == v.form # "scalar"

\* What a result can be, and a variable or something written out: only a
\* selection may come to nothing, the empty literal builds no function.
AnyResult ==
  {v \in [type : {"num", "bool"}, form : {"scalar", "row", "col", "mat"},
          rows : Nat, cols : Nat, elems : Seq(Int)] :
     /\ Size(v) = v.rows * v.cols
     /\ v.form \in {"scalar", "row"} => v.rows = 1
     /\ v.form \in {"scalar", "col"} => v.cols = 1}

AnyValue == {v \in AnyResult : Size(v) > 0}

\* The form Matrix<T>::to_matrix and from_vec store a shape in.
Stored(r, c, s) ==
  CASE r = 1 /\ c # 1 -> RowOf(s)
    [] c = 1 /\ r # 1 -> ColumnOf(s)
    [] OTHER -> Matrix(r, c, s)

\* What a new result of the given form and shape holds before it is solved.
Filled(form, r, c, v) == Value(form, r, c, [i \in 1..(r * c) |-> v])

-----------------------------------------------------------------------------
(* Positions.                                                              *)

Outside == 0

Index1d(v, i) == IF i \in 1..Size(v) THEN i ELSE Outside

Index2d(v, r, c) ==
  IF r \in 1..v.rows /\ c \in 1..v.cols THEN (c - 1) * v.rows + r ELSE Outside

\* Reads beyond an index vector panic as well.
Nth(s, i) == IF i \in DOMAIN s THEN s[i] ELSE Outside

-----------------------------------------------------------------------------
(* Loops and the moves they make.                                          *)

\* for i in 1..n, and for i in 1..n { for j in 1..m }.
Loop(n, move(_)) == [k \in 1..n |-> move(k)]

Loops(n, m, move(_, _)) ==
  [k \in 1..(n * m) |-> move(((k - 1) \div m) + 1, ((k - 1) % m) + 1)]

Move(to, from) == [to |-> to, from |-> from]

\* The positions, in order, at which a mask is set.
SetBits(mask) ==
  LET bits[n \in 0..Len(mask)] ==
        IF n = 0 THEN << >>
        ELSE IF mask[n] THEN Append(bits[n - 1], n)
        ELSE bits[n - 1]
  IN  bits[Len(mask)]

Panics(moves, sink, source) ==
  \E k \in DOMAIN moves : moves[k].to \notin 1..Size(sink)
                       \/ moves[k].from \notin 1..Size(source)

\* The loops of x += v are those of x = v, with one of these at each position.
add_assign(old, new) == old + new
sub_assign(old, new) == old - new
mul_assign(old, new) == old * new

Put(op, old, new) ==
  CASE op = "="  -> new
    [] op = "+=" -> add_assign(old, new)
    [] op = "-=" -> sub_assign(old, new)
    [] op = "*=" -> mul_assign(old, new)

\* Plausible bug: every move sees the sink as it was before the first.
MutLostUpdates(op, moves, sink, source) ==
  [sink EXCEPT !.elems =
     FoldLeft(LAMBDA s, m : [s EXCEPT ![m.to] = Put(op, sink.elems[m.to], source.elems[m.from])], @, moves)]

\* The sink after the moves, which operate on each position they write.
Moved(op, moves, sink, source) ==
  [sink EXCEPT !.elems =
     FoldLeft(LAMBDA s, m : [s EXCEPT ![m.to] = Put(op, @, source.elems[m.from])], @, moves)]

\* The same when the sink is also the source: each move reads what is there by then.
MovedWithin(op, moves, v) ==
  [v EXCEPT !.elems =
     FoldLeft(LAMBDA s, m : [s EXCEPT ![m.to] = Put(op, @, s[m.from])], @, moves)]

-----------------------------------------------------------------------------
(* Subscripts.  A formula subscript holds a value, a range one the numbers *)
(* of the range.  What they select by is prepared once, when the access or *)
(* the assignment is built, as a copy: later changes of the variable they  *)
(* came from do not reach it.                                              *)

Formula(v)  == [syntax |-> "formula", value |-> v]
Interval(s) == [syntax |-> "range", value |-> ColumnOf(s)]
Every       == [syntax |-> "all", value |-> Scalar(0)]

\* None, of x = v, one or two: any others are unreachable!() in the code.
AnySubscripts ==
  {subs \in Seq([syntax : {"formula", "range", "all"}, value : AnyValue]) : Len(subs) <= 2}

One(i)     == [kind |-> "one", at |-> <<i>>, on |-> << >>]
Many(s)    == [kind |-> "many", at |-> s, on |-> << >>]
Boxed(s)   == [kind |-> "box", at |-> s, on |-> << >>]
Mask(bits) == [kind |-> "mask", at |-> << >>, on |-> bits]
Flag(bits) == [kind |-> "flag", at |-> << >>, on |-> bits]
AnyIndex   == [kind |-> "all", at |-> << >>, on |-> << >>]

\* A matrix of one number is a DMatrix index, one of several is a DVector.
AsIndex(v) ==
  CASE v.type = "num" /\ ~IsMatrix(v) -> One(v.elems[1])
    [] v.type = "num" /\ IsMatrix(v) -> IF Size(v) = 1 THEN Boxed(v.elems) ELSE Many(v.elems)
    [] v.type = "bool" ->
         LET on == [i \in DOMAIN v.elems |-> v.elems[i] = 1]
         IN  IF Size(v) = 1 THEN Flag(on) ELSE Mask(on)

AsVecUsize(v) == IF Size(v) = 1 THEN One(v.elems[1]) ELSE Many(v.elems)

Prepared(sub) ==
  CASE sub.syntax = "formula" -> AsIndex(sub.value)
    [] sub.syntax = "range" -> AsVecUsize(sub.value)
    [] sub.syntax = "all" -> AnyIndex

\* Which family of functions a subscript calls for: by its shape when it is a
\* formula, by its syntax otherwise.
Part(sub) ==
  CASE sub.syntax = "all" -> "all"
    [] sub.syntax = "range" -> "range"
    [] sub.syntax = "formula" -> IF Size(sub.value) = 1 THEN "scalar" ELSE "range"

Family(subs) == [i \in DOMAIN subs |-> Part(subs[i])]
=============================================================================
