----------------------------- MODULE MCMatrices -----------------------------
(***************************************************************************)
(* Small programs for MatrixPrograms: every family of subscripts on a      *)
(* DMatrix, a row and a column, read, assigned and operated on, and then a *)
(* second statement and a step.                                            *)
(***************************************************************************)
EXTENDS MatrixPrograms

CONSTANTS grid, line, stack, point   \* the variables: a 2x3 DMatrix, a row, a column and a scalar

AllCells == {grid, line, stack}
WithPoint == AllCells \cup {point}

Held == [x \in WithPoint |->
           CASE x = grid -> Matrix(2, 3, <<1, 2, 3, 4, 5, 6>>)
             [] x = line -> RowOf(<<7, 8, 9>>)
             [] x = stack -> ColumnOf(<<10, 11>>)
             [] x = point -> Scalar(12)]

HeldOnce == {Held}

F(v) == Formula(v)
Bits(s) == F(Booleans(ColumnOf(s)))

Numbers == {F(Scalar(0)), F(Scalar(2)), F(Scalar(3)), F(Matrix(1, 1, <<2>>)),
            F(ColumnOf(<<2, 1>>)), F(RowOf(<<2, 2>>)), F(ColumnOf(<<1, 3>>)), F(Matrix(2, 2, <<1, 2, 3, 1>>)),
            Interval(<<1, 2>>), Interval(<<2>>), Interval(<<1, 2, 3>>)}
Masks == {Bits(<<1, 0>>), Bits(<<0, 1>>), Bits(<<1, 1>>), Bits(<<0, 0>>),
          Bits(<<1, 0, 1>>), Bits(<<0, 1, 0>>),
          Bits(<<0, 1, 1, 0, 0, 1>>),
          F(Booleans(Matrix(2, 3, <<1, 1, 1, 0, 0, 1>>))),
          F(Booleans(Scalar(1))), F(Booleans(Scalar(0)))}
Subscripts == Numbers \cup Masks \cup {Every}

Singles == {<<s>> : s \in Subscripts}
Pairs == {<<s, t>> : s, t \in Subscripts}

Values == {Literal(Scalar(50)), Literal(ColumnOf(<<20, 21>>)), Literal(RowOf(<<30, 31, 32>>)),
           Literal(Matrix(2, 2, <<40, 41, 42, 43>>)),
           Literal(Matrix(2, 3, <<60, 61, 62, 63, 64, 65>>)),
           Literal(Matrix(3, 2, <<70, 71, 72, 73, 74, 75>>))} \cup {Variable(x) : x \in AllCells}

Reads == {ReadOf(x, subs) : x \in AllCells, subs \in Singles \cup Pairs}
Sets == {SetOf(x, subs, v) : x \in AllCells, subs \in {<< >>} \cup Singles \cup Pairs, v \in Values}
\* x *= x is left out: its products grow past the integers TLC has.
Ops == {OpOf(op, x, subs, v) : op \in Operators, x \in AllCells,
          subs \in {<< >>} \cup Singles \cup {<<s, Every>> : s \in Subscripts}, v \in Values}
       \ {OpOf("*=", x, subs, Variable(y)) : x \in AllCells, y \in AllCells,
          subs \in {<< >>} \cup Singles \cup {<<s, Every>> : s \in Subscripts}}

V(x) == Variable(x)
L(n) == Literal(Scalar(n))
Parts == {V(x) : x \in WithPoint} \cup {L(91), Literal(ColumnOf(<<92, 93>>))}

\* One part, two side by side, two or more rows of them, and what does not fit.
Literals ==
  {BuildOf(<<<<p>>>>) : p \in Parts} \cup {BuildOf(<<<<p, q>>>>) : p, q \in Parts}
  \cup {BuildOf(<<<<p>>, <<q>>>>) : p, q \in Parts}
  \cup {BuildOf(<<<<p, L(94), q>>, <<V(line), V(point)>>>>) : p, q \in Parts}
  \cup {BuildOf(<<<<V(grid), V(stack)>>, <<V(line), p>>, <<V(stack), V(grid)>>>>) : p \in Parts}
  \cup {BuildOf(<<<<V(grid), V(stack), V(grid), V(stack)>>>>),
        BuildOf(<<<<L(95), V(line), L(96), V(point), V(line)>>>>),
        BuildOf(<<<<V(stack)>>, <<V(point)>>, <<V(stack)>>, <<L(97)>>>>),
        BuildOf(<<<<V(point)>>, <<V(stack)>>, <<L(98)>>, <<V(point)>>, <<V(stack)>>, <<L(99)>>>>),
        BuildOf(<<<<V(line)>>, <<V(grid)>>, <<L(1), L(2), L(3)>>, <<V(line)>>, <<V(grid)>>>>)}

Statements == Reads \cup Sets \cup Ops \cup Literals

SecondStatements ==
  {ReadOf(x, subs) : x \in AllCells,
     subs \in {<<Interval(<<1, 2>>)>>, <<Bits(<<1, 0>>)>>, <<Every>>, <<F(Scalar(2)), Every>>}}
  \cup {SetOf(grid, subs, Literal(Scalar(90))) : subs \in {<<F(Scalar(2))>>, <<Every, F(Scalar(1))>>}}
  \cup {SetOf(grid, << >>, Literal(Matrix(2, 2, <<80, 81, 82, 83>>))), SetOf(line, <<F(ColumnOf(<<2, 1>>))>>, Variable(stack)),
        SetOf(stack, << >>, Literal(ColumnOf(<<3, 4>>))), SetOf(stack, << >>, Literal(ColumnOf(<<3, 4, 5>>))),
        SetOf(point, << >>, Literal(Scalar(13))),
        BuildOf(<<<<V(grid), V(stack)>>, <<V(line), V(point)>>>>), BuildOf(<<<<V(stack)>>>>),
        OpOf("+=", grid, << >>, Literal(Matrix(3, 2, <<5, 6, 7, 8, 9, 10>>))),
        OpOf("+=", grid, <<F(RowOf(<<2, 2>>)), Every>>, Literal(Scalar(4)))}

OneStatement == <<Statements>>
TwoStatements == <<Statements, SecondStatements>>
=============================================================================
