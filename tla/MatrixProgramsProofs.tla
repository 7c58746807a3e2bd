------------------------ MODULE MatrixProgramsProofs ------------------------
(***************************************************************************)
(* Theorems about programs that assign parts of matrices and join them,    *)
(* for any shapes, subscripts and values.                                  *)
(***************************************************************************)
EXTENDS MatrixPrograms, BasicLemmas, SequenceTheorems, TLAPS

-----------------------------------------------------------------------------
(* Folds over the moves of a loop.                                         *)

StepOf(s, m, op, source) == [s EXCEPT ![m.to] = Put(op, @, source.elems[m.from])]

MovedFold(f, n, op, source, base, moves) ==
  f = [s \in SUBSET (1..n) |-> IF s = {} THEN base
                               ELSE StepOf(f[s \ {Max(s)}], moves[Max(s)], op, source)]

LEMMA MovedExists ==
  ASSUME NEW op, NEW source, NEW base, NEW moves, NEW n \in Nat
  PROVE \E f : MovedFold(f, n, op, source, base, moves)
<1> DEFINE G(f, k) == MovedFold(f, k, op, source, base, moves)
           D == {k \in Nat : \E f : G(f, k)}
<1>1. 0 \in D
  <2>1. G([s \in SUBSET (1..0) |-> base], 0)
    BY DEF MovedFold
  <2> QED BY <2>1
<1>2. ASSUME NEW k \in Nat, k \in D PROVE k + 1 \in D
  <2>1. PICK f : G(f, k)
    BY <1>2
  <2> DEFINE T == SUBSET (1..(k + 1))
             value(s) == IF s = {} THEN base ELSE StepOf(f[s \ {Max(s)}], moves[Max(s)], op, source)
             g == [s \in T |-> value(s)]
  <2>2. \A s \in SUBSET (1..k) : s \in T /\ f[s] = value(s)
    <3>1. SUBSET (1..k) \subseteq T
      OBVIOUS
    <3>2. ASSUME NEW s \in SUBSET (1..k) PROVE f[s] = value(s)
      <4>1. f = [t \in SUBSET (1..k) |-> value(t)]
        BY <2>1 DEF MovedFold
      <4> HIDE DEF value
      <4> QED BY <4>1
    <3> HIDE DEF T, value
    <3> QED BY <3>1, <3>2
  <2>3. ASSUME NEW s \in T, s # {} PROVE f[s \ {Max(s)}] = g[s \ {Max(s)}]
    <3>1. s \ {Max(s)} \in SUBSET (1..k)
      BY <2>3, WithoutMax
    <3> HIDE DEF value
    <3> QED BY <2>2, <3>1
  <2>4. \A s \in T : g[s] = IF s = {} THEN base ELSE StepOf(g[s \ {Max(s)}], moves[Max(s)], op, source)
    BY <2>3
  <2>5. g = [s \in T |-> g[s]]
    OBVIOUS
  <2>6. G(g, k + 1)
    <3> HIDE DEF g
    <3> QED BY <2>4, <2>5 DEF MovedFold
  <2> HIDE DEF G
  <2> QED BY <2>6
<1>3. n \in D
  <2> HIDE DEF D
  <2> QED BY <1>1, <1>2, NatSetInduction
<1> QED BY <1>3

(* The sink after each of the moves.                                       *)
LEMMA MovedIs ==
  ASSUME NEW op, NEW source, NEW sink, NEW moves, NEW n \in Nat, DOMAIN moves = 1..n
  PROVE  \E r : /\ r[0] = sink.elems
                /\ \A k \in 1..n : r[k] = StepOf(r[k - 1], moves[k], op, source)
                /\ Moved(op, moves, sink, source) = [sink EXCEPT !.elems = r[n]]
<1> DEFINE base == sink.elems
           G(f) == MovedFold(f, n, op, source, base, moves)
           g == CHOOSE f : G(f)
<1>1. G(g)
  <2>1. \E f : G(f)
    BY MovedExists
  <2> QED BY <2>1, Zenon
<1>2. Moved(op, moves, sink, source) = [sink EXCEPT !.elems = g[1..n]]
  BY DEF Moved, FoldLeft, MapThenFoldSet, StepOf, MovedFold
<1> HIDE DEF g
<1> DEFINE r == [k \in 0..n |-> g[1..k]]
<1>3. r[0] = base
  BY <1>1 DEF MovedFold
<1>4. ASSUME NEW k \in 1..n PROVE r[k] = StepOf(r[k - 1], moves[k], op, source)
  <2>1. /\ 1..k \in SUBSET (1..n) /\ 1..k # {} /\ (1..k) \ {k} = 1..(k - 1)
        /\ Max(1..k) = k /\ k - 1 \in 0..n
    BY FirstNumbers
  <2>2. g[1..k] = StepOf(g[1..(k - 1)], moves[k], op, source)
    BY <1>1, <2>1 DEF MovedFold
  <2> QED BY <2>1, <2>2
<1>5. r[n] = g[1..n]
  OBVIOUS
<1> HIDE DEF r
<1> QED BY <1>2, <1>3, <1>4, <1>5

WithinStepOf(s, m, op) == [s EXCEPT ![m.to] = Put(op, @, s[m.from])]

WithinFold(f, n, op, base, moves) ==
  f = [s \in SUBSET (1..n) |-> IF s = {} THEN base
                               ELSE WithinStepOf(f[s \ {Max(s)}], moves[Max(s)], op)]

LEMMA WithinExists ==
  ASSUME NEW op, NEW base, NEW moves, NEW n \in Nat
  PROVE \E f : WithinFold(f, n, op, base, moves)
<1> DEFINE G(f, k) == WithinFold(f, k, op, base, moves)
           D == {k \in Nat : \E f : G(f, k)}
<1>1. 0 \in D
  <2>1. G([s \in SUBSET (1..0) |-> base], 0)
    BY DEF WithinFold
  <2> QED BY <2>1
<1>2. ASSUME NEW k \in Nat, k \in D PROVE k + 1 \in D
  <2>1. PICK f : G(f, k)
    BY <1>2
  <2> DEFINE T == SUBSET (1..(k + 1))
             value(s) == IF s = {} THEN base ELSE WithinStepOf(f[s \ {Max(s)}], moves[Max(s)], op)
             g == [s \in T |-> value(s)]
  <2>2. \A s \in SUBSET (1..k) : s \in T /\ f[s] = value(s)
    <3>1. SUBSET (1..k) \subseteq T
      OBVIOUS
    <3>2. ASSUME NEW s \in SUBSET (1..k) PROVE f[s] = value(s)
      <4>1. f = [t \in SUBSET (1..k) |-> value(t)]
        BY <2>1 DEF WithinFold
      <4> HIDE DEF value
      <4> QED BY <4>1
    <3> HIDE DEF T, value
    <3> QED BY <3>1, <3>2
  <2>3. ASSUME NEW s \in T, s # {} PROVE f[s \ {Max(s)}] = g[s \ {Max(s)}]
    <3>1. s \ {Max(s)} \in SUBSET (1..k)
      BY <2>3, WithoutMax
    <3> HIDE DEF value
    <3> QED BY <2>2, <3>1
  <2>4. \A s \in T : g[s] = IF s = {} THEN base ELSE WithinStepOf(g[s \ {Max(s)}], moves[Max(s)], op)
    BY <2>3
  <2>5. g = [s \in T |-> g[s]]
    OBVIOUS
  <2>6. G(g, k + 1)
    <3> HIDE DEF g
    <3> QED BY <2>4, <2>5 DEF WithinFold
  <2> HIDE DEF G
  <2> QED BY <2>6
<1>3. n \in D
  <2> HIDE DEF D
  <2> QED BY <1>1, <1>2, NatSetInduction
<1> QED BY <1>3

LEMMA WithinIs ==
  ASSUME NEW op, NEW v, NEW moves, NEW n \in Nat, DOMAIN moves = 1..n
  PROVE  \E r : /\ r[0] = v.elems
                /\ \A k \in 1..n : r[k] = WithinStepOf(r[k - 1], moves[k], op)
                /\ MovedWithin(op, moves, v) = [v EXCEPT !.elems = r[n]]
<1> DEFINE base == v.elems
           G(f) == WithinFold(f, n, op, base, moves)
           g == CHOOSE f : G(f)
<1>1. G(g)
  <2>1. \E f : G(f)
    BY WithinExists
  <2> QED BY <2>1, Zenon
<1>2. MovedWithin(op, moves, v) = [v EXCEPT !.elems = g[1..n]]
  BY DEF MovedWithin, FoldLeft, MapThenFoldSet, WithinStepOf, WithinFold
<1> HIDE DEF g
<1> DEFINE r == [k \in 0..n |-> g[1..k]]
<1>3. r[0] = base
  BY <1>1 DEF WithinFold
<1>4. ASSUME NEW k \in 1..n PROVE r[k] = WithinStepOf(r[k - 1], moves[k], op)
  <2>1. /\ 1..k \in SUBSET (1..n) /\ 1..k # {} /\ (1..k) \ {k} = 1..(k - 1)
        /\ Max(1..k) = k /\ k - 1 \in 0..n
    BY FirstNumbers
  <2>2. g[1..k] = WithinStepOf(g[1..(k - 1)], moves[k], op)
    BY <1>1, <2>1 DEF WithinFold
  <2> QED BY <2>1, <2>2
<1>5. r[n] = g[1..n]
  OBVIOUS
<1> HIDE DEF r
<1> QED BY <1>2, <1>3, <1>4, <1>5

-----------------------------------------------------------------------------
(* What a loop leaves: the shape, and what it does not write.              *)

AnyOperator == Operators \cup {"="}

LEMMA PutIsInt ==
  ASSUME NEW op \in AnyOperator, NEW a \in Int, NEW b \in Int
  PROVE  Put(op, a, b) \in Int
<1>1. a + b \in Int /\ a - b \in Int /\ a * b \in Int
  OBVIOUS
<1>2. op \in {"=", "+=", "-=", "*="}
  BY DEF AnyOperator, Operators
<1> QED BY <1>1, <1>2 DEF Put, add_assign, sub_assign, mul_assign

(* y is x with other elements at the positions that the moves write.       *)
KeepsForm(x, y) ==
  y.type = x.type /\ y.form = x.form /\ y.rows = x.rows /\ y.cols = x.cols /\ Size(y) = Size(x)

WritesOnly(x, y, moves) ==
  /\ y \in AnyResult /\ KeepsForm(x, y)
  /\ \A i \in 1..Size(x) : (\A k \in DOMAIN moves : moves[k].to # i) => y.elems[i] = x.elems[i]

LEMMA ResultElems ==
  ASSUME NEW x \in AnyResult
  PROVE  /\ Size(x) \in Nat /\ x.rows \in Nat /\ x.cols \in Nat /\ Size(x) = x.rows * x.cols
         /\ x.elems \in [1..Size(x) -> Int] /\ DOMAIN x.elems = 1..Size(x)
<1>1. x.elems \in Seq(Int)
  BY DEF AnyResult
<1>2. x.elems \in [1..Len(x.elems) -> Int] /\ Len(x.elems) \in Nat
  BY <1>1
<1> QED BY <1>2 DEF AnyResult, Size

LEMMA OtherElems ==
  ASSUME NEW x \in AnyResult, NEW s \in [1..Size(x) -> Int]
  PROVE  LET y == [x EXCEPT !.elems = s]
         IN  y \in AnyResult /\ y.elems = s /\ KeepsForm(x, y)
<1> DEFINE y == [x EXCEPT !.elems = s]
<1>1. Size(x) \in Nat
  BY ResultElems
<1>2. s \in Seq(Int) /\ Len(s) = Size(x)
  BY <1>1
<1>3. /\ x \in [type : {"num", "bool"}, form : {"scalar", "row", "col", "mat"},
                rows : Nat, cols : Nat, elems : Seq(Int)]
      /\ Size(x) = x.rows * x.cols
      /\ x.form \in {"scalar", "row"} => x.rows = 1
      /\ x.form \in {"scalar", "col"} => x.cols = 1
  BY DEF AnyResult
<1>4. /\ y \in [type : {"num", "bool"}, form : {"scalar", "row", "col", "mat"},
                rows : Nat, cols : Nat, elems : Seq(Int)]
      /\ y.elems = s /\ y.type = x.type /\ y.form = x.form /\ y.rows = x.rows /\ y.cols = x.cols
  BY <1>2, <1>3
<1>5. Size(y) = Size(x)
  BY <1>2, <1>4 DEF Size
<1> HIDE DEF y
<1> QED BY <1>3, <1>4, <1>5 DEF AnyResult, KeepsForm, y

InRange(moves, n, x, v) ==
  \A k \in 1..n : moves[k].to \in 1..Size(x) /\ moves[k].from \in 1..Size(v)

LEMMA MovedWritesOnly ==
  ASSUME NEW op \in AnyOperator, NEW x \in AnyResult, NEW v \in AnyResult, NEW n \in Nat,
         NEW moves, DOMAIN moves = 1..n, InRange(moves, n, x, v)
  PROVE  WritesOnly(x, Moved(op, moves, x, v), moves)
<1>1. PICK r : /\ r[0] = x.elems
               /\ \A k \in 1..n : r[k] = StepOf(r[k - 1], moves[k], op, v)
               /\ Moved(op, moves, x, v) = [x EXCEPT !.elems = r[n]]
  BY MovedIs
<1>2. Untouched(r[n], r[0], Size(x), moves, n)
  <2>1. ASSUME NEW k \in 1..n, r[k - 1] \in [1..Size(x) -> Int]
        PROVE  \E a \in Int : r[k] = [r[k - 1] EXCEPT ![moves[k].to] = a]
    <3> DEFINE a == Put(op, r[k - 1][moves[k].to], v.elems[moves[k].from])
    <3>1. r[k - 1][moves[k].to] \in Int /\ v.elems[moves[k].from] \in Int
      BY <2>1, ResultElems DEF InRange
    <3>2. a \in Int
      BY <3>1, PutIsInt
    <3>3. r[k] = [r[k - 1] EXCEPT ![moves[k].to] = a]
      BY <1>1 DEF StepOf
    <3> QED BY <3>2, <3>3
  <2>2. r[0] \in [1..Size(x) -> Int] /\ Size(x) \in Nat
    BY <1>1, ResultElems
  <2> QED BY <2>1, <2>2, ChainKeeps
<1>3. r[n] \in [1..Size(x) -> Int]
  BY <1>2 DEF Untouched
<1> QED BY <1>1, <1>2, <1>3, OtherElems DEF WritesOnly, Untouched

LEMMA WithinWritesOnly ==
  ASSUME NEW op \in AnyOperator, NEW x \in AnyResult, NEW n \in Nat,
         NEW moves, DOMAIN moves = 1..n, InRange(moves, n, x, x)
  PROVE  WritesOnly(x, MovedWithin(op, moves, x), moves)
<1>1. PICK r : /\ r[0] = x.elems
               /\ \A k \in 1..n : r[k] = WithinStepOf(r[k - 1], moves[k], op)
               /\ MovedWithin(op, moves, x) = [x EXCEPT !.elems = r[n]]
  BY WithinIs
<1>2. Untouched(r[n], r[0], Size(x), moves, n)
  <2>1. ASSUME NEW k \in 1..n, r[k - 1] \in [1..Size(x) -> Int]
        PROVE  \E a \in Int : r[k] = [r[k - 1] EXCEPT ![moves[k].to] = a]
    <3> DEFINE a == Put(op, r[k - 1][moves[k].to], r[k - 1][moves[k].from])
    <3>1. r[k - 1][moves[k].to] \in Int /\ r[k - 1][moves[k].from] \in Int
      BY <2>1 DEF InRange
    <3>2. a \in Int
      BY <3>1, PutIsInt
    <3>3. r[k] = [r[k - 1] EXCEPT ![moves[k].to] = a]
      BY <1>1 DEF WithinStepOf
    <3> QED BY <3>2, <3>3
  <2>2. r[0] \in [1..Size(x) -> Int] /\ Size(x) \in Nat
    BY <1>1, ResultElems
  <2> QED BY <2>1, <2>2, ChainKeeps
<1>3. r[n] \in [1..Size(x) -> Int]
  BY <1>2 DEF Untouched
<1> QED BY <1>1, <1>2, <1>3, OtherElems DEF WritesOnly, Untouched

-----------------------------------------------------------------------------
(* The positions at which a mask is set.                                   *)

LEMMA SetBitsLists ==
  ASSUME NEW mask, Len(mask) \in Nat, \A i \in 1..Len(mask) : mask[i] \in BOOLEAN
  PROVE  Lists(SetBits(mask), Len(mask), mask)
<1> DEFINE N == Len(mask)
           G(f) == f = [n \in 0..N |-> IF n = 0 THEN << >>
                                      ELSE IF mask[n] THEN Append(f[n - 1], n)
                                      ELSE f[n - 1]]
           bits == CHOOSE f : G(f)
<1>1. G(bits)
  <2>1. \E f : G(f)
    BY BitsExist DEF BitsOf
  <2> QED BY <2>1, Zenon
<1>2. SetBits(mask) = bits[N]
  BY DEF SetBits
<1> HIDE DEF bits
<1> DEFINE D == {k \in Nat : k <= N => Lists(bits[k], k, mask)}
<1>3. 0 \in D
  <2>1. bits[0] = << >>
    BY <1>1
  <2>2. Lists(<< >>, 0, mask)
    BY DEF Lists
  <2> QED BY <2>1, <2>2
<1>4. ASSUME NEW k \in Nat, k \in D PROVE k + 1 \in D
  <2> SUFFICES ASSUME k + 1 <= N PROVE Lists(bits[k + 1], k + 1, mask)
    OBVIOUS
  <2>1. Lists(bits[k], k, mask)
    BY <1>4
  <2>2. k + 1 \in 0..N /\ k + 1 # 0 /\ (k + 1) - 1 = k /\ k + 1 \in 1..N
    OBVIOUS
  <2>3. mask[k + 1] \in BOOLEAN
    BY <2>2
  <2>4. mask[k + 1] => bits[k + 1] = Append(bits[k], k + 1)
    BY <1>1, <2>2
  <2>5. ~mask[k + 1] => bits[k + 1] = bits[k]
    BY <1>1, <2>2
  <2> HIDE DEF N
  <2> QED BY <2>1, <2>3, <2>4, <2>5, ListsMore
<1>5. N \in D
  <2> HIDE DEF D
  <2> QED BY <1>3, <1>4, NatSetInduction
<1> QED BY <1>2, <1>5

-----------------------------------------------------------------------------
(* Subscripts and what they select.                                        *)

AnySubscript == [syntax : {"formula", "range", "all"}, value : AnyValue]

LEMMA ValueIsResult ==
  ASSUME NEW v \in AnyValue
  PROVE  /\ v \in AnyResult /\ Size(v) \in Nat /\ Size(v) > 0
         /\ v.rows \in Nat /\ v.cols \in Nat /\ v.rows > 0 /\ v.cols > 0 /\ Size(v) = v.rows * v.cols
         /\ v.elems \in Seq(Int) /\ v.elems \in [1..Size(v) -> Int]
         /\ v.type \in {"num", "bool"} /\ v.form \in {"scalar", "row", "col", "mat"}
         /\ ~IsMatrix(v) => v.rows = 1 /\ v.cols = 1 /\ Size(v) = 1
<1>1. v \in AnyResult /\ Size(v) > 0
  BY DEF AnyValue
<1>2. /\ Size(v) \in Nat /\ v.rows \in Nat /\ v.cols \in Nat /\ Size(v) = v.rows * v.cols
      /\ v.elems \in [1..Size(v) -> Int]
  BY <1>1, ResultElems
<1>3. \A a, b \in Nat : a * b > 0 => a > 0 /\ b > 0
  OBVIOUS
<1>4. v.rows > 0 /\ v.cols > 0
  BY <1>1, <1>2, <1>3
<1>5. /\ v.elems \in Seq(Int) /\ v.type \in {"num", "bool"}
      /\ v.form \in {"scalar", "row", "col", "mat"}
      /\ v.form = "scalar" => v.rows = 1 /\ v.cols = 1
  BY <1>1 DEF AnyResult
<1> QED BY <1>1, <1>2, <1>4, <1>5 DEF IsMatrix

(* What a prepared subscript is, by its kind.                              *)
Prepares(t, ix) ==
  /\ ix.kind \in {"one", "many", "box", "mask", "flag", "all"}
  /\ ix.at \in Seq(Int) /\ ix.on \in Seq(BOOLEAN)
  /\ ix.kind = "all" <=> t.syntax = "all"
  /\ ix.kind \in {"one", "box"} => Len(ix.at) = 1
  /\ ix.kind = "flag" => Len(ix.on) = 1
  /\ ix.kind \in {"one", "many", "box"} => ix.on = << >>
  /\ ix.kind \in {"mask", "flag"} => ix.at = << >>
  /\ ix.kind = "mask" => t.syntax = "formula" /\ Len(ix.on) = Size(t.value)
                         /\ AsIndex(t.value).kind = "mask"
  /\ \A n \in Nat : Selects(t, n) = CASE ix.kind = "all" -> [i \in 1..n |-> i]
                                      [] ix.kind = "mask" -> SetBits(ix.on)
                                      [] ix.kind = "flag" -> IF ix.on[1] THEN [i \in 1..n |-> i] ELSE << >>
                                      [] OTHER -> ix.at

LEMMA PreparedIs ==
  ASSUME NEW t \in AnySubscript
  PROVE  Prepares(t, Prepared(t))
<1> DEFINE v == t.value
           on == [i \in DOMAIN v.elems |-> v.elems[i] = 1]
           ix == Prepared(t)
<1>1. /\ v.elems \in Seq(Int) /\ v.elems \in [1..Size(v) -> Int] /\ Size(v) \in Nat /\ Size(v) > 0
      /\ v.type \in {"num", "bool"} /\ t.syntax \in {"formula", "range", "all"}
      /\ ~IsMatrix(v) => Size(v) = 1
  <2>1. v \in AnyValue /\ t.syntax \in {"formula", "range", "all"}
    BY DEF AnySubscript
  <2> QED BY <2>1, ValueIsResult
<1>2. on \in Seq(BOOLEAN) /\ Len(on) = Size(v)
  <2>1. on \in [1..Size(v) -> BOOLEAN]
    BY <1>1
  <2> HIDE DEF on, v
  <2> QED BY <1>1, <2>1
<1>3. v.elems[1] \in Int /\ <<v.elems[1]>> \in Seq(Int) /\ Len(<<v.elems[1]>>) = 1
      /\ << >> \in Seq(Int) /\ << >> \in Seq(BOOLEAN)
  BY <1>1
<1>4. \A n \in Nat : Selects(t, n) = CASE ix.kind = "all" -> [i \in 1..n |-> i]
                                      [] ix.kind = "mask" -> SetBits(ix.on)
                                      [] ix.kind = "flag" -> IF ix.on[1] THEN [i \in 1..n |-> i] ELSE << >>
                                      [] OTHER -> ix.at
  BY DEF Selects
<1>5. CASE t.syntax = "all"
  <2>1. ix = [kind |-> "all", at |-> << >>, on |-> << >>]
    BY <1>5 DEF Prepared, AnyIndex
  <2>2. ix.kind = "all" /\ ix.at = << >> /\ ix.on = << >>
    BY <2>1
  <2> HIDE DEF ix
  <2> QED BY <1>3, <1>4, <1>5, <2>2 DEF Prepares, ix
<1>6. CASE t.syntax = "range"
  <2>1. ix = IF Size(v) = 1 THEN One(v.elems[1]) ELSE Many(v.elems)
    BY <1>6 DEF Prepared, AsVecUsize
  <2>2. /\ ix.kind = IF Size(v) = 1 THEN "one" ELSE "many"
        /\ ix.at = (IF Size(v) = 1 THEN <<v.elems[1]>> ELSE v.elems) /\ ix.on = << >>
    BY <2>1 DEF One, Many
  <2> HIDE DEF ix
  <2> QED BY <1>1, <1>3, <1>4, <1>6, <2>2 DEF Prepares, ix
<1>7. CASE t.syntax = "formula" /\ v.type = "num"
  <2>1. ix = IF ~IsMatrix(v) THEN One(v.elems[1]) ELSE IF Size(v) = 1 THEN Boxed(v.elems) ELSE Many(v.elems)
    BY <1>7 DEF Prepared, AsIndex
  <2>2. /\ ix.kind = (IF ~IsMatrix(v) THEN "one" ELSE IF Size(v) = 1 THEN "box" ELSE "many")
        /\ ix.at = (IF ~IsMatrix(v) THEN <<v.elems[1]>> ELSE v.elems) /\ ix.on = << >>
    BY <2>1 DEF One, Many, Boxed
  <2>3. Len(v.elems) = Size(v)
    BY DEF Size
  <2> HIDE DEF ix
  <2> QED BY <1>1, <1>3, <1>4, <1>7, <2>2, <2>3 DEF Prepares, ix
<1>8. CASE t.syntax = "formula" /\ v.type = "bool"
  <2>1. ix = IF Size(v) = 1 THEN Flag(on) ELSE Mask(on)
    BY <1>8 DEF Prepared, AsIndex
  <2>2. /\ ix.kind = (IF Size(v) = 1 THEN "flag" ELSE "mask")
        /\ ix.at = << >> /\ ix.on = on
    BY <2>1 DEF Flag, Mask
  <2>3. AsIndex(t.value) = ix
    BY <1>8 DEF Prepared
  <2> HIDE DEF ix, on, v
  <2> QED BY <1>1, <1>2, <1>3, <1>4, <1>8, <2>2, <2>3 DEF Prepares, ix, v
<1> QED BY <1>1, <1>5, <1>6, <1>7, <1>8

LEMMA MaskLists ==
  ASSUME NEW on \in Seq(BOOLEAN)
  PROVE  Lists(SetBits(on), Len(on), on)
<1>1. Len(on) \in Nat /\ \A i \in 1..Len(on) : on[i] \in BOOLEAN
  OBVIOUS
<1> QED BY <1>1, SetBitsLists

LEMMA SelectsIsSeq ==
  ASSUME NEW t \in AnySubscript, NEW n \in Nat
  PROVE  Selects(t, n) \in Seq(Int)
<1>1. Prepares(t, Prepared(t))
  BY PreparedIs
<1>2. Prepared(t).at \in Seq(Int) /\ Prepared(t).on \in Seq(BOOLEAN)
  BY <1>1 DEF Prepares
<1>3. SetBits(Prepared(t).on) \in Seq(Int)
  <2>1. SetBits(Prepared(t).on) \in Seq(Nat)
    BY <1>2, MaskLists DEF Lists
  <2> QED BY <2>1
<1>4. [i \in 1..n |-> i] \in Seq(Int) /\ << >> \in Seq(Int)
  OBVIOUS
<1> QED BY <1>1, <1>2, <1>3, <1>4 DEF Prepares

LEMMA SubscriptsAre ==
  ASSUME NEW subs \in AnySubscripts
  PROVE  /\ Len(subs) \in {0, 1, 2} /\ DOMAIN subs = 1..Len(subs)
         /\ \A i \in 1..Len(subs) : subs[i] \in AnySubscript
         /\ Len(subs) = 0 <=> subs = << >>
<1>1. subs \in Seq(AnySubscript) /\ Len(subs) <= 2
  BY DEF AnySubscripts, AnySubscript
<1>2. \A q \in Seq(AnySubscript) : Len(q) \in Nat /\ DOMAIN q = 1..Len(q) /\ (Len(q) = 0 <=> q = << >>)
        /\ \A i \in 1..Len(q) : q[i] \in AnySubscript
  OBVIOUS
<1>3. /\ Len(subs) \in Nat /\ DOMAIN subs = 1..Len(subs) /\ (Len(subs) = 0 <=> subs = << >>)
      /\ \A i \in 1..Len(subs) : subs[i] \in AnySubscript
  BY <1>1, <1>2, Zenon
<1>4. Len(subs) \in {0, 1, 2}
  BY <1>1, <1>3
<1> QED BY <1>3, <1>4, Zenon

-----------------------------------------------------------------------------
(* Every move of an assignment's loop writes a position that the subscripts *)
(* select, and reads one of the values assigned if they fit.               *)


Place(x, subs, r, c) == PositionOf(x, subs, RowsOf(x, subs)[r], ColsOf(x, subs)[c])

ServesAt(m, x, subs, v) ==
  \E r \in 1..Len(RowsOf(x, subs)), c \in 1..Len(ColsOf(x, subs)) :
    /\ m.to = Place(x, subs, r, c)
    /\ Fits(x, subs, v) /\ m.to # Outside => m.from \in 1..Size(v)

Serves(moves, x, subs, v) ==
  /\ \E n \in Nat : DOMAIN moves = 1..n
  /\ \A k \in DOMAIN moves : ServesAt(moves[k], x, subs, v)

(* Subscripts of one index, and of two.                                    *)
LEMMA OneSelects ==
  ASSUME NEW x \in AnyValue, NEW subs \in AnySubscripts, Len(subs) = 1
  PROVE  /\ subs[1] \in AnySubscript /\ DOMAIN subs = 1..1
         /\ RowsOf(x, subs) = Selects(subs[1], Size(x)) /\ RowsOf(x, subs) \in Seq(Int)
         /\ ColsOf(x, subs) = <<1>>
         /\ \A r, c : Place(x, subs, r, c) = Index1d(x, RowsOf(x, subs)[r])
         /\ ByMask(subs) <=> Prepared(subs[1]).kind \in {"mask", "flag"}
<1>1. subs[1] \in AnySubscript /\ DOMAIN subs = 1..1
  BY SubscriptsAre
<1>2. RowsOf(x, subs) = Selects(subs[1], Size(x)) /\ ColsOf(x, subs) = <<1>>
  BY DEF RowsOf, ColsOf
<1>3. RowsOf(x, subs) \in Seq(Int)
  BY <1>1, <1>2, SelectsIsSeq, ValueIsResult
<1>4. \A r, c : Place(x, subs, r, c) = Index1d(x, RowsOf(x, subs)[r])
  BY DEF Place, PositionOf
<1>5. ByMask(subs) <=> Prepared(subs[1]).kind \in {"mask", "flag"}
  BY <1>1 DEF ByMask
<1> QED BY <1>1, <1>2, <1>3, <1>4, <1>5

LEMMA TwoSelects ==
  ASSUME NEW x \in AnyValue, NEW subs \in AnySubscripts, Len(subs) = 2
  PROVE  /\ subs[1] \in AnySubscript /\ subs[2] \in AnySubscript /\ DOMAIN subs = 1..2
         /\ RowsOf(x, subs) = Selects(subs[1], x.rows) /\ RowsOf(x, subs) \in Seq(Int)
         /\ ColsOf(x, subs) = Selects(subs[2], x.cols) /\ ColsOf(x, subs) \in Seq(Int)
         /\ \A r, c : Place(x, subs, r, c) = Index2d(x, RowsOf(x, subs)[r], ColsOf(x, subs)[c])
         /\ ByMask(subs) <=> \/ Prepared(subs[1]).kind \in {"mask", "flag"}
                             \/ Prepared(subs[2]).kind \in {"mask", "flag"}
<1>1. subs[1] \in AnySubscript /\ subs[2] \in AnySubscript /\ DOMAIN subs = 1..2
  BY SubscriptsAre
<1>2. RowsOf(x, subs) = Selects(subs[1], x.rows) /\ ColsOf(x, subs) = Selects(subs[2], x.cols)
  BY DEF RowsOf, ColsOf
<1>3. RowsOf(x, subs) \in Seq(Int) /\ ColsOf(x, subs) \in Seq(Int)
  BY <1>1, <1>2, SelectsIsSeq, ValueIsResult
<1>4. \A r, c : Place(x, subs, r, c) = Index2d(x, RowsOf(x, subs)[r], ColsOf(x, subs)[c])
  BY DEF Place, PositionOf
<1>5. ByMask(subs) <=> \/ Prepared(subs[1]).kind \in {"mask", "flag"}
                       \/ Prepared(subs[2]).kind \in {"mask", "flag"}
  BY <1>1 DEF ByMask
<1> QED BY <1>1, <1>2, <1>3, <1>4, <1>5

(* What a value that fits has.                                             *)
LEMMA FitsIs ==
  ASSUME NEW x \in AnyValue, NEW v \in AnyValue, NEW subs, Fits(x, subs, v), IsMatrix(v)
  PROVE  /\ ByMask(subs) => v.rows = x.rows /\ v.cols = x.cols /\ Size(v) = Size(x)
         /\ ~ByMask(subs) => v.rows = Len(RowsOf(x, subs)) /\ v.cols = Len(ColsOf(x, subs))
<1>1. Size(x) = x.rows * x.cols /\ Size(v) = v.rows * v.cols
  BY ValueIsResult
<1> QED BY <1>1 DEF Fits, SameShape

LEMMA OneServes ==
  ASSUME NEW x \in AnyValue, NEW v \in AnyValue, NEW subs \in AnySubscripts, Len(subs) = 1,
         NEW ix, ix[1] = Prepared(subs[1])
  PROVE  /\ ix[1].kind = "one" /\ ~IsMatrix(v) => Serves(assign_1d_scalar(x, ix, v), x, subs, v)
         /\ ix[1].kind = "flag" /\ ~IsMatrix(v) => Serves(assign_1d_scalar_b(x, ix, v), x, subs, v)
         /\ ix[1].kind = "flag" => Serves(assign_1d_scalar_vb(x, ix, v), x, subs, v)
         /\ ix[1].kind = "all" /\ ~IsMatrix(v) => Serves(assign_1d_all(x, v), x, subs, v)
         /\ ix[1].kind = "many" => Serves(set_1d_range(x, ix, v), x, subs, v)
         /\ ix[1].kind = "mask" => Serves(set_1d_range_b(x, ix, v), x, subs, v)
<1> DEFINE t == subs[1]
           kind == ix[1].kind
           rows == RowsOf(x, subs)
           cols == ColsOf(x, subs)
           every == [i \in 1..Size(x) |-> i]
<1>1. /\ rows = Selects(t, Size(x)) /\ rows \in Seq(Int) /\ cols = <<1>>
      /\ \A r, c : Place(x, subs, r, c) = Index1d(x, rows[r])
      /\ ByMask(subs) <=> kind \in {"mask", "flag"}
      /\ Prepares(t, ix[1])
  BY OneSelects, PreparedIs
<1>2. /\ Size(x) \in Nat /\ Size(v) \in Nat /\ Size(v) > 0 /\ 1 \in 1..Size(v)
      /\ v.rows \in Nat /\ v.cols \in Nat /\ Size(v) = v.rows * v.cols
  BY ValueIsResult
<1>3. Len(rows) \in Nat /\ Len(cols) = 1 /\ 1 \in 1..Len(cols)
  BY <1>1
<1>4. /\ kind \in {"one", "many"} => rows = ix[1].at
      /\ kind = "mask" => rows = SetBits(ix[1].on)
      /\ kind = "all" => rows = every
      /\ kind = "flag" => rows = IF ix[1].on[1] THEN every ELSE << >>
      /\ kind = "one" => Len(ix[1].at) = 1
  BY <1>1, <1>2 DEF Prepares
<1>5. Len(every) = Size(x) /\ \A i \in 1..Size(x) : every[i] = i
  BY <1>2
<1>6. ASSUME Fits(x, subs, v), IsMatrix(v)
      PROVE  /\ kind \in {"mask", "flag"} => Size(v) = Size(x)
             /\ kind \notin {"mask", "flag"} => Size(v) = Len(rows)
  <2>1. /\ ByMask(subs) => v.rows = x.rows /\ v.cols = x.cols /\ Size(v) = Size(x)
        /\ ~ByMask(subs) => v.rows = Len(rows) /\ v.cols = Len(cols)
    BY <1>6, FitsIs
  <2>2. Len(cols) = 1 /\ Len(rows) \in Nat
    BY <1>3
  <2> HIDE DEF rows, cols
  <2>3. ASSUME ~ByMask(subs) PROVE Size(v) = Len(rows)
    <3>1. Size(v) = Len(rows) * 1
      BY <2>1, <2>2, <2>3, <1>2
    <3> QED BY <3>1, <2>2
  <2> QED BY <1>1, <2>1, <2>3
<1>7. ASSUME NEW m, NEW r \in 1..Len(rows), m.to = Index1d(x, rows[r]),
             Fits(x, subs, v) /\ m.to # Outside => m.from \in 1..Size(v)
      PROVE  ServesAt(m, x, subs, v)
  BY <1>1, <1>3, <1>7 DEF ServesAt
<1>8. \A i \in 1..Size(x) : Index1d(x, i) = i
  BY DEF Index1d
<1> HIDE DEF every, rows, cols
<1>9. ASSUME kind = "one", ~IsMatrix(v) PROVE Serves(assign_1d_scalar(x, ix, v), x, subs, v)
  <2> DEFINE moves == assign_1d_scalar(x, ix, v)
  <2>1. DOMAIN moves = 1..1 /\ moves[1].to = Index1d(x, rows[1]) /\ moves[1].from = 1 /\ 1 \in 1..Len(rows)
    BY <1>4, <1>9 DEF assign_1d_scalar, Move
  <2> HIDE DEF moves
  <2>2. ServesAt(moves[1], x, subs, v)
    BY <1>2, <1>7, <2>1
  <2> QED BY <2>1, <2>2 DEF Serves, moves
<1>10. ASSUME kind = "flag", ~IsMatrix(v) PROVE Serves(assign_1d_scalar_b(x, ix, v), x, subs, v)
  <2> DEFINE moves == assign_1d_scalar_b(x, ix, v)
             n == IF ix[1].on[1] THEN Size(x) ELSE 0
  <2>1. n \in Nat /\ DOMAIN moves = 1..n /\ \A k \in 1..n : moves[k].to = k /\ moves[k].from = 1
    BY <1>2 DEF assign_1d_scalar_b, Move, Loop
  <2>2. \A k \in 1..n : k \in 1..Len(rows) /\ rows[k] = k /\ k \in 1..Size(x)
    BY <1>4, <1>5, <1>10
  <2> HIDE DEF moves, n
  <2>3. \A k \in 1..n : ServesAt(moves[k], x, subs, v)
    BY <1>2, <1>7, <1>8, <2>1, <2>2
  <2> QED BY <2>1, <2>3 DEF Serves, moves
<1>11. ASSUME kind = "flag" PROVE Serves(assign_1d_scalar_vb(x, ix, v), x, subs, v)
  <2> DEFINE moves == assign_1d_scalar_vb(x, ix, v)
             least == Min({Size(x), Size(v)})
             n == IF ix[1].on[1] THEN least ELSE 0
  <2>1. least \in Nat /\ least <= Size(x) /\ least <= Size(v)
    BY <1>2, MinIs
  <2> HIDE DEF least
  <2>2. n \in Nat /\ DOMAIN moves = 1..n /\ \A k \in 1..n : moves[k].to = k /\ moves[k].from = k
    BY <2>1 DEF assign_1d_scalar_vb, Move, Loop, least
  <2>3. \A k \in 1..n : k \in 1..Len(rows) /\ rows[k] = k /\ k \in 1..Size(x) /\ k \in 1..Size(v)
    BY <1>2, <1>4, <1>5, <1>11, <2>1
  <2> HIDE DEF moves, n
  <2>4. \A k \in 1..n : ServesAt(moves[k], x, subs, v)
    BY <1>7, <1>8, <2>2, <2>3
  <2> QED BY <2>2, <2>4 DEF Serves, moves
<1>12. ASSUME kind = "all", ~IsMatrix(v) PROVE Serves(assign_1d_all(x, v), x, subs, v)
  <2> DEFINE moves == assign_1d_all(x, v)
             n == Size(x)
  <2>1. n \in Nat /\ DOMAIN moves = 1..n /\ \A k \in 1..n : moves[k].to = k /\ moves[k].from = 1
    BY <1>2 DEF assign_1d_all, Move, Loop
  <2>2. \A k \in 1..n : k \in 1..Len(rows) /\ rows[k] = k /\ k \in 1..Size(x)
    BY <1>4, <1>5, <1>12
  <2> HIDE DEF moves, n
  <2>3. \A k \in 1..n : ServesAt(moves[k], x, subs, v)
    BY <1>2, <1>7, <1>8, <2>1, <2>2
  <2> QED BY <2>1, <2>3 DEF Serves, moves
<1>13. ASSUME kind = "many" PROVE Serves(set_1d_range(x, ix, v), x, subs, v)
  <2> DEFINE moves == set_1d_range(x, ix, v)
             n == Len(rows)
  <2>1. n \in Nat /\ DOMAIN moves = 1..n
        /\ \A k \in 1..n : moves[k].to = Index1d(x, rows[k]) /\ moves[k].from = ValueAt(v, k)
    BY <1>3, <1>4, <1>13 DEF set_1d_range, Move, Loop
  <2> HIDE DEF moves
  <2>2. ASSUME NEW k \in 1..n, Fits(x, subs, v) PROVE ValueAt(v, k) \in 1..Size(v)
    BY <1>2, <1>6, <1>13, <2>2 DEF ValueAt, Index1d
  <2>3. \A k \in 1..n : ServesAt(moves[k], x, subs, v)
    BY <1>7, <2>1, <2>2
  <2> QED BY <2>1, <2>3 DEF Serves, moves
<1>14. ASSUME kind = "mask" PROVE Serves(set_1d_range_b(x, ix, v), x, subs, v)
  <2> DEFINE moves == set_1d_range_b(x, ix, v)
             n == Len(rows)
  <2>1. n \in Nat /\ DOMAIN moves = 1..n
        /\ \A k \in 1..n : moves[k].to = Index1d(x, rows[k]) /\ moves[k].from = ValueAt(v, rows[k])
    BY <1>3, <1>4, <1>14 DEF set_1d_range_b, Move, Loop
  <2> HIDE DEF moves
  <2>2. ASSUME NEW k \in 1..n, Fits(x, subs, v), Index1d(x, rows[k]) # Outside
        PROVE  ValueAt(v, rows[k]) \in 1..Size(v)
    BY <1>2, <1>6, <1>14, <2>2 DEF ValueAt, Index1d, Outside
  <2>3. \A k \in 1..n : ServesAt(moves[k], x, subs, v)
    BY <1>7, <2>1, <2>2
  <2> QED BY <2>1, <2>3 DEF Serves, moves
<1> QED BY <1>9, <1>10, <1>11, <1>12, <1>13, <1>14

LEMMA InsideIs ==
  ASSUME NEW x, NEW r, NEW c, Index2d(x, r, c) # Outside
  PROVE  r \in 1..x.rows /\ c \in 1..x.cols
BY DEF Index2d

LEMMA TwoAre ==
  ASSUME NEW x \in AnyValue, NEW subs \in AnySubscripts, Len(subs) = 2,
         NEW ix, ix[1] = Prepared(subs[1]), ix[2] = Prepared(subs[2]),
         NEW k1, NEW k2, k1 = ix[1].kind, k2 = ix[2].kind
  PROVE  LET rows == RowsOf(x, subs)
             cols == ColsOf(x, subs)
             R == Len(rows)
             C == Len(cols)
         IN  /\ R \in Nat /\ C \in Nat
             /\ \A r, c : Place(x, subs, r, c) = Index2d(x, rows[r], cols[c])
             /\ k1 \in {"one", "many", "box"} => rows = ix[1].at
             /\ k1 = "mask" => rows = SetBits(ix[1].on) /\ \A i \in 1..R : rows[i] \in 1..Len(ix[1].on)
             /\ k1 = "all" => R = x.rows /\ \A i \in 1..x.rows : rows[i] = i
             /\ k2 \in {"one", "many", "box"} => cols = ix[2].at
             /\ k2 = "mask" => /\ cols = SetBits(ix[2].on)
                              /\ \A i \in 1..C : cols[i] \in 1..Len(ix[2].on) /\ i <= cols[i]
             /\ k2 = "all" => C = x.cols /\ \A i \in 1..x.cols : cols[i] = i
             /\ k1 = "one" => R = 1
             /\ k2 = "one" => C = 1
             /\ ByMask(subs) <=> k1 \in {"mask", "flag"} \/ k2 \in {"mask", "flag"}
<1> DEFINE rows == RowsOf(x, subs)
           cols == ColsOf(x, subs)
           R == Len(rows)
           C == Len(cols)
<1>1. /\ rows = Selects(subs[1], x.rows) /\ rows \in Seq(Int)
      /\ cols = Selects(subs[2], x.cols) /\ cols \in Seq(Int)
      /\ \A r, c : Place(x, subs, r, c) = Index2d(x, rows[r], cols[c])
      /\ Prepares(subs[1], ix[1]) /\ Prepares(subs[2], ix[2])
      /\ ByMask(subs) <=> k1 \in {"mask", "flag"} \/ k2 \in {"mask", "flag"}
  BY TwoSelects, PreparedIs
<1>2. x.rows \in Nat /\ x.cols \in Nat
  BY ValueIsResult
<1>3. R \in Nat /\ C \in Nat
  BY <1>1
<1>4. /\ k1 \in {"one", "many", "box"} => rows = ix[1].at
      /\ k1 = "mask" => rows = SetBits(ix[1].on)
      /\ k1 = "all" => rows = [i \in 1..x.rows |-> i]
      /\ k2 \in {"one", "many", "box"} => cols = ix[2].at
      /\ k2 = "mask" => cols = SetBits(ix[2].on)
      /\ k2 = "all" => cols = [i \in 1..x.cols |-> i]
      /\ k1 = "one" => R = 1
      /\ k2 = "one" => C = 1
  BY <1>1, <1>2 DEF Prepares
<1>5. /\ k1 = "all" => R = x.rows /\ \A i \in 1..x.rows : rows[i] = i
      /\ k2 = "all" => C = x.cols /\ \A i \in 1..x.cols : cols[i] = i
  BY <1>2, <1>4
<1>6. /\ k1 = "mask" => \A i \in 1..R : rows[i] \in 1..Len(ix[1].on)
      /\ k2 = "mask" => \A i \in 1..C : cols[i] \in 1..Len(ix[2].on) /\ i <= cols[i]
  BY <1>1, <1>4, MaskLists DEF Prepares, Lists
<1> QED BY <1>1, <1>3, <1>4, <1>5, <1>6

LEMMA TwoServes ==
  ASSUME NEW x \in AnyValue, NEW v \in AnyValue, NEW subs \in AnySubscripts, Len(subs) = 2,
         NEW ix, ix[1] = Prepared(subs[1]), ix[2] = Prepared(subs[2]),
         NEW k1, NEW k2, k1 = ix[1].kind, k2 = ix[2].kind
  PROVE  /\ k1 = "one" /\ k2 = "one" /\ ~IsMatrix(v) => Serves(assign_2d_scalar_scalar(x, ix, v), x, subs, v)
         /\ k1 = "all" /\ k2 = "one" /\ (IsMatrix(v) => Size(v) = x.rows)
            => Serves(assign_2d_all_scalar(x, ix, v), x, subs, v)
         /\ k1 = "one" /\ k2 = "all" /\ (IsMatrix(v) => Size(v) = x.cols)
            => Serves(assign_2d_scalar_all(x, ix, v), x, subs, v)
         /\ k1 \in {"many", "box"} /\ k2 = "one" /\ (IsMatrix(v) => Size(v) = Len(ix[1].at))
            => Serves(assign_2d_range_scalar(x, ix, v), x, subs, v)
         /\ k1 = "mask" /\ k2 = "one" /\ (IsMatrix(v) => Size(v) = Len(ix[1].on))
            => Serves(assign_2d_range_scalar_b(x, ix, v), x, subs, v)
         /\ k1 = "one" /\ k2 = "many" /\ (IsMatrix(v) => Size(v) = Len(ix[2].at))
            => Serves(assign_2d_scalar_range(x, ix, v), x, subs, v)
         /\ k1 = "one" /\ k2 = "mask" /\ (IsMatrix(v) => Size(v) = Len(ix[2].on))
            => Serves(assign_2d_scalar_range_b(x, ix, v), x, subs, v)
<1> DEFINE rows == RowsOf(x, subs)
           cols == ColsOf(x, subs)
           R == Len(rows)
           C == Len(cols)
<1>2. /\ x.rows \in Nat /\ x.cols \in Nat /\ Size(v) \in Nat /\ 1 \in 1..Size(v)
  BY ValueIsResult
<1>3. /\ R \in Nat /\ C \in Nat
      /\ \A r, c : Place(x, subs, r, c) = Index2d(x, rows[r], cols[c])
  BY TwoAre
<1>4. /\ k1 \in {"one", "many", "box"} => rows = ix[1].at
      /\ k1 = "mask" => rows = SetBits(ix[1].on)
      /\ k2 \in {"one", "many", "box"} => cols = ix[2].at
      /\ k2 = "mask" => cols = SetBits(ix[2].on)
      /\ k1 = "one" => R = 1
      /\ k2 = "one" => C = 1
  BY TwoAre
<1>5. /\ k1 = "all" => R = x.rows /\ \A i \in 1..x.rows : rows[i] = i
      /\ k2 = "all" => C = x.cols /\ \A i \in 1..x.cols : cols[i] = i
  BY TwoAre
<1>6. /\ k1 = "mask" => \A i \in 1..R : rows[i] \in 1..Len(ix[1].on)
      /\ k2 = "mask" => \A i \in 1..C : cols[i] \in 1..Len(ix[2].on) /\ i <= cols[i]
  BY TwoAre
<1>7. ASSUME NEW m, NEW r \in 1..R, NEW c \in 1..C, m.to = Index2d(x, rows[r], cols[c]),
             m.from \in 1..Size(v)
      PROVE  ServesAt(m, x, subs, v)
  BY <1>3, <1>7 DEF ServesAt
<1>8. \A i \in 1..Size(v) : ValueAt(v, i) \in 1..Size(v)
  BY <1>2 DEF ValueAt, Index1d
<1>9. ASSUME ~IsMatrix(v), NEW i PROVE ValueAt(v, i) = 1
  BY <1>9 DEF ValueAt
<1> HIDE DEF rows, cols, R, C
<1>10. ASSUME k1 = "one", k2 = "one", ~IsMatrix(v)
       PROVE  Serves(assign_2d_scalar_scalar(x, ix, v), x, subs, v)
  <2> DEFINE moves == assign_2d_scalar_scalar(x, ix, v)
  <2>1. DOMAIN moves = 1..1 /\ moves[1].to = Index2d(x, rows[1], cols[1]) /\ moves[1].from = 1
        /\ 1 \in 1..R /\ 1 \in 1..C
    BY <1>4, <1>10 DEF assign_2d_scalar_scalar, Move
  <2> HIDE DEF moves
  <2>2. ServesAt(moves[1], x, subs, v)
    BY <1>2, <1>7, <2>1
  <2> QED BY <2>1, <2>2 DEF Serves, moves
<1>11. ASSUME k1 = "all", k2 = "one", IsMatrix(v) => Size(v) = x.rows
       PROVE  Serves(assign_2d_all_scalar(x, ix, v), x, subs, v)
  <2> DEFINE moves == assign_2d_all_scalar(x, ix, v)
  <2>1. DOMAIN moves = 1..R /\ 1 \in 1..C
        /\ \A k \in 1..R : moves[k].to = Index2d(x, rows[k], cols[1]) /\ moves[k].from = ValueAt(v, k)
    BY <1>4, <1>5, <1>11 DEF assign_2d_all_scalar, Move, Loop
  <2> HIDE DEF moves
  <2>2. \A k \in 1..R : ValueAt(v, k) \in 1..Size(v)
    BY <1>2, <1>5, <1>8, <1>9, <1>11
  <2>3. \A k \in 1..R : ServesAt(moves[k], x, subs, v)
    BY <1>7, <2>1, <2>2
  <2> QED BY <1>3, <2>1, <2>3 DEF Serves, moves
<1>12. ASSUME k1 = "one", k2 = "all", IsMatrix(v) => Size(v) = x.cols
       PROVE  Serves(assign_2d_scalar_all(x, ix, v), x, subs, v)
  <2> DEFINE moves == assign_2d_scalar_all(x, ix, v)
  <2>1. DOMAIN moves = 1..C /\ 1 \in 1..R
        /\ \A k \in 1..C : moves[k].to = Index2d(x, rows[1], cols[k]) /\ moves[k].from = ValueAt(v, k)
    BY <1>4, <1>5, <1>12 DEF assign_2d_scalar_all, Move, Loop
  <2> HIDE DEF moves
  <2>2. \A k \in 1..C : ValueAt(v, k) \in 1..Size(v)
    BY <1>2, <1>5, <1>8, <1>9, <1>12
  <2>3. \A k \in 1..C : ServesAt(moves[k], x, subs, v)
    BY <1>7, <2>1, <2>2
  <2> QED BY <1>3, <2>1, <2>3 DEF Serves, moves
<1>13. ASSUME k1 \in {"many", "box"}, k2 = "one", IsMatrix(v) => Size(v) = Len(ix[1].at)
       PROVE  Serves(assign_2d_range_scalar(x, ix, v), x, subs, v)
  <2> DEFINE moves == assign_2d_range_scalar(x, ix, v)
  <2>1. DOMAIN moves = 1..R /\ 1 \in 1..C
        /\ \A k \in 1..R : moves[k].to = Index2d(x, rows[k], cols[1]) /\ moves[k].from = ValueAt(v, k)
    BY <1>4, <1>13 DEF assign_2d_range_scalar, Move, Loop, R
  <2> HIDE DEF moves
  <2>2. \A k \in 1..R : ValueAt(v, k) \in 1..Size(v)
    BY <1>2, <1>4, <1>8, <1>9, <1>13 DEF R
  <2>3. \A k \in 1..R : ServesAt(moves[k], x, subs, v)
    BY <1>7, <2>1, <2>2
  <2> QED BY <1>3, <2>1, <2>3 DEF Serves, moves
<1>14. ASSUME k1 = "mask", k2 = "one", IsMatrix(v) => Size(v) = Len(ix[1].on)
       PROVE  Serves(assign_2d_range_scalar_b(x, ix, v), x, subs, v)
  <2> DEFINE moves == assign_2d_range_scalar_b(x, ix, v)
  <2>1. DOMAIN moves = 1..R /\ 1 \in 1..C
        /\ \A k \in 1..R : moves[k].to = Index2d(x, rows[k], cols[1]) /\ moves[k].from = ValueAt(v, rows[k])
    BY <1>4, <1>14 DEF assign_2d_range_scalar_b, Move, Loop, R
  <2> HIDE DEF moves
  <2>2. \A k \in 1..R : ValueAt(v, rows[k]) \in 1..Size(v)
    BY <1>2, <1>6, <1>8, <1>9, <1>14
  <2>3. \A k \in 1..R : ServesAt(moves[k], x, subs, v)
    BY <1>7, <2>1, <2>2
  <2> QED BY <1>3, <2>1, <2>3 DEF Serves, moves
<1>15. ASSUME k1 = "one", k2 = "many", IsMatrix(v) => Size(v) = Len(ix[2].at)
       PROVE  Serves(assign_2d_scalar_range(x, ix, v), x, subs, v)
  <2> DEFINE moves == assign_2d_scalar_range(x, ix, v)
  <2>1. DOMAIN moves = 1..C /\ 1 \in 1..R
        /\ \A k \in 1..C : moves[k].to = Index2d(x, rows[1], cols[k]) /\ moves[k].from = ValueAt(v, k)
    BY <1>4, <1>15 DEF assign_2d_scalar_range, Move, Loop, C
  <2> HIDE DEF moves
  <2>2. \A k \in 1..C : ValueAt(v, k) \in 1..Size(v)
    BY <1>2, <1>4, <1>8, <1>9, <1>15 DEF C
  <2>3. \A k \in 1..C : ServesAt(moves[k], x, subs, v)
    BY <1>7, <2>1, <2>2
  <2> QED BY <1>3, <2>1, <2>3 DEF Serves, moves
<1>16. ASSUME k1 = "one", k2 = "mask", IsMatrix(v) => Size(v) = Len(ix[2].on)
       PROVE  Serves(assign_2d_scalar_range_b(x, ix, v), x, subs, v)
  <2> DEFINE moves == assign_2d_scalar_range_b(x, ix, v)
  <2>1. DOMAIN moves = 1..C /\ 1 \in 1..R
        /\ \A k \in 1..C : moves[k].to = Index2d(x, rows[1], cols[k]) /\ moves[k].from = ValueAt(v, cols[k])
    BY <1>4, <1>16 DEF assign_2d_scalar_range_b, Move, Loop, C
  <2> HIDE DEF moves
  <2>2. \A k \in 1..C : ValueAt(v, cols[k]) \in 1..Size(v)
    BY <1>2, <1>6, <1>8, <1>9, <1>16
  <2>3. \A k \in 1..C : ServesAt(moves[k], x, subs, v)
    BY <1>7, <2>1, <2>2
  <2> QED BY <1>3, <2>1, <2>3 DEF Serves, moves
<1> QED BY <1>10, <1>11, <1>12, <1>13, <1>14, <1>15, <1>16

LEMMA BlocksServe ==
  ASSUME NEW x \in AnyValue, NEW v \in AnyValue, NEW subs \in AnySubscripts, Len(subs) = 2,
         NEW ix, ix[1] = Prepared(subs[1]), ix[2] = Prepared(subs[2]),
         NEW k1, NEW k2, k1 = ix[1].kind, k2 = ix[2].kind
  PROVE  /\ k1 = "many" /\ k2 = "many" => Serves(assign_2d_range_range(x, ix, v), x, subs, v)
         /\ k1 = "mask" /\ k2 = "mask" /\ Len(ix[2].on) = x.cols
            => Serves(assign_2d_range_range_b(x, ix, v), x, subs, v)
         /\ k1 = "mask" /\ k2 = "many" => Serves(assign_2d_range_range_bu(x, ix, v), x, subs, v)
         /\ k1 = "mask" /\ k2 = "many" /\ IsMatrix(v)
            => Serves(assign_2d_range_range_vbu(x, ix, v), x, subs, v)
         /\ k1 = "many" /\ k2 = "mask" /\ IsMatrix(v)
            => Serves(assign_2d_range_range_vub(x, ix, v), x, subs, v)
         /\ k1 = "all" /\ k2 \in {"many", "mask"} => Serves(assign_2d_all_range(x, ix, v), x, subs, v)
         /\ k1 = "all" /\ k2 = "many" /\ IsMatrix(v) => Serves(assign_2d_all_range_v(x, ix, v), x, subs, v)
         /\ k1 = "all" /\ k2 = "mask" /\ SameShape(x, v)
            => Serves(assign_2d_all_range_vb(x, ix, v), x, subs, v)
         /\ k1 = "many" /\ k2 = "all" => Serves(assign_2d_range_all(x, ix, v), x, subs, v)
         /\ k1 = "many" /\ k2 = "all" /\ IsMatrix(v) => Serves(assign_2d_range_all_v(x, ix, v), x, subs, v)
         /\ k1 = "mask" /\ k2 = "all" /\ SameShape(x, v)
            => Serves(assign_2d_range_all_vb(x, ix, v), x, subs, v)
<1> DEFINE rows == RowsOf(x, subs)
           cols == ColsOf(x, subs)
           R == Len(rows)
           C == Len(cols)
<1>1. /\ x.rows \in Nat /\ x.cols \in Nat /\ Size(x) = x.rows * x.cols
      /\ v.rows \in Nat /\ v.cols \in Nat /\ Size(v) = v.rows * v.cols
      /\ Size(v) \in Nat /\ 1 \in 1..Size(v) /\ v.rows > 0
  BY ValueIsResult
<1>2. /\ R \in Nat /\ C \in Nat
      /\ \A r, c : Place(x, subs, r, c) = Index2d(x, rows[r], cols[c])
      /\ ByMask(subs) <=> k1 \in {"mask", "flag"} \/ k2 \in {"mask", "flag"}
  BY TwoAre
<1>3. /\ k1 \in {"one", "many", "box"} => rows = ix[1].at
      /\ k1 = "mask" => rows = SetBits(ix[1].on)
      /\ k2 \in {"one", "many", "box"} => cols = ix[2].at
      /\ k2 = "mask" => cols = SetBits(ix[2].on)
  BY TwoAre
<1>4. /\ k1 = "all" => R = x.rows /\ \A i \in 1..x.rows : rows[i] = i
      /\ k2 = "all" => C = x.cols /\ \A i \in 1..x.cols : cols[i] = i
  BY TwoAre
<1>5. k2 = "mask" => \A i \in 1..C : cols[i] \in 1..Len(ix[2].on) /\ i <= cols[i]
  BY TwoAre
<1>6. ASSUME Fits(x, subs, v), IsMatrix(v)
      PROVE  /\ k1 \in {"mask", "flag"} \/ k2 \in {"mask", "flag"}
                => v.rows = x.rows /\ v.cols = x.cols /\ Size(v) = Size(x)
             /\ k1 \notin {"mask", "flag"} /\ k2 \notin {"mask", "flag"} => v.rows = R /\ v.cols = C
  BY <1>2, <1>6, FitsIs
<1>7. ASSUME NEW m, NEW r \in 1..R, NEW c \in 1..C, m.to = Index2d(x, rows[r], cols[c]),
             Fits(x, subs, v) /\ m.to # Outside => m.from \in 1..Size(v)
      PROVE  ServesAt(m, x, subs, v)
  BY <1>2, <1>7 DEF ServesAt
<1>8. /\ \A i \in 1..Size(v) : ValueAt(v, i) = (IF IsMatrix(v) THEN i ELSE 1) /\ Index1d(v, i) = i
      /\ \A i : ~IsMatrix(v) => ValueAt(v, i) = 1
  BY <1>1 DEF ValueAt, Index1d
<1>9. ASSUME NEW r \in 1..v.rows, NEW c \in 1..v.cols
      PROVE  Index2d(v, r, c) \in 1..Size(v)
  <2>1. (c - 1) * v.rows + r \in 1..(v.cols * v.rows)
    BY <1>1, BlockIndex
  <2>2. v.cols * v.rows = Size(v)
    BY <1>1
  <2> QED BY <2>1, <2>2 DEF Index2d
<1> HIDE DEF rows, cols, R, C
<1>10. ASSUME k1 = "many", k2 = "many"
       PROVE  Serves(assign_2d_range_range(x, ix, v), x, subs, v)
  <2> DEFINE moves == assign_2d_range_range(x, ix, v)
             n == R
             m == C
             a(k) == ((k - 1) \div m) + 1
             b(k) == ((k - 1) % m) + 1
  <2>1. n \in Nat /\ m \in Nat /\ DOMAIN moves = 1..(n * m)
        /\ \A k \in 1..(n * m) : /\ moves[k].to = Index2d(x, rows[a(k)], cols[b(k)])
                                 /\ moves[k].from = ValueAt(v, (a(k) - 1) * C + b(k))
    BY <1>1, <1>2, <1>3, <1>4, <1>10 DEF assign_2d_range_range, Move, Loops, R, C
  <2>2. \A k \in 1..(n * m) : a(k) \in 1..n /\ b(k) \in 1..m
    BY <2>1, LoopsIndex
  <2> HIDE DEF moves, a, b
  <2>3. ASSUME NEW k \in 1..(n * m), Fits(x, subs, v), moves[k].to # Outside
        PROVE  moves[k].from \in 1..Size(v)
    <3>1. CASE ~IsMatrix(v)
      BY <1>1, <1>8, <2>1, <3>1
    <3>2. CASE IsMatrix(v)
      <4>1. v.rows = R /\ v.cols = C
        BY <1>6, <1>10, <2>3, <3>2
      <4>2. (a(k) - 1) * C + b(k) \in 1..(R * C)
        BY <2>1, <2>2, BlockIndex
      <4>3. R * C = Size(v)
        BY <1>1, <4>1
      <4> QED BY <1>8, <2>1, <3>2, <4>2, <4>3
    <3> QED BY <3>1, <3>2
  <2>4. \A k \in 1..(n * m) : ServesAt(moves[k], x, subs, v)
    BY <1>7, <2>1, <2>2, <2>3
  <2>5. n * m \in Nat
    BY <2>1
  <2> QED BY <2>1, <2>4, <2>5 DEF Serves, moves
<1>11. ASSUME k1 = "mask", k2 = "mask", Len(ix[2].on) = x.cols
       PROVE  Serves(assign_2d_range_range_b(x, ix, v), x, subs, v)
  <2> DEFINE moves == assign_2d_range_range_b(x, ix, v)
             n == R
             m == C
             a(k) == ((k - 1) \div m) + 1
             b(k) == ((k - 1) % m) + 1
  <2>1. n \in Nat /\ m \in Nat /\ DOMAIN moves = 1..(n * m)
        /\ \A k \in 1..(n * m) : /\ moves[k].to = Index2d(x, rows[a(k)], cols[b(k)])
                                 /\ moves[k].from = ValueAt(v, (rows[a(k)] - 1) * x.cols + cols[b(k)])
    BY <1>1, <1>2, <1>3, <1>4, <1>11 DEF assign_2d_range_range_b, Move, Loops, R, C
  <2>2. \A k \in 1..(n * m) : a(k) \in 1..n /\ b(k) \in 1..m
    BY <2>1, LoopsIndex
  <2> HIDE DEF moves, a, b
  <2>3. ASSUME NEW k \in 1..(n * m), Fits(x, subs, v), moves[k].to # Outside
        PROVE  moves[k].from \in 1..Size(v)
    <3>1. CASE ~IsMatrix(v)
      BY <1>1, <1>8, <2>1, <3>1
    <3>2. CASE IsMatrix(v)
      <4>1. v.rows = x.rows /\ v.cols = x.cols
        BY <1>6, <1>11, <2>3, <3>2
      <4>2. rows[a(k)] \in 1..x.rows /\ cols[b(k)] \in 1..x.cols
        BY <2>1, <2>3, InsideIs
      <4>3. (rows[a(k)] - 1) * x.cols + cols[b(k)] \in 1..(x.rows * x.cols)
        BY <1>1, <4>2, BlockIndex
      <4>4. x.rows * x.cols = Size(v)
        BY <1>1, <4>1
      <4> QED BY <1>8, <2>1, <3>2, <4>3, <4>4
    <3> QED BY <3>1, <3>2
  <2>4. \A k \in 1..(n * m) : ServesAt(moves[k], x, subs, v)
    BY <1>7, <2>1, <2>2, <2>3
  <2>5. n * m \in Nat
    BY <2>1
  <2> QED BY <2>1, <2>4, <2>5 DEF Serves, moves
<1>12. ASSUME k1 = "mask", k2 = "many"
       PROVE  Serves(assign_2d_range_range_bu(x, ix, v), x, subs, v)
  <2> DEFINE moves == assign_2d_range_range_bu(x, ix, v)
             n == R
             m == C
             a(k) == ((k - 1) \div m) + 1
             b(k) == ((k - 1) % m) + 1
  <2>1. n \in Nat /\ m \in Nat /\ DOMAIN moves = 1..(n * m)
        /\ \A k \in 1..(n * m) : /\ moves[k].to = Index2d(x, rows[a(k)], cols[b(k)])
                                 /\ moves[k].from = 1
    BY <1>1, <1>2, <1>3, <1>4, <1>12 DEF assign_2d_range_range_bu, Move, Loops, R, C
  <2>2. \A k \in 1..(n * m) : a(k) \in 1..n /\ b(k) \in 1..m
    BY <2>1, LoopsIndex
  <2> HIDE DEF moves, a, b
  <2>3. ASSUME NEW k \in 1..(n * m), Fits(x, subs, v), moves[k].to # Outside
        PROVE  moves[k].from \in 1..Size(v)
    BY <1>1, <2>1, <2>3
  <2>4. \A k \in 1..(n * m) : ServesAt(moves[k], x, subs, v)
    BY <1>7, <2>1, <2>2, <2>3
  <2>5. n * m \in Nat
    BY <2>1
  <2> QED BY <2>1, <2>4, <2>5 DEF Serves, moves
<1>13. ASSUME k1 = "mask", k2 = "many", IsMatrix(v)
       PROVE  Serves(assign_2d_range_range_vbu(x, ix, v), x, subs, v)
  <2> DEFINE moves == assign_2d_range_range_vbu(x, ix, v)
             n == C
             m == R
             a(k) == ((k - 1) \div m) + 1
             b(k) == ((k - 1) % m) + 1
  <2>1. n \in Nat /\ m \in Nat /\ DOMAIN moves = 1..(n * m)
        /\ \A k \in 1..(n * m) : /\ moves[k].to = Index2d(x, rows[b(k)], cols[a(k)])
                                 /\ moves[k].from = Index1d(v, rows[b(k)] + (cols[a(k)] - 1) * x.rows)
    BY <1>1, <1>2, <1>3, <1>4, <1>13 DEF assign_2d_range_range_vbu, Move, Loops, R, C
  <2>2. \A k \in 1..(n * m) : a(k) \in 1..n /\ b(k) \in 1..m
    BY <2>1, LoopsIndex
  <2> HIDE DEF moves, a, b
  <2>3. ASSUME NEW k \in 1..(n * m), Fits(x, subs, v), moves[k].to # Outside
        PROVE  moves[k].from \in 1..Size(v)
    <3>1. v.rows = x.rows /\ v.cols = x.cols /\ Size(v) = Size(x)
      BY <1>6, <1>13, <2>3
    <3>2. rows[b(k)] \in 1..x.rows /\ cols[a(k)] \in 1..x.cols
      BY <2>1, <2>3, InsideIs
    <3>3. (cols[a(k)] - 1) * x.rows + rows[b(k)] \in 1..(x.cols * x.rows)
      BY <1>1, <3>2, BlockIndex
    <3>4. /\ x.cols * x.rows = Size(v)
          /\ rows[b(k)] + (cols[a(k)] - 1) * x.rows = (cols[a(k)] - 1) * x.rows + rows[b(k)]
      BY <1>1, <3>1, <3>2
    <3> QED BY <1>8, <2>1, <3>3, <3>4
  <2>4. \A k \in 1..(n * m) : ServesAt(moves[k], x, subs, v)
    BY <1>7, <2>1, <2>2, <2>3
  <2>5. n * m \in Nat
    BY <2>1
  <2> QED BY <2>1, <2>4, <2>5 DEF Serves, moves
<1>14. ASSUME k1 = "many", k2 = "mask", IsMatrix(v)
       PROVE  Serves(assign_2d_range_range_vub(x, ix, v), x, subs, v)
  <2> DEFINE moves == assign_2d_range_range_vub(x, ix, v)
             n == C
             m == R
             a(k) == ((k - 1) \div m) + 1
             b(k) == ((k - 1) % m) + 1
  <2>1. n \in Nat /\ m \in Nat /\ DOMAIN moves = 1..(n * m)
        /\ \A k \in 1..(n * m) : /\ moves[k].to = Index2d(x, rows[b(k)], cols[a(k)])
                                 /\ moves[k].from = Index1d(v, rows[b(k)] + (cols[a(k)] - 1) * x.rows)
    BY <1>1, <1>2, <1>3, <1>4, <1>14 DEF assign_2d_range_range_vub, Move, Loops, R, C
  <2>2. \A k \in 1..(n * m) : a(k) \in 1..n /\ b(k) \in 1..m
    BY <2>1, LoopsIndex
  <2> HIDE DEF moves, a, b
  <2>3. ASSUME NEW k \in 1..(n * m), Fits(x, subs, v), moves[k].to # Outside
        PROVE  moves[k].from \in 1..Size(v)
    <3>1. v.rows = x.rows /\ v.cols = x.cols /\ Size(v) = Size(x)
      BY <1>6, <1>14, <2>3
    <3>2. rows[b(k)] \in 1..x.rows /\ cols[a(k)] \in 1..x.cols
      BY <2>1, <2>3, InsideIs
    <3>3. (cols[a(k)] - 1) * x.rows + rows[b(k)] \in 1..(x.cols * x.rows)
      BY <1>1, <3>2, BlockIndex
    <3>4. /\ x.cols * x.rows = Size(v)
          /\ rows[b(k)] + (cols[a(k)] - 1) * x.rows = (cols[a(k)] - 1) * x.rows + rows[b(k)]
      BY <1>1, <3>1, <3>2
    <3> QED BY <1>8, <2>1, <3>3, <3>4
  <2>4. \A k \in 1..(n * m) : ServesAt(moves[k], x, subs, v)
    BY <1>7, <2>1, <2>2, <2>3
  <2>5. n * m \in Nat
    BY <2>1
  <2> QED BY <2>1, <2>4, <2>5 DEF Serves, moves
<1>15. ASSUME k1 = "all", k2 \in {"many", "mask"}
       PROVE  Serves(assign_2d_all_range(x, ix, v), x, subs, v)
  <2> DEFINE moves == assign_2d_all_range(x, ix, v)
             n == C
             m == x.rows
             a(k) == ((k - 1) \div m) + 1
             b(k) == ((k - 1) % m) + 1
  <2>1. n \in Nat /\ m \in Nat /\ DOMAIN moves = 1..(n * m)
        /\ \A k \in 1..(n * m) : /\ moves[k].to = Index2d(x, b(k), cols[a(k)])
                                 /\ moves[k].from = 1
    BY <1>1, <1>2, <1>3, <1>15 DEF assign_2d_all_range, Move, Loops, R, C, Chosen
  <2>2. \A k \in 1..(n * m) : a(k) \in 1..n /\ b(k) \in 1..m
    BY <2>1, LoopsIndex
  <2> HIDE DEF moves, a, b
  <2>3. \A k \in 1..(n * m) : /\ b(k) \in 1..R /\ a(k) \in 1..C
                             /\ moves[k].to = Index2d(x, rows[b(k)], cols[a(k)])
    BY <1>1, <1>2, <1>4, <1>15, <2>1, <2>2
  <2>4. ASSUME NEW k \in 1..(n * m), Fits(x, subs, v), moves[k].to # Outside
        PROVE  moves[k].from \in 1..Size(v)
    BY <1>1, <2>1, <2>4
  <2>5. \A k \in 1..(n * m) : ServesAt(moves[k], x, subs, v)
    BY <1>7, <2>3, <2>4
  <2>6. n * m \in Nat
    BY <2>1
  <2> QED BY <2>1, <2>5, <2>6 DEF Serves, moves
<1>16. ASSUME k1 = "all", k2 = "many", IsMatrix(v)
       PROVE  Serves(assign_2d_all_range_v(x, ix, v), x, subs, v)
  <2> DEFINE moves == assign_2d_all_range_v(x, ix, v)
             n == C
             m == Min({x.rows, v.rows})
             a(k) == ((k - 1) \div m) + 1
             b(k) == ((k - 1) % m) + 1
  <2>0. m \in Nat /\ m <= x.rows /\ m <= v.rows
    BY <1>1, MinIs
  <2> HIDE DEF m
  <2>1. n \in Nat /\ m \in Nat /\ DOMAIN moves = 1..(n * m)
        /\ \A k \in 1..(n * m) : /\ moves[k].to = Index2d(x, b(k), cols[a(k)])
                                 /\ moves[k].from = Index2d(v, b(k), ((a(k) - 1) % v.rows) + 1)
    BY <1>1, <1>2, <1>3, <1>16, <2>0 DEF assign_2d_all_range_v, Move, Loops, R, C, m
  <2>2. \A k \in 1..(n * m) : a(k) \in 1..n /\ b(k) \in 1..m
    BY <2>1, LoopsIndex
  <2> HIDE DEF moves, a, b
  <2>3. \A k \in 1..(n * m) : /\ b(k) \in 1..R /\ a(k) \in 1..C
                             /\ moves[k].to = Index2d(x, rows[b(k)], cols[a(k)])
    BY <1>1, <1>2, <1>4, <1>16, <2>1, <2>2, <2>0
  <2>4. ASSUME NEW k \in 1..(n * m), Fits(x, subs, v), moves[k].to # Outside
        PROVE  moves[k].from \in 1..Size(v)
    <3>1. v.rows = R /\ v.cols = C
      BY <1>6, <1>16, <2>4
    <3>2. (a(k) - 1) % v.rows <= a(k) - 1 /\ (a(k) - 1) % v.rows \in Nat
      BY <1>1, <2>2, RemainderIs
    <3>3. b(k) \in 1..v.rows
      BY <1>1, <2>0, <2>2
    <3>4. ((a(k) - 1) % v.rows) + 1 \in 1..v.cols
      <4> DEFINE q == (a(k) - 1) % v.rows
      <4>1. q \in Nat /\ q <= a(k) - 1 /\ a(k) \in 1..v.cols /\ v.cols \in Nat
        BY <1>1, <2>2, <3>1, <3>2
      <4> HIDE DEF q
      <4>2. q + 1 \in 1..v.cols
        BY <4>1
      <4> QED BY <4>2 DEF q
    <3> QED BY <1>9, <2>1, <3>3, <3>4
  <2>5. \A k \in 1..(n * m) : ServesAt(moves[k], x, subs, v)
    BY <1>7, <2>3, <2>4
  <2>6. n * m \in Nat
    BY <2>1
  <2> QED BY <2>1, <2>5, <2>6 DEF Serves, moves
<1>17. ASSUME k1 = "all", k2 = "mask", SameShape(x, v)
       PROVE  Serves(assign_2d_all_range_vb(x, ix, v), x, subs, v)
  <2> DEFINE moves == assign_2d_all_range_vb(x, ix, v)
             n == C
             m == x.rows
             a(k) == ((k - 1) \div m) + 1
             b(k) == ((k - 1) % m) + 1
  <2>1. n \in Nat /\ m \in Nat /\ DOMAIN moves = 1..(n * m)
        /\ \A k \in 1..(n * m) : /\ moves[k].to = Index2d(x, b(k), cols[a(k)])
                                 /\ moves[k].from = Index2d(v, b(k), a(k))
    BY <1>1, <1>2, <1>3, <1>17 DEF assign_2d_all_range_vb, Move, Loops, R, C
  <2>2. \A k \in 1..(n * m) : a(k) \in 1..n /\ b(k) \in 1..m
    BY <2>1, LoopsIndex
  <2> HIDE DEF moves, a, b
  <2>3. \A k \in 1..(n * m) : /\ b(k) \in 1..R /\ a(k) \in 1..C
                             /\ moves[k].to = Index2d(x, rows[b(k)], cols[a(k)])
    BY <1>1, <1>2, <1>4, <1>17, <2>1, <2>2
  <2>4. ASSUME NEW k \in 1..(n * m), Fits(x, subs, v), moves[k].to # Outside
        PROVE  moves[k].from \in 1..Size(v)
    <3>1. v.rows = x.rows /\ v.cols = x.cols
      BY <1>17 DEF SameShape
    <3>2. cols[a(k)] \in 1..x.cols
      BY <2>3, <2>4, InsideIs
    <3>3. b(k) \in 1..v.rows /\ a(k) \in 1..v.cols
      BY <1>1, <1>2, <1>5, <1>17, <2>2, <3>1, <3>2
    <3> QED BY <1>9, <2>1, <3>3
  <2>5. \A k \in 1..(n * m) : ServesAt(moves[k], x, subs, v)
    BY <1>7, <2>3, <2>4
  <2>6. n * m \in Nat
    BY <2>1
  <2> QED BY <2>1, <2>5, <2>6 DEF Serves, moves
<1>18. ASSUME k1 = "many", k2 = "all"
       PROVE  Serves(assign_2d_range_all(x, ix, v), x, subs, v)
  <2> DEFINE moves == assign_2d_range_all(x, ix, v)
             n == x.cols
             m == R
             a(k) == ((k - 1) \div m) + 1
             b(k) == ((k - 1) % m) + 1
  <2>1. n \in Nat /\ m \in Nat /\ DOMAIN moves = 1..(n * m)
        /\ \A k \in 1..(n * m) : /\ moves[k].to = Index2d(x, rows[b(k)], a(k))
                                 /\ moves[k].from = 1
    BY <1>1, <1>2, <1>3, <1>18 DEF assign_2d_range_all, Move, Loops, R, C
  <2>2. \A k \in 1..(n * m) : a(k) \in 1..n /\ b(k) \in 1..m
    BY <2>1, LoopsIndex
  <2> HIDE DEF moves, a, b
  <2>3. \A k \in 1..(n * m) : /\ b(k) \in 1..R /\ a(k) \in 1..C
                             /\ moves[k].to = Index2d(x, rows[b(k)], cols[a(k)])
    BY <1>1, <1>2, <1>4, <1>18, <2>1, <2>2
  <2>4. ASSUME NEW k \in 1..(n * m), Fits(x, subs, v), moves[k].to # Outside
        PROVE  moves[k].from \in 1..Size(v)
    BY <1>1, <2>1, <2>4
  <2>5. \A k \in 1..(n * m) : ServesAt(moves[k], x, subs, v)
    BY <1>7, <2>3, <2>4
  <2>6. n * m \in Nat
    BY <2>1
  <2> QED BY <2>1, <2>5, <2>6 DEF Serves, moves
<1>19. ASSUME k1 = "many", k2 = "all", IsMatrix(v)
       PROVE  Serves(assign_2d_range_all_v(x, ix, v), x, subs, v)
  <2> DEFINE moves == assign_2d_range_all_v(x, ix, v)
             n == R
             m == Min({x.cols, v.cols})
             a(k) == ((k - 1) \div m) + 1
             b(k) == ((k - 1) % m) + 1
  <2>0. m \in Nat /\ m <= x.cols /\ m <= v.cols
    BY <1>1, MinIs
  <2> HIDE DEF m
  <2>1. n \in Nat /\ m \in Nat /\ DOMAIN moves = 1..(n * m)
        /\ \A k \in 1..(n * m) : /\ moves[k].to = Index2d(x, rows[a(k)], b(k))
                                 /\ moves[k].from = Index2d(v, ((a(k) - 1) % v.rows) + 1, b(k))
    BY <1>1, <1>2, <1>3, <1>19, <2>0 DEF assign_2d_range_all_v, Move, Loops, R, C, m
  <2>2. \A k \in 1..(n * m) : a(k) \in 1..n /\ b(k) \in 1..m
    BY <2>1, LoopsIndex
  <2> HIDE DEF moves, a, b
  <2>3. \A k \in 1..(n * m) : /\ a(k) \in 1..R /\ b(k) \in 1..C
                             /\ moves[k].to = Index2d(x, rows[a(k)], cols[b(k)])
    <3>1. C = x.cols /\ \A i \in 1..C : cols[i] = i
      BY <1>4, <1>19, Zenon
    <3>2. 1..m \subseteq 1..C
      <4>1. \A z, w \in Nat : z <= w => 1..z \subseteq 1..w
        OBVIOUS
      <4> QED BY <1>2, <2>0, <3>1, <4>1, Zenon
    <3> QED BY <2>1, <2>2, <3>1, <3>2, Zenon
  <2>4. ASSUME NEW k \in 1..(n * m), Fits(x, subs, v), moves[k].to # Outside
        PROVE  moves[k].from \in 1..Size(v)
    <3>1. (a(k) - 1) % v.rows \in 0..(v.rows - 1)
      BY <1>1, <2>2
    <3>2. ((a(k) - 1) % v.rows) + 1 \in 1..v.rows
      <4>1. \A w \in Nat : \A z \in 0..(w - 1) : z + 1 \in 1..w
        OBVIOUS
      <4>2. v.rows \in Nat
        BY <1>1
      <4> QED BY <3>1, <4>1, <4>2, Zenon
    <3>3. b(k) \in 1..v.cols
      <4>1. \A z, w \in Nat : z <= w => 1..z \subseteq 1..w
        OBVIOUS
      <4>2. v.cols \in Nat /\ m \in Nat /\ m <= v.cols /\ b(k) \in 1..m
        BY <1>1, <2>0, <2>2
      <4> QED BY <4>1, <4>2, Zenon
    <3> QED BY <1>9, <2>1, <3>2, <3>3
  <2>5. \A k \in 1..(n * m) : ServesAt(moves[k], x, subs, v)
    BY <1>7, <2>3, <2>4
  <2>6. n * m \in Nat
    BY <2>1
  <2> QED BY <2>1, <2>5, <2>6 DEF Serves, moves
<1>20. ASSUME k1 = "mask", k2 = "all", SameShape(x, v)
       PROVE  Serves(assign_2d_range_all_vb(x, ix, v), x, subs, v)
  <2> DEFINE moves == assign_2d_range_all_vb(x, ix, v)
             n == R
             m == x.cols
             a(k) == ((k - 1) \div m) + 1
             b(k) == ((k - 1) % m) + 1
  <2>1. n \in Nat /\ m \in Nat /\ DOMAIN moves = 1..(n * m)
        /\ \A k \in 1..(n * m) : /\ moves[k].to = Index2d(x, rows[a(k)], b(k))
                                 /\ moves[k].from = Index2d(v, rows[a(k)], b(k))
    BY <1>1, <1>2, <1>3, <1>20 DEF assign_2d_range_all_vb, Move, Loops, R, C
  <2>2. \A k \in 1..(n * m) : a(k) \in 1..n /\ b(k) \in 1..m
    BY <2>1, LoopsIndex
  <2> HIDE DEF moves, a, b
  <2>3. \A k \in 1..(n * m) : /\ a(k) \in 1..R /\ b(k) \in 1..C
                             /\ moves[k].to = Index2d(x, rows[a(k)], cols[b(k)])
    BY <1>1, <1>2, <1>4, <1>20, <2>1, <2>2
  <2>4. ASSUME NEW k \in 1..(n * m), Fits(x, subs, v), moves[k].to # Outside
        PROVE  moves[k].from \in 1..Size(v)
    <3>1. v.rows = x.rows /\ v.cols = x.cols
      BY <1>20 DEF SameShape
    <3>2. rows[a(k)] \in 1..x.rows
      BY <2>3, <2>4, InsideIs
    <3> QED BY <1>9, <2>1, <2>2, <3>1, <3>2
  <2>5. \A k \in 1..(n * m) : ServesAt(moves[k], x, subs, v)
    BY <1>7, <2>3, <2>4
  <2>6. n * m \in Nat
    BY <2>1
  <2> QED BY <2>1, <2>5, <2>6 DEF Serves, moves
<1> QED BY <1>10, <1>11, <1>12, <1>13, <1>14, <1>15, <1>16, <1>17, <1>18, <1>19, <1>20

(* The loop of each function.                                              *)
LEMMA MovesAre ==
  ASSUME NEW f, NEW x, NEW v
  PROVE  /\ f.name = "assign_1d_scalar" => AssignMoves(f, x, v) = assign_1d_scalar(x, f.ix, v)
         /\ f.name = "assign_1d_scalar_b" => AssignMoves(f, x, v) = assign_1d_scalar_b(x, f.ix, v)
         /\ f.name = "assign_1d_scalar_vb" => AssignMoves(f, x, v) = assign_1d_scalar_vb(x, f.ix, v)
         /\ f.name = "assign_1d_all" => AssignMoves(f, x, v) = assign_1d_all(x, v)
         /\ f.name \in {"set_1d_range", "set_1d_range_vec"}
            => AssignMoves(f, x, v) = set_1d_range(x, f.ix, v)
         /\ f.name \in {"set_1d_range_b", "set_1d_range_vec_b"}
            => AssignMoves(f, x, v) = set_1d_range_b(x, f.ix, v)
         /\ f.name = "assign_2d_scalar_scalar"
            => AssignMoves(f, x, v) = assign_2d_scalar_scalar(x, f.ix, v)
         /\ f.name \in {"assign_2d_all_scalar", "assign_2d_all_vector"}
            => AssignMoves(f, x, v) = assign_2d_all_scalar(x, f.ix, v)
         /\ f.name \in {"assign_2d_scalar_all_scalar", "assign_2d_scalar_all_vector"}
            => AssignMoves(f, x, v) = assign_2d_scalar_all(x, f.ix, v)
         /\ f.name \in {"assign_2d_range_scalar", "assign_2d_range_scalar_v"}
            => AssignMoves(f, x, v) = assign_2d_range_scalar(x, f.ix, v)
         /\ f.name \in {"assign_2d_range_scalar_b", "assign_2d_range_scalar_vb"}
            => AssignMoves(f, x, v) = assign_2d_range_scalar_b(x, f.ix, v)
         /\ f.name \in {"assign_2d_scalar_range", "assign_2d_scalar_range_v"}
            => AssignMoves(f, x, v) = assign_2d_scalar_range(x, f.ix, v)
         /\ f.name \in {"assign_2d_scalar_range_b", "assign_2d_scalar_range_vb"}
            => AssignMoves(f, x, v) = assign_2d_scalar_range_b(x, f.ix, v)
         /\ f.name \in {"assign_2d_range_range", "assign_2d_range_range_v"}
            => AssignMoves(f, x, v) = assign_2d_range_range(x, f.ix, v)
         /\ f.name \in {"assign_2d_range_range_b", "assign_2d_range_range_vb"}
            => AssignMoves(f, x, v) = assign_2d_range_range_b(x, f.ix, v)
         /\ f.name = "assign_2d_range_range_bu"
            => AssignMoves(f, x, v) = assign_2d_range_range_bu(x, f.ix, v)
         /\ f.name = "assign_2d_range_range_vbu"
            => AssignMoves(f, x, v) = assign_2d_range_range_vbu(x, f.ix, v)
         /\ f.name = "assign_2d_range_range_vub"
            => AssignMoves(f, x, v) = assign_2d_range_range_vub(x, f.ix, v)
         /\ f.name \in {"assign_2d_all_range", "assign_2d_all_range_b"}
            => AssignMoves(f, x, v) = assign_2d_all_range(x, f.ix, v)
         /\ f.name = "assign_2d_all_range_v"
            => AssignMoves(f, x, v) = assign_2d_all_range_v(x, f.ix, v)
         /\ f.name = "assign_2d_all_range_vb"
            => AssignMoves(f, x, v) = assign_2d_all_range_vb(x, f.ix, v)
         /\ f.name = "assign_2d_range_all" => AssignMoves(f, x, v) = assign_2d_range_all(x, f.ix, v)
         /\ f.name = "assign_2d_range_all_v"
            => AssignMoves(f, x, v) = assign_2d_range_all_v(x, f.ix, v)
         /\ f.name = "assign_2d_range_all_vb"
            => AssignMoves(f, x, v) = assign_2d_range_all_vb(x, f.ix, v)
         /\ f.name \in {"op_assign_vs", "op_assign_vv"}
            => AssignMoves(f, x, v) = op_assign_whole(x, v)
<1>1. f.name = "assign_1d_scalar" => AssignMoves(f, x, v) = assign_1d_scalar(x, f.ix, v)
  BY DEF AssignMoves
<1>2. f.name = "assign_1d_scalar_b" => AssignMoves(f, x, v) = assign_1d_scalar_b(x, f.ix, v)
  BY DEF AssignMoves
<1>3. f.name = "assign_1d_scalar_vb" => AssignMoves(f, x, v) = assign_1d_scalar_vb(x, f.ix, v)
  BY DEF AssignMoves
<1>4. f.name = "assign_1d_all" => AssignMoves(f, x, v) = assign_1d_all(x, v)
  BY DEF AssignMoves
<1>5. f.name \in {"set_1d_range", "set_1d_range_vec"}
            => AssignMoves(f, x, v) = set_1d_range(x, f.ix, v)
  BY DEF AssignMoves
<1>6. f.name \in {"set_1d_range_b", "set_1d_range_vec_b"}
            => AssignMoves(f, x, v) = set_1d_range_b(x, f.ix, v)
  BY DEF AssignMoves
<1>7. f.name = "assign_2d_scalar_scalar"
            => AssignMoves(f, x, v) = assign_2d_scalar_scalar(x, f.ix, v)
  BY DEF AssignMoves
<1>8. f.name \in {"assign_2d_all_scalar", "assign_2d_all_vector"}
            => AssignMoves(f, x, v) = assign_2d_all_scalar(x, f.ix, v)
  BY DEF AssignMoves
<1>9. f.name \in {"assign_2d_scalar_all_scalar", "assign_2d_scalar_all_vector"}
            => AssignMoves(f, x, v) = assign_2d_scalar_all(x, f.ix, v)
  BY DEF AssignMoves
<1>10. f.name \in {"assign_2d_range_scalar", "assign_2d_range_scalar_v"}
            => AssignMoves(f, x, v) = assign_2d_range_scalar(x, f.ix, v)
  BY DEF AssignMoves
<1>11. f.name \in {"assign_2d_range_scalar_b", "assign_2d_range_scalar_vb"}
            => AssignMoves(f, x, v) = assign_2d_range_scalar_b(x, f.ix, v)
  BY DEF AssignMoves
<1>12. f.name \in {"assign_2d_scalar_range", "assign_2d_scalar_range_v"}
            => AssignMoves(f, x, v) = assign_2d_scalar_range(x, f.ix, v)
  BY DEF AssignMoves
<1>13. f.name \in {"assign_2d_scalar_range_b", "assign_2d_scalar_range_vb"}
            => AssignMoves(f, x, v) = assign_2d_scalar_range_b(x, f.ix, v)
  BY DEF AssignMoves
<1>14. f.name \in {"assign_2d_range_range", "assign_2d_range_range_v"}
            => AssignMoves(f, x, v) = assign_2d_range_range(x, f.ix, v)
  BY DEF AssignMoves
<1>15. f.name \in {"assign_2d_range_range_b", "assign_2d_range_range_vb"}
            => AssignMoves(f, x, v) = assign_2d_range_range_b(x, f.ix, v)
  BY DEF AssignMoves
<1>16. f.name = "assign_2d_range_range_bu"
            => AssignMoves(f, x, v) = assign_2d_range_range_bu(x, f.ix, v)
  BY DEF AssignMoves
<1>17. f.name = "assign_2d_range_range_vbu"
            => AssignMoves(f, x, v) = assign_2d_range_range_vbu(x, f.ix, v)
  BY DEF AssignMoves
<1>18. f.name = "assign_2d_range_range_vub"
            => AssignMoves(f, x, v) = assign_2d_range_range_vub(x, f.ix, v)
  BY DEF AssignMoves
<1>19. f.name \in {"assign_2d_all_range", "assign_2d_all_range_b"}
            => AssignMoves(f, x, v) = assign_2d_all_range(x, f.ix, v)
  BY DEF AssignMoves
<1>20. f.name = "assign_2d_all_range_v"
            => AssignMoves(f, x, v) = assign_2d_all_range_v(x, f.ix, v)
  BY DEF AssignMoves
<1>21. f.name = "assign_2d_all_range_vb"
            => AssignMoves(f, x, v) = assign_2d_all_range_vb(x, f.ix, v)
  BY DEF AssignMoves
<1>22. f.name = "assign_2d_range_all" => AssignMoves(f, x, v) = assign_2d_range_all(x, f.ix, v)
  BY DEF AssignMoves
<1>23. f.name = "assign_2d_range_all_v"
            => AssignMoves(f, x, v) = assign_2d_range_all_v(x, f.ix, v)
  BY DEF AssignMoves
<1>24. f.name = "assign_2d_range_all_vb"
            => AssignMoves(f, x, v) = assign_2d_range_all_vb(x, f.ix, v)
  BY DEF AssignMoves
<1>25. f.name \in {"op_assign_vs", "op_assign_vv"}
            => AssignMoves(f, x, v) = op_assign_whole(x, v)
  BY DEF AssignMoves
<1> QED BY <1>1, <1>2, <1>3, <1>4, <1>5, <1>6, <1>7, <1>8, <1>9, <1>10, <1>11, <1>12, <1>13, <1>14, <1>15, <1>16, <1>17, <1>18, <1>19, <1>20, <1>21, <1>22, <1>23, <1>24, <1>25

(* An assignment function of subscripts: what its loop does is what they say. *)
AssignsTo(f, x, subs, v) ==
  /\ f.op \in AnyOperator /\ f.name # "assign_value"
  /\ Serves(AssignMoves(f, x, v), x, subs, v)

LEMMA OneArms ==
  ASSUME NEW x \in AnyValue, NEW v \in AnyValue, NEW subs \in AnySubscripts, Len(subs) = 1,
         IsMatrix(x), NEW ix, ix[1] = Prepared(subs[1]), NEW f, f # NoAssigns
  PROVE  /\ f = AssignScalar(x, ix, v) => AssignsTo(f, x, subs, v)
         /\ f = AssignRange(x, ix, v) => AssignsTo(f, x, subs, v)
         /\ f = AssignAll(x, ix, v) /\ ix[1].kind = "all" => AssignsTo(f, x, subs, v)
         /\ \A op \in Operators : f = OpAssignRange(op, x, ix, v) => AssignsTo(f, x, subs, v)
<1>1. ASSUME f = AssignScalar(x, ix, v) PROVE AssignsTo(f, x, subs, v)
  <2>1. CASE ix[1].kind = "one" /\ ~IsMatrix(v)
    <3>1. f.name = "assign_1d_scalar" /\ f.ix = ix /\ f.op = "="
      BY <1>1, <2>1 DEF AssignScalar, Assigns
    <3>2. Serves(assign_1d_scalar(x, ix, v), x, subs, v)
      BY <2>1, OneServes
    <3> QED BY <3>1, <3>2, MovesAre DEF AssignsTo, AnyOperator
  <2>2. CASE ix[1].kind = "flag" /\ ~IsMatrix(v)
    <3>1. f.name = "assign_1d_scalar_b" /\ f.ix = ix /\ f.op = "="
      BY <1>1, <2>2 DEF AssignScalar, Assigns, SameForm, IsMatrix
    <3>2. Serves(assign_1d_scalar_b(x, ix, v), x, subs, v)
      BY <2>2, OneServes
    <3> QED BY <3>1, <3>2, MovesAre DEF AssignsTo, AnyOperator
  <2>3. CASE ix[1].kind = "flag" /\ IsMatrix(v) /\ SameForm(x, v)
    <3>1. f.name = "assign_1d_scalar_vb" /\ f.ix = ix /\ f.op = "="
      BY <1>1, <2>3 DEF AssignScalar, Assigns
    <3>2. Serves(assign_1d_scalar_vb(x, ix, v), x, subs, v)
      BY <2>3, OneServes
    <3> QED BY <3>1, <3>2, MovesAre DEF AssignsTo, AnyOperator
  <2> QED BY <1>1, <2>1, <2>2, <2>3 DEF AssignScalar
<1>2. ASSUME ix[1].kind = "many", NEW op \in AnyOperator,
             f = Assigns(IF IsMatrix(v) THEN "set_1d_range_vec" ELSE "set_1d_range", op, ix)
      PROVE  AssignsTo(f, x, subs, v)
  <2>1. f.name \in {"set_1d_range", "set_1d_range_vec"} /\ f.ix = ix /\ f.op = op
    BY <1>2 DEF Assigns
  <2>2. Serves(set_1d_range(x, ix, v), x, subs, v)
    BY <1>2, OneServes
  <2> QED BY <2>1, <2>2, MovesAre DEF AssignsTo
<1>3. ASSUME f = AssignRange(x, ix, v) PROVE AssignsTo(f, x, subs, v)
  <2>1. CASE ix[1].kind = "many"
    <3>1. f = Assigns(IF IsMatrix(v) THEN "set_1d_range_vec" ELSE "set_1d_range", "=", ix)
      BY <1>3, <2>1 DEF AssignRange
    <3> QED BY <1>2, <2>1, <3>1 DEF AnyOperator
  <2>2. CASE ix[1].kind = "mask"
    <3>1. f.name \in {"set_1d_range_b", "set_1d_range_vec_b"} /\ f.ix = ix /\ f.op = "="
      BY <1>3, <2>2 DEF AssignRange, Assigns, SameForm, IsMatrix
    <3>2. Serves(set_1d_range_b(x, ix, v), x, subs, v)
      BY <2>2, OneServes
    <3> QED BY <3>1, <3>2, MovesAre DEF AssignsTo, AnyOperator
  <2> QED BY <1>3, <2>1, <2>2 DEF AssignRange
<1>4. ASSUME f = AssignAll(x, ix, v), ix[1].kind = "all" PROVE AssignsTo(f, x, subs, v)
  <2>1. f = Assigns("assign_1d_all", "=", ix) /\ ~IsMatrix(v)
    BY <1>4 DEF AssignAll
  <2>2. f.name = "assign_1d_all" /\ f.ix = ix /\ f.op = "="
    BY <2>1 DEF Assigns
  <2>3. Serves(assign_1d_all(x, v), x, subs, v)
    BY <1>4, <2>1, OneServes
  <2> QED BY <2>2, <2>3, MovesAre DEF AssignsTo, AnyOperator
<1>5. ASSUME NEW op \in Operators, f = OpAssignRange(op, x, ix, v) PROVE AssignsTo(f, x, subs, v)
  BY <1>2, <1>5 DEF OpAssignRange, AnyOperator
<1> QED BY <1>1, <1>3, <1>4, <1>5

LEMMA TwoArms ==
  ASSUME NEW x \in AnyValue, NEW v \in AnyValue, NEW subs \in AnySubscripts, Len(subs) = 2,
         IsMatrix(x), NEW ix, ix[1] = Prepared(subs[1]), ix[2] = Prepared(subs[2]),
         NEW k1, NEW k2, k1 = ix[1].kind, k2 = ix[2].kind,
         NEW f, f # NoAssigns, f.name \notin Strays
  PROVE  /\ f = AssignScalarScalar(x, ix, v) => AssignsTo(f, x, subs, v)
         /\ f = AssignAllScalar(x, ix, v) /\ k1 = "all" => AssignsTo(f, x, subs, v)
         /\ f = AssignScalarAll(x, ix, v) /\ k2 = "all" => AssignsTo(f, x, subs, v)
         /\ f = AssignRangeScalar(x, ix, v) => AssignsTo(f, x, subs, v)
         /\ f = AssignScalarRange(x, ix, v) => AssignsTo(f, x, subs, v)
         /\ f = AssignRangeRange(x, ix, v) => AssignsTo(f, x, subs, v)
         /\ f = AssignAllRange(x, ix, v) /\ k1 = "all" => AssignsTo(f, x, subs, v)
         /\ f = AssignRangeAll(x, ix, v) /\ k2 = "all" => AssignsTo(f, x, subs, v)
         /\ \A op \in Operators : f = OpAssignRangeAll(op, x, ix, v) /\ k2 = "all" => AssignsTo(f, x, subs, v)
<1>1. ASSUME f = AssignScalarScalar(x, ix, v) PROVE AssignsTo(f, x, subs, v)
  <2>1. CASE k1 = "one" /\ k2 = "one" /\ ~IsMatrix(v)
    <3>1. f.name = "assign_2d_scalar_scalar" /\ f.ix = ix /\ f.op = "="
      BY <1>1, <2>1 DEF AssignScalarScalar, Assigns, SameForm, IsMatrix, IsDMatrix
    <3>2. Serves(assign_2d_scalar_scalar(x, ix, v), x, subs, v)
      BY <1>1, <2>1, TwoServes
    <3> QED BY <1>1, <3>1, <3>2, MovesAre DEF AssignsTo, AnyOperator
  <2>2. CASE k1 = "box" /\ k2 = "one" /\ ~IsMatrix(v)
    <3>1. f.name = "assign_2d_range_scalar" /\ f.ix = ix /\ f.op = "="
      BY <1>1, <2>2 DEF AssignScalarScalar, Assigns, SameForm, IsMatrix, IsDMatrix
    <3>2. Serves(assign_2d_range_scalar(x, ix, v), x, subs, v)
      BY <1>1, <2>2, TwoServes
    <3> QED BY <1>1, <3>1, <3>2, MovesAre DEF AssignsTo, AnyOperator
  <2> QED BY <1>1, <2>1, <2>2 DEF AssignScalarScalar, Strays, SameForm, IsMatrix, IsDMatrix, NoAssigns, Assigns
<1>2. ASSUME f = AssignAllScalar(x, ix, v), k1 = "all" PROVE AssignsTo(f, x, subs, v)
  <2>1. CASE k2 = "one" /\ (IsMatrix(v) => Size(v) = x.rows)
    <3>1. f.name \in {"assign_2d_all_scalar", "assign_2d_all_vector"} /\ f.ix = ix /\ f.op = "="
      BY <1>2, <2>1 DEF AssignAllScalar, Assigns, SameForm, IsMatrix, IsDMatrix
    <3>2. Serves(assign_2d_all_scalar(x, ix, v), x, subs, v)
      BY <1>2, <2>1, TwoServes
    <3> QED BY <1>2, <3>1, <3>2, MovesAre DEF AssignsTo, AnyOperator
  <2> QED BY <1>2, <2>1 DEF AssignAllScalar, Strays, SameForm, IsMatrix, IsDMatrix, NoAssigns, Assigns
<1>3. ASSUME f = AssignScalarAll(x, ix, v), k2 = "all" PROVE AssignsTo(f, x, subs, v)
  <2>1. CASE k1 = "one" /\ (IsMatrix(v) => Size(v) = x.cols)
    <3>1. f.name \in {"assign_2d_scalar_all_scalar", "assign_2d_scalar_all_vector"} /\ f.ix = ix /\ f.op = "="
      BY <1>3, <2>1 DEF AssignScalarAll, Assigns, SameForm, IsMatrix, IsDMatrix
    <3>2. Serves(assign_2d_scalar_all(x, ix, v), x, subs, v)
      BY <1>3, <2>1, TwoServes
    <3> QED BY <1>3, <3>1, <3>2, MovesAre DEF AssignsTo, AnyOperator
  <2> QED BY <1>3, <2>1 DEF AssignScalarAll, Strays, SameForm, IsMatrix, IsDMatrix, NoAssigns, Assigns
<1>4. ASSUME f = AssignRangeScalar(x, ix, v) PROVE AssignsTo(f, x, subs, v)
  <2>1. CASE k1 = "many" /\ k2 = "one" /\ (IsMatrix(v) => Size(v) = Len(ix[1].at))
    <3>1. f.name \in {"assign_2d_range_scalar", "assign_2d_range_scalar_v"} /\ f.ix = ix /\ f.op = "="
      BY <1>4, <2>1 DEF AssignRangeScalar, Assigns, SameForm, IsMatrix, IsDMatrix
    <3>2. Serves(assign_2d_range_scalar(x, ix, v), x, subs, v)
      BY <1>4, <2>1, TwoServes
    <3> QED BY <1>4, <3>1, <3>2, MovesAre DEF AssignsTo, AnyOperator
  <2>2. CASE k1 = "mask" /\ k2 = "one" /\ (IsMatrix(v) => Size(v) = Len(ix[1].on))
    <3>1. f.name \in {"assign_2d_range_scalar_b", "assign_2d_range_scalar_vb"} /\ f.ix = ix /\ f.op = "="
      BY <1>4, <2>2 DEF AssignRangeScalar, Assigns, SameForm, IsMatrix, IsDMatrix
    <3>2. Serves(assign_2d_range_scalar_b(x, ix, v), x, subs, v)
      BY <1>4, <2>2, TwoServes
    <3> QED BY <1>4, <3>1, <3>2, MovesAre DEF AssignsTo, AnyOperator
  <2> QED BY <1>4, <2>1, <2>2 DEF AssignRangeScalar, Strays, SameForm, IsMatrix, IsDMatrix, NoAssigns, Assigns
<1>5. ASSUME f = AssignScalarRange(x, ix, v) PROVE AssignsTo(f, x, subs, v)
  <2>1. CASE k1 = "one" /\ k2 = "many" /\ (IsMatrix(v) => Size(v) = Len(ix[2].at))
    <3>1. f.name \in {"assign_2d_scalar_range", "assign_2d_scalar_range_v"} /\ f.ix = ix /\ f.op = "="
      BY <1>5, <2>1 DEF AssignScalarRange, Assigns, SameForm, IsMatrix, IsDMatrix
    <3>2. Serves(assign_2d_scalar_range(x, ix, v), x, subs, v)
      BY <1>5, <2>1, TwoServes
    <3> QED BY <1>5, <3>1, <3>2, MovesAre DEF AssignsTo, AnyOperator
  <2>2. CASE k1 = "one" /\ k2 = "mask" /\ (IsMatrix(v) => Size(v) = Len(ix[2].on))
    <3>1. f.name \in {"assign_2d_scalar_range_b", "assign_2d_scalar_range_vb"} /\ f.ix = ix /\ f.op = "="
      BY <1>5, <2>2 DEF AssignScalarRange, Assigns, SameForm, IsMatrix, IsDMatrix
    <3>2. Serves(assign_2d_scalar_range_b(x, ix, v), x, subs, v)
      BY <1>5, <2>2, TwoServes
    <3> QED BY <1>5, <3>1, <3>2, MovesAre DEF AssignsTo, AnyOperator
  <2> QED BY <1>5, <2>1, <2>2 DEF AssignScalarRange, Strays, SameForm, IsMatrix, IsDMatrix, NoAssigns, Assigns
<1>6. ASSUME f = AssignRangeRange(x, ix, v) PROVE AssignsTo(f, x, subs, v)
  <2>1. CASE k1 = "many" /\ k2 = "many"
    <3>1. f.name \in {"assign_2d_range_range", "assign_2d_range_range_v"} /\ f.ix = ix /\ f.op = "="
      BY <1>6, <2>1 DEF AssignRangeRange, Assigns, SameForm, IsMatrix, IsDMatrix
    <3>2. Serves(assign_2d_range_range(x, ix, v), x, subs, v)
      BY <1>6, <2>1, BlocksServe
    <3> QED BY <1>6, <3>1, <3>2, MovesAre DEF AssignsTo, AnyOperator
  <2>2. CASE k1 = "mask" /\ k2 = "mask" /\ Len(ix[2].on) = x.cols
    <3>1. f.name \in {"assign_2d_range_range_b", "assign_2d_range_range_vb"} /\ f.ix = ix /\ f.op = "="
      BY <1>6, <2>2 DEF AssignRangeRange, Assigns, SameForm, IsMatrix, IsDMatrix
    <3>2. Serves(assign_2d_range_range_b(x, ix, v), x, subs, v)
      BY <1>6, <2>2, BlocksServe
    <3> QED BY <1>6, <3>1, <3>2, MovesAre DEF AssignsTo, AnyOperator
  <2>3. CASE k1 = "mask" /\ k2 = "many" /\ ~IsMatrix(v)
    <3>1. f.name = "assign_2d_range_range_bu" /\ f.ix = ix /\ f.op = "="
      BY <1>6, <2>3 DEF AssignRangeRange, Assigns, SameForm, IsMatrix, IsDMatrix
    <3>2. Serves(assign_2d_range_range_bu(x, ix, v), x, subs, v)
      BY <1>6, <2>3, BlocksServe
    <3> QED BY <1>6, <3>1, <3>2, MovesAre DEF AssignsTo, AnyOperator
  <2>4. CASE k1 = "mask" /\ k2 = "many" /\ IsMatrix(v)
    <3>1. f.name = "assign_2d_range_range_vbu" /\ f.ix = ix /\ f.op = "="
      BY <1>6, <2>4 DEF AssignRangeRange, Assigns, SameForm, IsMatrix, IsDMatrix
    <3>2. Serves(assign_2d_range_range_vbu(x, ix, v), x, subs, v)
      BY <1>6, <2>4, BlocksServe
    <3> QED BY <1>6, <3>1, <3>2, MovesAre DEF AssignsTo, AnyOperator
  <2>5. CASE k1 = "many" /\ k2 = "mask" /\ IsMatrix(v)
    <3>1. f.name = "assign_2d_range_range_vub" /\ f.ix = ix /\ f.op = "="
      BY <1>6, <2>5 DEF AssignRangeRange, Assigns, SameForm, IsMatrix, IsDMatrix
    <3>2. Serves(assign_2d_range_range_vub(x, ix, v), x, subs, v)
      BY <1>6, <2>5, BlocksServe
    <3> QED BY <1>6, <3>1, <3>2, MovesAre DEF AssignsTo, AnyOperator
  <2> QED BY <1>6, <2>1, <2>2, <2>3, <2>4, <2>5 DEF AssignRangeRange, Strays, SameForm, IsMatrix, IsDMatrix, NoAssigns, Assigns
<1>7. ASSUME f = AssignAllRange(x, ix, v), k1 = "all" PROVE AssignsTo(f, x, subs, v)
  <2>1. CASE k2 \in {"many", "mask"} /\ ~IsMatrix(v)
    <3>1. f.name \in {"assign_2d_all_range", "assign_2d_all_range_b"} /\ f.ix = ix /\ f.op = "="
      BY <1>7, <2>1 DEF AssignAllRange, Assigns, SameForm, IsMatrix, IsDMatrix
    <3>2. Serves(assign_2d_all_range(x, ix, v), x, subs, v)
      BY <1>7, <2>1, BlocksServe
    <3> QED BY <1>7, <3>1, <3>2, MovesAre DEF AssignsTo, AnyOperator
  <2>2. CASE k2 = "many" /\ IsMatrix(v)
    <3>1. f.name = "assign_2d_all_range_v" /\ f.ix = ix /\ f.op = "="
      BY <1>7, <2>2 DEF AssignAllRange, Assigns, SameForm, IsMatrix, IsDMatrix
    <3>2. Serves(assign_2d_all_range_v(x, ix, v), x, subs, v)
      BY <1>7, <2>2, BlocksServe
    <3> QED BY <1>7, <3>1, <3>2, MovesAre DEF AssignsTo, AnyOperator
  <2>3. CASE k2 = "mask" /\ IsMatrix(v) /\ SameShape(x, v)
    <3>1. f.name = "assign_2d_all_range_vb" /\ f.ix = ix /\ f.op = "="
      BY <1>7, <2>3 DEF AssignAllRange, Assigns, SameForm, IsMatrix, IsDMatrix
    <3>2. Serves(assign_2d_all_range_vb(x, ix, v), x, subs, v)
      BY <1>7, <2>3, BlocksServe
    <3> QED BY <1>7, <3>1, <3>2, MovesAre DEF AssignsTo, AnyOperator
  <2> QED BY <1>7, <2>1, <2>2, <2>3 DEF AssignAllRange, Strays, SameForm, IsMatrix, IsDMatrix, NoAssigns, Assigns
<1>8. ASSUME f = AssignRangeAll(x, ix, v), k2 = "all" PROVE AssignsTo(f, x, subs, v)
  <2>1. CASE k1 = "many" /\ ~IsMatrix(v)
    <3>1. f.name = "assign_2d_range_all" /\ f.ix = ix /\ f.op = "="
      BY <1>8, <2>1 DEF AssignRangeAll, Assigns, SameForm, IsMatrix, IsDMatrix
    <3>2. Serves(assign_2d_range_all(x, ix, v), x, subs, v)
      BY <1>8, <2>1, BlocksServe
    <3> QED BY <1>8, <3>1, <3>2, MovesAre DEF AssignsTo, AnyOperator
  <2>2. CASE k1 = "many" /\ IsMatrix(v)
    <3>1. f.name = "assign_2d_range_all_v" /\ f.ix = ix /\ f.op = "="
      BY <1>8, <2>2 DEF AssignRangeAll, Assigns, SameForm, IsMatrix, IsDMatrix
    <3>2. Serves(assign_2d_range_all_v(x, ix, v), x, subs, v)
      BY <1>8, <2>2, BlocksServe
    <3> QED BY <1>8, <3>1, <3>2, MovesAre DEF AssignsTo, AnyOperator
  <2>3. CASE k1 = "mask" /\ IsMatrix(v) /\ SameShape(x, v)
    <3>1. f.name = "assign_2d_range_all_vb" /\ f.ix = ix /\ f.op = "="
      BY <1>8, <2>3 DEF AssignRangeAll, Assigns, SameForm, IsMatrix, IsDMatrix
    <3>2. Serves(assign_2d_range_all_vb(x, ix, v), x, subs, v)
      BY <1>8, <2>3, BlocksServe
    <3> QED BY <1>8, <3>1, <3>2, MovesAre DEF AssignsTo, AnyOperator
  <2> QED BY <1>8, <2>1, <2>2, <2>3 DEF AssignRangeAll, Strays, SameForm, IsMatrix, IsDMatrix, NoAssigns, Assigns
<1>9. ASSUME NEW op \in Operators, f = OpAssignRangeAll(op, x, ix, v), k2 = "all" PROVE AssignsTo(f, x, subs, v)
  <2>1. CASE k1 = "many" /\ ~IsMatrix(v)
    <3>1. f.name = "assign_2d_range_all" /\ f.ix = ix /\ f.op = op
      BY <1>9, <2>1 DEF OpAssignRangeAll, Assigns, SameForm, IsMatrix, IsDMatrix
    <3>2. Serves(assign_2d_range_all(x, ix, v), x, subs, v)
      BY <1>9, <2>1, BlocksServe
    <3> QED BY <1>9, <3>1, <3>2, MovesAre DEF AssignsTo, AnyOperator
  <2>2. CASE k1 = "many" /\ IsMatrix(v)
    <3>1. f.name = "assign_2d_range_all_v" /\ f.ix = ix /\ f.op = op
      BY <1>9, <2>2 DEF OpAssignRangeAll, Assigns, SameForm, IsMatrix, IsDMatrix
    <3>2. Serves(assign_2d_range_all_v(x, ix, v), x, subs, v)
      BY <1>9, <2>2, BlocksServe
    <3> QED BY <1>9, <3>1, <3>2, MovesAre DEF AssignsTo, AnyOperator
  <2> QED BY <1>9, <2>1, <2>2 DEF OpAssignRangeAll, Strays, SameForm, IsMatrix, IsDMatrix, NoAssigns, Assigns
<1> QED BY <1>1, <1>2, <1>3, <1>4, <1>5, <1>6, <1>7, <1>8, <1>9

LEMMA FamilyIs ==
  ASSUME NEW subs \in AnySubscripts
  PROVE  /\ Len(subs) = 0 => Family(subs) = << >>
         /\ Len(subs) = 1 => Family(subs) = <<Part(subs[1])>>
         /\ Len(subs) = 2 => Family(subs) = <<Part(subs[1]), Part(subs[2])>>
         /\ \A i \in 1..Len(subs) : /\ Part(subs[i]) \in {"scalar", "range", "all"}
                                    /\ Part(subs[i]) = "all" <=> Prepared(subs[i]).kind = "all"
<1>1. /\ DOMAIN subs = 1..Len(subs) /\ Len(subs) \in {0, 1, 2}
      /\ \A i \in 1..Len(subs) : subs[i] \in AnySubscript
  BY SubscriptsAre
<1>2. Len(subs) = 0 => Family(subs) = << >>
  BY <1>1 DEF Family
<1>3. Len(subs) = 1 => Family(subs) = <<Part(subs[1])>>
  BY <1>1 DEF Family
<1>4. Len(subs) = 2 => Family(subs) = <<Part(subs[1]), Part(subs[2])>>
  BY <1>1 DEF Family
<1>5. ASSUME NEW i \in 1..Len(subs)
      PROVE  /\ Part(subs[i]) \in {"scalar", "range", "all"}
             /\ Part(subs[i]) = "all" <=> Prepared(subs[i]).kind = "all"
  <2>1. subs[i] \in AnySubscript
    BY <1>1, <1>5
  <2>2. Prepared(subs[i]).kind = "all" <=> subs[i].syntax = "all"
    BY <2>1, PreparedIs DEF Prepares
  <2>3. subs[i].syntax \in {"formula", "range", "all"}
    BY <2>1 DEF AnySubscript
  <2> QED BY <2>2, <2>3 DEF Part
<1> QED BY <1>2, <1>3, <1>4, <1>5

LEMMA AssignsServe ==
  ASSUME NEW x \in AnyValue, NEW v \in AnyValue, NEW subs \in AnySubscripts \ {<< >>},
         Family(subs) # <<"all", "all">>, NEW f, f = AssignFunction(x, subs, v),
         f # NoAssigns, f.name \notin Strays
  PROVE  AssignsTo(f, x, subs, v)
<1> DEFINE ix == [i \in DOMAIN subs |-> Prepared(subs[i])]
           family == Family(subs)
<1>1. Len(subs) \in {1, 2} /\ DOMAIN subs = 1..Len(subs)
  BY SubscriptsAre
<1>2. family # << >>
  <2>1. \A a, b : <<a>> # << >> /\ <<a, b>> # << >>
    OBVIOUS
  <2>2. \/ family = <<Part(subs[1])>>
        \/ family = <<Part(subs[1]), Part(subs[2])>>
    BY <1>1, FamilyIs
  <2> QED BY <2>1, <2>2, Zenon
<1>3. IsMatrix(x)
  BY <1>2 DEF AssignFunction
<1>4. CASE Len(subs) = 1
  <2> DEFINE p == Part(subs[1])
  <2>1. family = <<p>> /\ p \in {"scalar", "range", "all"} /\ (p = "all" <=> Prepared(subs[1]).kind = "all")
    BY <1>1, <1>4, FamilyIs
  <2>2. ix[1] = Prepared(subs[1])
    BY <1>1, <1>4
  <2> HIDE DEF p
  <2>3. /\ p = "scalar" => f = AssignScalar(x, ix, v)
        /\ p = "range" => f = AssignRange(x, ix, v)
        /\ p = "all" => f = AssignAll(x, ix, v)
    BY <1>3, <2>1 DEF AssignFunction
  <2> HIDE DEF ix
  <2> QED BY <1>3, <1>4, <2>1, <2>2, <2>3, OneArms
<1>5. CASE Len(subs) = 2
  <2> DEFINE p == Part(subs[1])
             q == Part(subs[2])
             k1 == ix[1].kind
             k2 == ix[2].kind
  <2>1. /\ family = <<p, q>> /\ p \in {"scalar", "range", "all"} /\ q \in {"scalar", "range", "all"}
        /\ p = "all" <=> Prepared(subs[1]).kind = "all"
        /\ q = "all" <=> Prepared(subs[2]).kind = "all"
    BY <1>1, <1>5, FamilyIs
  <2>2. ix[1] = Prepared(subs[1]) /\ ix[2] = Prepared(subs[2])
    BY <1>1, <1>5
  <2> HIDE DEF p, q
  <2>3. /\ p = "scalar" /\ q = "scalar" => f = AssignScalarScalar(x, ix, v)
        /\ p = "scalar" /\ q = "range" => f = AssignScalarRange(x, ix, v)
        /\ p = "range" /\ q = "scalar" => f = AssignRangeScalar(x, ix, v)
        /\ p = "range" /\ q = "range" => f = AssignRangeRange(x, ix, v)
        /\ p = "all" /\ q = "scalar" => f = AssignAllScalar(x, ix, v)
        /\ p = "scalar" /\ q = "all" => f = AssignScalarAll(x, ix, v)
        /\ p = "all" /\ q = "range" => f = AssignAllRange(x, ix, v)
        /\ p = "range" /\ q = "all" => f = AssignRangeAll(x, ix, v)
    BY <1>3, <2>1 DEF AssignFunction
  <2>4. ~(p = "all" /\ q = "all")
    BY <2>1
  <2>5. (p = "all" => k1 = "all") /\ (q = "all" => k2 = "all")
    BY <2>1, <2>2
  <2> HIDE DEF ix, k1, k2
  <2>6. /\ f = AssignScalarScalar(x, ix, v) => AssignsTo(f, x, subs, v)
        /\ f = AssignScalarRange(x, ix, v) => AssignsTo(f, x, subs, v)
        /\ f = AssignRangeScalar(x, ix, v) => AssignsTo(f, x, subs, v)
        /\ f = AssignRangeRange(x, ix, v) => AssignsTo(f, x, subs, v)
    BY <1>3, <1>5, <2>2, TwoArms DEF k1, k2
  <2>7. /\ f = AssignAllScalar(x, ix, v) /\ k1 = "all" => AssignsTo(f, x, subs, v)
        /\ f = AssignScalarAll(x, ix, v) /\ k2 = "all" => AssignsTo(f, x, subs, v)
        /\ f = AssignAllRange(x, ix, v) /\ k1 = "all" => AssignsTo(f, x, subs, v)
        /\ f = AssignRangeAll(x, ix, v) /\ k2 = "all" => AssignsTo(f, x, subs, v)
    BY <1>3, <1>5, <2>2, TwoArms DEF k1, k2
  <2> QED BY <2>1, <2>3, <2>4, <2>5, <2>6, <2>7
<1> QED BY <1>1, <1>4, <1>5

LEMMA OpAssignsServe ==
  ASSUME NEW x \in AnyValue, NEW v \in AnyValue, NEW subs \in AnySubscripts \ {<< >>},
         OpAssignable(subs), NEW op \in Operators, NEW f, f = OpAssignFunction(op, x, subs, v),
         f # NoAssigns, f.name \notin Strays
  PROVE  AssignsTo(f, x, subs, v)
<1> DEFINE ix == [i \in DOMAIN subs |-> Prepared(subs[i])]
           family == Family(subs)
<1>1. Len(subs) \in {1, 2} /\ DOMAIN subs = 1..Len(subs)
  BY SubscriptsAre
<1>2. family # << >>
  <2>1. \A a, b : <<a>> # << >> /\ <<a, b>> # << >>
    OBVIOUS
  <2>2. \/ family = <<Part(subs[1])>>
        \/ family = <<Part(subs[1]), Part(subs[2])>>
    BY <1>1, FamilyIs
  <2> QED BY <2>1, <2>2, Zenon
<1>3. IsMatrix(x)
  BY <1>2 DEF OpAssignFunction
<1>4. CASE Len(subs) = 1
  <2> DEFINE p == Part(subs[1])
  <2>1. family = <<p>> /\ p \in {"scalar", "range"}
    BY <1>1, <1>4, FamilyIs DEF OpAssignable
  <2>2. ix[1] = Prepared(subs[1])
    BY <1>1, <1>4
  <2> HIDE DEF p
  <2>3. /\ p = "scalar" => f = AssignScalar(x, ix, v)
        /\ p = "range" => f = OpAssignRange(op, x, ix, v)
    BY <1>3, <2>1 DEF OpAssignFunction
  <2> HIDE DEF ix
  <2> QED BY <1>3, <1>4, <2>1, <2>2, <2>3, OneArms
<1>5. CASE Len(subs) = 2
  <2> DEFINE p == Part(subs[1])
             q == Part(subs[2])
             k1 == ix[1].kind
             k2 == ix[2].kind
  <2>1. /\ family = <<p, q>> /\ p \in {"scalar", "range"} /\ q = "all"
        /\ q = "all" <=> Prepared(subs[2]).kind = "all"
    BY <1>1, <1>5, FamilyIs DEF OpAssignable
  <2>2. ix[1] = Prepared(subs[1]) /\ ix[2] = Prepared(subs[2])
    BY <1>1, <1>5
  <2> HIDE DEF p, q
  <2>3. /\ p = "scalar" => f = AssignScalarAll(x, ix, v)
        /\ p = "range" => f = OpAssignRangeAll(op, x, ix, v)
    BY <1>3, <2>1 DEF OpAssignFunction
  <2>4. k2 = "all"
    BY <2>1, <2>2
  <2> HIDE DEF ix, k1, k2
  <2>5. /\ f = AssignScalarAll(x, ix, v) => AssignsTo(f, x, subs, v)
        /\ f = OpAssignRangeAll(op, x, ix, v) => AssignsTo(f, x, subs, v)
    BY <1>3, <1>5, <2>2, <2>4, TwoArms DEF k1, k2
  <2> QED BY <2>1, <2>3, <2>5
<1> QED BY <1>1, <1>4, <1>5

-----------------------------------------------------------------------------
(* Every loop is a sequence of moves, whatever it is run on.               *)

IsLoop(moves) == \E n \in Nat : DOMAIN moves = 1..n

IsIndex(i) == i.at \in Seq(Int) /\ i.on \in Seq(BOOLEAN)

LEMMA IndexLengths ==
  ASSUME NEW i, IsIndex(i)
  PROVE  /\ Len(i.at) \in Nat /\ Len(SetBits(i.on)) \in Nat /\ Len(Chosen(i)) \in Nat
         /\ Len(SetBits([k \in DOMAIN i.at |-> i.at[k] # 0])) \in Nat
<1>1. Len(i.at) \in Nat /\ i.on \in Seq(BOOLEAN)
  BY DEF IsIndex
<1>2. \A on \in Seq(BOOLEAN) : Len(SetBits(on)) \in Nat
  <2>1. \A on \in Seq(BOOLEAN) : SetBits(on) \in Seq(Nat)
    BY MaskLists DEF Lists
  <2>2. \A q \in Seq(Nat) : Len(q) \in Nat
    OBVIOUS
  <2> QED BY <2>1, <2>2, Zenon
<1>3. [k \in DOMAIN i.at |-> i.at[k] # 0] \in Seq(BOOLEAN)
  <2> DEFINE n == Len(i.at)
  <2>1. DOMAIN i.at = 1..n /\ n \in Nat
    BY DEF IsIndex
  <2> HIDE DEF n
  <2> DEFINE q == [k \in 1..n |-> i.at[k] # 0]
  <2>2. q \in [1..n -> BOOLEAN]
    OBVIOUS
  <2>3. q \in Seq(BOOLEAN)
    <3> HIDE DEF q
    <3> QED BY <2>1, <2>2
  <2> QED BY <2>1, <2>3
<1> QED BY <1>1, <1>2, <1>3 DEF Chosen

LEMMA OneLoops ==
  ASSUME NEW x \in AnyValue, NEW v \in AnyValue, NEW ix, IsIndex(ix[1])
  PROVE  /\ IsLoop(assign_1d_scalar(x, ix, v))
         /\ IsLoop(assign_1d_scalar_b(x, ix, v))
         /\ IsLoop(assign_1d_scalar_vb(x, ix, v))
         /\ IsLoop(set_1d_range(x, ix, v))
         /\ IsLoop(set_1d_range_b(x, ix, v))
<1> DEFINE sx == Size(x)
           least == Min({Size(x), Size(v)})
<1>0. /\ sx \in Nat /\ x.rows \in Nat /\ x.cols \in Nat
      /\ least \in Nat
      /\ Len(ix[1].at) \in Nat /\ Len(SetBits(ix[1].on)) \in Nat
  BY ValueIsResult, MinIs, IndexLengths
<1> HIDE DEF least, sx
<1>1. IsLoop(assign_1d_scalar(x, ix, v))
  <2> DEFINE n == 1
  <2>1. DOMAIN assign_1d_scalar(x, ix, v) = 1..n
    BY <1>0 DEF assign_1d_scalar, Loop
  <2>2. n \in Nat
    BY <1>0
  <2> HIDE DEF n
  <2> QED BY <2>1, <2>2 DEF IsLoop
<1>2. IsLoop(assign_1d_scalar_b(x, ix, v))
  <2> DEFINE n == IF ix[1].on[1] THEN sx ELSE 0
  <2>1. DOMAIN assign_1d_scalar_b(x, ix, v) = 1..n
    BY <1>0 DEF assign_1d_scalar_b, Loop, sx
  <2>2. n \in Nat
    BY <1>0
  <2> HIDE DEF n
  <2> QED BY <2>1, <2>2 DEF IsLoop
<1>3. IsLoop(assign_1d_scalar_vb(x, ix, v))
  <2> DEFINE n == IF ix[1].on[1] THEN least ELSE 0
  <2>1. DOMAIN assign_1d_scalar_vb(x, ix, v) = 1..n
    BY <1>0 DEF assign_1d_scalar_vb, Loop, least
  <2>2. n \in Nat
    BY <1>0
  <2> HIDE DEF n
  <2> QED BY <2>1, <2>2 DEF IsLoop
<1>4. IsLoop(set_1d_range(x, ix, v))
  <2> DEFINE n == Len(ix[1].at)
  <2>1. DOMAIN set_1d_range(x, ix, v) = 1..n
    BY <1>0 DEF set_1d_range, Loop
  <2>2. n \in Nat
    BY <1>0
  <2> HIDE DEF n
  <2> QED BY <2>1, <2>2 DEF IsLoop
<1>5. IsLoop(set_1d_range_b(x, ix, v))
  <2> DEFINE n == Len(SetBits(ix[1].on))
  <2>1. DOMAIN set_1d_range_b(x, ix, v) = 1..n
    BY <1>0 DEF set_1d_range_b, Loop
  <2>2. n \in Nat
    BY <1>0
  <2> HIDE DEF n
  <2> QED BY <2>1, <2>2 DEF IsLoop
<1> QED BY <1>1, <1>2, <1>3, <1>4, <1>5

LEMMA WholeLoops ==
  ASSUME NEW x \in AnyValue, NEW v \in AnyValue
  PROVE  /\ IsLoop(assign_1d_all(x, v))
         /\ IsLoop(op_assign_whole(x, v))
<1> DEFINE sx == Size(x)
           least == Min({Size(x), Size(v)})
<1>0. /\ sx \in Nat /\ x.rows \in Nat /\ x.cols \in Nat
      /\ least \in Nat
  BY ValueIsResult, MinIs
<1> HIDE DEF least, sx
<1>1. IsLoop(assign_1d_all(x, v))
  <2> DEFINE n == sx
  <2>1. DOMAIN assign_1d_all(x, v) = 1..n
    BY <1>0 DEF assign_1d_all, Loop, sx
  <2>2. n \in Nat
    BY <1>0
  <2> HIDE DEF n
  <2> QED BY <2>1, <2>2 DEF IsLoop
<1>2. IsLoop(op_assign_whole(x, v))
  <2> DEFINE n == IF IsMatrix(v) THEN least ELSE sx
  <2>1. DOMAIN op_assign_whole(x, v) = 1..n
    BY <1>0 DEF op_assign_whole, Loop, least, sx
  <2>2. n \in Nat
    BY <1>0
  <2> HIDE DEF n
  <2> QED BY <2>1, <2>2 DEF IsLoop
<1> QED BY <1>1, <1>2

LEMMA TwoLoops ==
  ASSUME NEW x \in AnyValue, NEW v \in AnyValue, NEW ix, IsIndex(ix[1]), IsIndex(ix[2])
  PROVE  /\ IsLoop(assign_2d_scalar_scalar(x, ix, v))
         /\ IsLoop(assign_2d_all_scalar(x, ix, v))
         /\ IsLoop(assign_2d_scalar_all(x, ix, v))
         /\ IsLoop(assign_2d_range_scalar(x, ix, v))
         /\ IsLoop(assign_2d_range_scalar_b(x, ix, v))
         /\ IsLoop(assign_2d_scalar_range(x, ix, v))
         /\ IsLoop(assign_2d_scalar_range_b(x, ix, v))
         /\ IsLoop(assign_2d_range_range(x, ix, v))
         /\ IsLoop(assign_2d_range_range_b(x, ix, v))
         /\ IsLoop(assign_2d_range_range_bu(x, ix, v))
         /\ IsLoop(assign_2d_range_range_vbu(x, ix, v))
         /\ IsLoop(assign_2d_range_range_ub(x, ix, v))
         /\ IsLoop(assign_2d_range_range_vub(x, ix, v))
         /\ IsLoop(assign_2d_all_range(x, ix, v))
         /\ IsLoop(assign_2d_all_range_v(x, ix, v))
         /\ IsLoop(assign_2d_all_range_vb(x, ix, v))
         /\ IsLoop(assign_2d_range_all(x, ix, v))
         /\ IsLoop(assign_2d_range_all_b(x, ix, v))
         /\ IsLoop(assign_2d_range_all_v(x, ix, v))
         /\ IsLoop(assign_2d_range_all_vb(x, ix, v))
<1> DEFINE least_rows == Min({x.rows, v.rows})
           least_cols == Min({x.cols, v.cols})
           nonzero == [k \in DOMAIN ix[1].at |-> ix[1].at[k] # 0]
<1>0. /\ x.rows \in Nat /\ x.cols \in Nat /\ least_rows \in Nat /\ least_cols \in Nat
      /\ Len(ix[1].at) \in Nat /\ Len(SetBits(ix[1].on)) \in Nat
      /\ Len(ix[2].at) \in Nat /\ Len(SetBits(ix[2].on)) \in Nat
      /\ Len(Chosen(ix[2])) \in Nat /\ Len(SetBits(nonzero)) \in Nat
  <2>1. /\ x.rows \in Nat /\ x.cols \in Nat /\ v.rows \in Nat /\ v.cols \in Nat
    BY ValueIsResult
  <2>2. least_rows \in Nat /\ least_cols \in Nat
    BY <2>1, MinIs
  <2>3. /\ Len(ix[1].at) \in Nat /\ Len(SetBits(ix[1].on)) \in Nat
        /\ Len(ix[2].at) \in Nat /\ Len(SetBits(ix[2].on)) \in Nat
        /\ Len(Chosen(ix[2])) \in Nat /\ Len(SetBits(nonzero)) \in Nat
    BY IndexLengths
  <2> QED BY <2>1, <2>2, <2>3
<1> HIDE DEF least_rows, least_cols, nonzero
<1>1. IsLoop(assign_2d_scalar_scalar(x, ix, v))
  <2> DEFINE n == 1
  <2>1. DOMAIN assign_2d_scalar_scalar(x, ix, v) = 1..n
    BY <1>0 DEF assign_2d_scalar_scalar, Loop
  <2>2. n \in Nat
    BY <1>0
  <2> HIDE DEF n
  <2> QED BY <2>1, <2>2 DEF IsLoop
<1>2. IsLoop(assign_2d_all_scalar(x, ix, v))
  <2> DEFINE n == x.rows
  <2>1. DOMAIN assign_2d_all_scalar(x, ix, v) = 1..n
    BY <1>0 DEF assign_2d_all_scalar, Loop
  <2>2. n \in Nat
    BY <1>0
  <2> HIDE DEF n
  <2> QED BY <2>1, <2>2 DEF IsLoop
<1>3. IsLoop(assign_2d_scalar_all(x, ix, v))
  <2> DEFINE n == x.cols
  <2>1. DOMAIN assign_2d_scalar_all(x, ix, v) = 1..n
    BY <1>0 DEF assign_2d_scalar_all, Loop
  <2>2. n \in Nat
    BY <1>0
  <2> HIDE DEF n
  <2> QED BY <2>1, <2>2 DEF IsLoop
<1>4. IsLoop(assign_2d_range_scalar(x, ix, v))
  <2> DEFINE n == Len(ix[1].at)
  <2>1. DOMAIN assign_2d_range_scalar(x, ix, v) = 1..n
    BY <1>0 DEF assign_2d_range_scalar, Loop
  <2>2. n \in Nat
    BY <1>0
  <2> HIDE DEF n
  <2> QED BY <2>1, <2>2 DEF IsLoop
<1>5. IsLoop(assign_2d_range_scalar_b(x, ix, v))
  <2> DEFINE n == Len(SetBits(ix[1].on))
  <2>1. DOMAIN assign_2d_range_scalar_b(x, ix, v) = 1..n
    BY <1>0 DEF assign_2d_range_scalar_b, Loop
  <2>2. n \in Nat
    BY <1>0
  <2> HIDE DEF n
  <2> QED BY <2>1, <2>2 DEF IsLoop
<1>6. IsLoop(assign_2d_scalar_range(x, ix, v))
  <2> DEFINE n == Len(ix[2].at)
  <2>1. DOMAIN assign_2d_scalar_range(x, ix, v) = 1..n
    BY <1>0 DEF assign_2d_scalar_range, Loop
  <2>2. n \in Nat
    BY <1>0
  <2> HIDE DEF n
  <2> QED BY <2>1, <2>2 DEF IsLoop
<1>7. IsLoop(assign_2d_scalar_range_b(x, ix, v))
  <2> DEFINE n == Len(SetBits(ix[2].on))
  <2>1. DOMAIN assign_2d_scalar_range_b(x, ix, v) = 1..n
    BY <1>0 DEF assign_2d_scalar_range_b, Loop
  <2>2. n \in Nat
    BY <1>0
  <2> HIDE DEF n
  <2> QED BY <2>1, <2>2 DEF IsLoop
<1>8. IsLoop(assign_2d_range_range(x, ix, v))
  <2> DEFINE n == Len(ix[1].at) * Len(ix[2].at)
  <2>1. DOMAIN assign_2d_range_range(x, ix, v) = 1..n
    BY <1>0 DEF assign_2d_range_range, Loops
  <2>2. n \in Nat
    BY <1>0, ProductIsNat, Zenon
  <2> HIDE DEF n
  <2> QED BY <2>1, <2>2 DEF IsLoop
<1>9. IsLoop(assign_2d_range_range_b(x, ix, v))
  <2> DEFINE n == Len(SetBits(ix[1].on)) * Len(SetBits(ix[2].on))
  <2>1. DOMAIN assign_2d_range_range_b(x, ix, v) = 1..n
    BY <1>0 DEF assign_2d_range_range_b, Loops
  <2>2. n \in Nat
    BY <1>0, ProductIsNat, Zenon
  <2> HIDE DEF n
  <2> QED BY <2>1, <2>2 DEF IsLoop
<1>10. IsLoop(assign_2d_range_range_bu(x, ix, v))
  <2> DEFINE n == Len(SetBits(ix[1].on)) * Len(ix[2].at)
  <2>1. DOMAIN assign_2d_range_range_bu(x, ix, v) = 1..n
    BY <1>0 DEF assign_2d_range_range_bu, Loops
  <2>2. n \in Nat
    BY <1>0, ProductIsNat, Zenon
  <2> HIDE DEF n
  <2> QED BY <2>1, <2>2 DEF IsLoop
<1>11. IsLoop(assign_2d_range_range_vbu(x, ix, v))
  <2> DEFINE n == Len(ix[2].at) * Len(SetBits(ix[1].on))
  <2>1. DOMAIN assign_2d_range_range_vbu(x, ix, v) = 1..n
    BY <1>0 DEF assign_2d_range_range_vbu, Loops
  <2>2. n \in Nat
    BY <1>0, ProductIsNat, Zenon
  <2> HIDE DEF n
  <2> QED BY <2>1, <2>2 DEF IsLoop
<1>12. IsLoop(assign_2d_range_range_ub(x, ix, v))
  <2> DEFINE n == Len(SetBits(nonzero)) * Len(SetBits(ix[2].on))
  <2>1. DOMAIN assign_2d_range_range_ub(x, ix, v) = 1..n
    BY <1>0 DEF assign_2d_range_range_ub, Loops, nonzero
  <2>2. n \in Nat
    BY <1>0, ProductIsNat, Zenon
  <2> HIDE DEF n
  <2> QED BY <2>1, <2>2 DEF IsLoop
<1>13. IsLoop(assign_2d_range_range_vub(x, ix, v))
  <2> DEFINE n == Len(SetBits(ix[2].on)) * Len(ix[1].at)
  <2>1. DOMAIN assign_2d_range_range_vub(x, ix, v) = 1..n
    BY <1>0 DEF assign_2d_range_range_vub, Loops
  <2>2. n \in Nat
    BY <1>0, ProductIsNat, Zenon
  <2> HIDE DEF n
  <2> QED BY <2>1, <2>2 DEF IsLoop
<1>14. IsLoop(assign_2d_all_range(x, ix, v))
  <2> DEFINE n == Len(Chosen(ix[2])) * x.rows
  <2>1. DOMAIN assign_2d_all_range(x, ix, v) = 1..n
    BY <1>0 DEF assign_2d_all_range, Loops
  <2>2. n \in Nat
    BY <1>0, ProductIsNat, Zenon
  <2> HIDE DEF n
  <2> QED BY <2>1, <2>2 DEF IsLoop
<1>15. IsLoop(assign_2d_all_range_v(x, ix, v))
  <2> DEFINE n == Len(ix[2].at) * least_rows
  <2>1. DOMAIN assign_2d_all_range_v(x, ix, v) = 1..n
    BY <1>0 DEF assign_2d_all_range_v, Loops, least_rows
  <2>2. n \in Nat
    BY <1>0, ProductIsNat, Zenon
  <2> HIDE DEF n
  <2> QED BY <2>1, <2>2 DEF IsLoop
<1>16. IsLoop(assign_2d_all_range_vb(x, ix, v))
  <2> DEFINE n == Len(SetBits(ix[2].on)) * x.rows
  <2>1. DOMAIN assign_2d_all_range_vb(x, ix, v) = 1..n
    BY <1>0 DEF assign_2d_all_range_vb, Loops
  <2>2. n \in Nat
    BY <1>0, ProductIsNat, Zenon
  <2> HIDE DEF n
  <2> QED BY <2>1, <2>2 DEF IsLoop
<1>17. IsLoop(assign_2d_range_all(x, ix, v))
  <2> DEFINE n == x.cols * Len(ix[1].at)
  <2>1. DOMAIN assign_2d_range_all(x, ix, v) = 1..n
    BY <1>0 DEF assign_2d_range_all, Loops
  <2>2. n \in Nat
    BY <1>0, ProductIsNat, Zenon
  <2> HIDE DEF n
  <2> QED BY <2>1, <2>2 DEF IsLoop
<1>18. IsLoop(assign_2d_range_all_b(x, ix, v))
  <2> DEFINE n == x.cols * Len(SetBits(ix[1].on))
  <2>1. DOMAIN assign_2d_range_all_b(x, ix, v) = 1..n
    BY <1>0 DEF assign_2d_range_all_b, Loops
  <2>2. n \in Nat
    BY <1>0, ProductIsNat, Zenon
  <2> HIDE DEF n
  <2> QED BY <2>1, <2>2 DEF IsLoop
<1>19. IsLoop(assign_2d_range_all_v(x, ix, v))
  <2> DEFINE n == Len(ix[1].at) * least_cols
  <2>1. DOMAIN assign_2d_range_all_v(x, ix, v) = 1..n
    BY <1>0 DEF assign_2d_range_all_v, Loops, least_cols
  <2>2. n \in Nat
    BY <1>0, ProductIsNat, Zenon
  <2> HIDE DEF n
  <2> QED BY <2>1, <2>2 DEF IsLoop
<1>20. IsLoop(assign_2d_range_all_vb(x, ix, v))
  <2> DEFINE n == Len(SetBits(ix[1].on)) * x.cols
  <2>1. DOMAIN assign_2d_range_all_vb(x, ix, v) = 1..n
    BY <1>0 DEF assign_2d_range_all_vb, Loops
  <2>2. n \in Nat
    BY <1>0, ProductIsNat, Zenon
  <2> HIDE DEF n
  <2> QED BY <2>1, <2>2 DEF IsLoop
<1> QED BY <1>1, <1>2, <1>3, <1>4, <1>5, <1>6, <1>7, <1>8, <1>9, <1>10, <1>11, <1>12, <1>13, <1>14, <1>15, <1>16, <1>17, <1>18, <1>19, <1>20

-----------------------------------------------------------------------------
(* The functions that assignments build.                                   *)

WholeNames == {"assign_value", "op_assign_vs", "op_assign_vv"}

OneNames == {"assign_1d_scalar", "assign_1d_scalar_b", "assign_1d_scalar_vb", "assign_1d_all",
             "set_1d_range", "set_1d_range_vec", "set_1d_range_b", "set_1d_range_vec_b"}

TwoNames == {"assign_2d_scalar_scalar", "assign_2d_all_scalar", "assign_2d_all_vector",
             "assign_2d_scalar_all_scalar", "assign_2d_scalar_all_vector",
             "assign_2d_range_scalar", "assign_2d_range_scalar_v", "assign_2d_range_scalar_b",
             "assign_2d_range_scalar_vb", "assign_2d_scalar_range", "assign_2d_scalar_range_v",
             "assign_2d_scalar_range_b", "assign_2d_scalar_range_vb", "assign_2d_range_range",
             "assign_2d_range_range_v", "assign_2d_range_range_b", "assign_2d_range_range_vb",
             "assign_2d_range_range_bu", "assign_2d_range_range_vbu", "assign_2d_range_range_ub",
             "assign_2d_range_range_vub", "assign_2d_all_range", "assign_2d_all_range_b",
             "assign_2d_all_range_v", "assign_2d_all_range_vb", "assign_2d_range_all",
             "assign_2d_range_all_b", "assign_2d_range_all_v", "assign_2d_range_all_vb"}

(* What x[subs] = v, or x[subs] += v, may have built.                      *)
Built(f, subs) ==
  /\ f.op \in AnyOperator
  /\ f.name \in (CASE Len(subs) = 0 -> WholeNames [] Len(subs) = 1 -> OneNames [] OTHER -> TwoNames)
  /\ Len(subs) # 0 => f.ix = [i \in DOMAIN subs |-> Prepared(subs[i])]

Names(f, names, ix, op) ==
  \/ f = NoAssigns
  \/ /\ f.name \in names /\ f.ix = ix /\ f.op = op

LEMMA FamiliesBuild ==
  ASSUME NEW x, NEW v, NEW ix, NEW op
  PROVE  /\ Names(AssignScalar(x, ix, v), OneNames, ix, "=")
         /\ Names(AssignRange(x, ix, v), OneNames, ix, "=")
         /\ Names(AssignAll(x, ix, v), OneNames, ix, "=")
         /\ Names(AssignScalarScalar(x, ix, v), TwoNames, ix, "=")
         /\ Names(AssignScalarRange(x, ix, v), TwoNames, ix, "=")
         /\ Names(AssignRangeScalar(x, ix, v), TwoNames, ix, "=")
         /\ Names(AssignRangeRange(x, ix, v), TwoNames, ix, "=")
         /\ Names(AssignAllScalar(x, ix, v), TwoNames, ix, "=")
         /\ Names(AssignScalarAll(x, ix, v), TwoNames, ix, "=")
         /\ Names(AssignAllRange(x, ix, v), TwoNames, ix, "=")
         /\ Names(AssignRangeAll(x, ix, v), TwoNames, ix, "=")
         /\ Names(OpAssignRange(op, x, ix, v), OneNames, ix, op)
         /\ Names(OpAssignRangeAll(op, x, ix, v), TwoNames, ix, op)
<1>1. Names(AssignScalar(x, ix, v), OneNames, ix, "=")
  BY DEF AssignScalar, Names, OneNames, Assigns, NoAssigns
<1>2. Names(AssignRange(x, ix, v), OneNames, ix, "=")
  BY DEF AssignRange, Names, OneNames, Assigns, NoAssigns
<1>3. Names(AssignAll(x, ix, v), OneNames, ix, "=")
  BY DEF AssignAll, Names, OneNames, Assigns, NoAssigns
<1>4. Names(AssignScalarScalar(x, ix, v), TwoNames, ix, "=")
  BY DEF AssignScalarScalar, Names, TwoNames, Assigns, NoAssigns
<1>5. Names(AssignScalarRange(x, ix, v), TwoNames, ix, "=")
  BY DEF AssignScalarRange, Names, TwoNames, Assigns, NoAssigns
<1>6. Names(AssignRangeScalar(x, ix, v), TwoNames, ix, "=")
  BY DEF AssignRangeScalar, Names, TwoNames, Assigns, NoAssigns
<1>7. Names(AssignRangeRange(x, ix, v), TwoNames, ix, "=")
  BY DEF AssignRangeRange, Names, TwoNames, Assigns, NoAssigns
<1>8. Names(AssignAllScalar(x, ix, v), TwoNames, ix, "=")
  BY DEF AssignAllScalar, Names, TwoNames, Assigns, NoAssigns
<1>9. Names(AssignScalarAll(x, ix, v), TwoNames, ix, "=")
  BY DEF AssignScalarAll, Names, TwoNames, Assigns, NoAssigns
<1>10. Names(AssignAllRange(x, ix, v), TwoNames, ix, "=")
  BY DEF AssignAllRange, Names, TwoNames, Assigns, NoAssigns
<1>11. Names(AssignRangeAll(x, ix, v), TwoNames, ix, "=")
  BY DEF AssignRangeAll, Names, TwoNames, Assigns, NoAssigns
<1>12. Names(OpAssignRange(op, x, ix, v), OneNames, ix, op)
  BY DEF OpAssignRange, Names, OneNames, Assigns, NoAssigns
<1>13. Names(OpAssignRangeAll(op, x, ix, v), TwoNames, ix, op)
  BY DEF OpAssignRangeAll, Names, TwoNames, Assigns, NoAssigns
<1> QED BY <1>1, <1>2, <1>3, <1>4, <1>5, <1>6, <1>7, <1>8, <1>9, <1>10, <1>11, <1>12, <1>13

LEMMA BuiltBy ==
  ASSUME NEW x, NEW v, NEW subs \in AnySubscripts, NEW f, f # NoAssigns
  PROVE  /\ Family(subs) # <<"all", "all">> /\ f = AssignFunction(x, subs, v) => Built(f, subs)
         /\ \A op \in Operators : OpAssignable(subs) /\ f = OpAssignFunction(op, x, subs, v) => Built(f, subs)
<1> DEFINE ix == [i \in DOMAIN subs |-> Prepared(subs[i])]
           family == Family(subs)
           p == Part(subs[1])
           q == Part(subs[2])
<1>1. Len(subs) \in {0, 1, 2}
  BY SubscriptsAre
<1>2. /\ Len(subs) = 0 => family = << >>
      /\ Len(subs) = 1 => family = <<p>> /\ p \in {"scalar", "range", "all"}
      /\ Len(subs) = 2 => family = <<p, q>> /\ p \in {"scalar", "range", "all"} /\ q \in {"scalar", "range", "all"}
  BY FamilyIs
<1> HIDE DEF p, q
<1>3. ASSUME NEW op \in AnyOperator, NEW names, Names(f, names, ix, op),
             names = CASE Len(subs) = 0 -> WholeNames [] Len(subs) = 1 -> OneNames [] OTHER -> TwoNames
      PROVE  Built(f, subs)
  BY <1>3 DEF Built, Names
<1>6. Len(subs) # 0 => family # << >>
  <2>1. \A a, b : <<a>> # << >> /\ <<a, b>> # << >>
    OBVIOUS
  <2>2. Len(subs) # 0 => family = <<p>> \/ family = <<p, q>>
    BY <1>1, <1>2
  <2> QED BY <2>1, <2>2, Zenon
<1> HIDE DEF ix
<1>4. ASSUME family # <<"all", "all">>, f = AssignFunction(x, subs, v) PROVE Built(f, subs)
  <2>1. CASE Len(subs) = 0
    <3>1. f = AssignValue(x, v)
      BY <1>2, <1>4, <2>1 DEF AssignFunction
    <3>2. f.name = "assign_value" /\ f.op = "="
      BY <3>1 DEF AssignValue, Assigns
    <3> QED BY <2>1, <3>2 DEF Built, WholeNames, AnyOperator
  <2>2. CASE Len(subs) = 1
    <3>0. IsMatrix(x)
      BY <1>6, <1>4, <2>2 DEF AssignFunction
    <3>b. family = <<p>>
      BY <1>2, <2>2
    <3>1. /\ p = "scalar" => f = AssignScalar(x, ix, v)
          /\ p = "range" => f = AssignRange(x, ix, v)
          /\ p = "all" => f = AssignAll(x, ix, v)
      BY <1>4, <3>0, <3>b DEF AssignFunction, ix
    <3>2. Names(f, OneNames, ix, "=")
      BY <1>2, <2>2, <3>1, FamiliesBuild
    <3> QED BY <1>3, <2>2, <3>2 DEF AnyOperator
  <2>3. CASE Len(subs) = 2
    <3>0. IsMatrix(x)
      BY <1>6, <1>4, <2>3 DEF AssignFunction
    <3>1. /\ p = "scalar" /\ q = "scalar" => f = AssignScalarScalar(x, ix, v)
          /\ p = "scalar" /\ q = "range" => f = AssignScalarRange(x, ix, v)
          /\ p = "range" /\ q = "scalar" => f = AssignRangeScalar(x, ix, v)
          /\ p = "range" /\ q = "range" => f = AssignRangeRange(x, ix, v)
          /\ p = "all" /\ q = "scalar" => f = AssignAllScalar(x, ix, v)
          /\ p = "scalar" /\ q = "all" => f = AssignScalarAll(x, ix, v)
          /\ p = "all" /\ q = "range" => f = AssignAllRange(x, ix, v)
          /\ p = "range" /\ q = "all" => f = AssignRangeAll(x, ix, v)
      BY <1>2, <1>4, <2>3, <3>0 DEF AssignFunction, ix
    <3>2. Names(f, TwoNames, ix, "=")
      <4>1. ~(p = "all" /\ q = "all")
        BY <1>2, <1>4, <2>3
      <4> QED BY <1>2, <2>3, <3>1, <4>1, FamiliesBuild
    <3> QED BY <1>3, <2>3, <3>2 DEF AnyOperator
  <2> QED BY <1>1, <2>1, <2>2, <2>3
<1>5. ASSUME NEW op \in Operators, OpAssignable(subs), f = OpAssignFunction(op, x, subs, v)
      PROVE  Built(f, subs)
  <2>0. op \in AnyOperator
    BY DEF AnyOperator
  <2>1. CASE Len(subs) = 0
    <3>1. f = OpAssignValue(op, x, v)
      BY <1>2, <1>5, <2>1 DEF OpAssignFunction
    <3>2. f.name \in {"op_assign_vs", "op_assign_vv"} /\ f.op = op
      BY <3>1 DEF OpAssignValue, Assigns
    <3> QED BY <2>0, <2>1, <3>2 DEF Built, WholeNames
  <2>2. CASE Len(subs) = 1
    <3>0. IsMatrix(x)
      BY <1>6, <1>5, <2>2 DEF OpAssignFunction
    <3>a. p \in {"scalar", "range"}
      BY <1>2, <1>5, <2>2 DEF OpAssignable
    <3>b. family = <<p>>
      BY <1>2, <2>2
    <3>1. /\ p = "scalar" => f = AssignScalar(x, ix, v)
          /\ p = "range" => f = OpAssignRange(op, x, ix, v)
      BY <1>5, <3>0, <3>b DEF OpAssignFunction, ix
    <3>2. Names(f, OneNames, ix, "=") \/ Names(f, OneNames, ix, op)
      BY <3>a, <3>1, FamiliesBuild
    <3> QED BY <1>3, <2>0, <2>2, <3>2 DEF AnyOperator
  <2>3. CASE Len(subs) = 2
    <3>0. IsMatrix(x)
      BY <1>6, <1>5, <2>3 DEF OpAssignFunction
    <3>b. family = <<p, q>>
      BY <1>2, <2>3
    <3>a. p \in {"scalar", "range"} /\ q = "all"
      <4>1. \A a, b : <<a, b>> # << >>
        OBVIOUS
      <4>2. \A a, b, c : <<a, b>> # <<c>>
        OBVIOUS
      <4>3. \A a, b, c, d : <<a, b>> = <<c, d>> => a = c /\ b = d
        OBVIOUS
      <4>4. <<p, q>> \in {<<"scalar", "all">>, <<"range", "all">>}
        BY <1>5, <3>b, <4>1, <4>2, Zenon DEF OpAssignable
      <4> QED BY <4>3, <4>4, Zenon
    <3>1. /\ p = "scalar" => f = AssignScalarAll(x, ix, v)
          /\ p = "range" => f = OpAssignRangeAll(op, x, ix, v)
      BY <1>5, <3>0, <3>a, <3>b DEF OpAssignFunction, ix
    <3>2. Names(f, TwoNames, ix, "=") \/ Names(f, TwoNames, ix, op)
      BY <3>a, <3>1, FamiliesBuild
    <3> QED BY <1>3, <2>0, <2>3, <3>2 DEF AnyOperator
  <2> QED BY <1>1, <2>1, <2>2, <2>3
<1> QED BY <1>4, <1>5

LEMMA PreparedIsIndex ==
  ASSUME NEW t \in AnySubscript
  PROVE  IsIndex(Prepared(t))
BY PreparedIs DEF Prepares, IsIndex

LEMMA BuiltLoops ==
  ASSUME NEW x \in AnyValue, NEW v \in AnyValue, NEW subs \in AnySubscripts, NEW f, Built(f, subs),
         f.name # "assign_value"
  PROVE  IsLoop(AssignMoves(f, x, v))
<1>1. Len(subs) \in {0, 1, 2} /\ DOMAIN subs = 1..Len(subs)
      /\ \A i \in 1..Len(subs) : subs[i] \in AnySubscript
  BY SubscriptsAre
<1>2. CASE Len(subs) = 0
  <2>1. f.name \in {"op_assign_vs", "op_assign_vv"}
    BY <1>2 DEF Built, WholeNames
  <2>2. AssignMoves(f, x, v) = op_assign_whole(x, v)
    BY <2>1, MovesAre
  <2> QED BY <2>2, WholeLoops
<1>3. CASE Len(subs) = 1
  <2>1. f.name \in OneNames /\ f.ix = [i \in DOMAIN subs |-> Prepared(subs[i])]
    BY <1>3 DEF Built
  <2>2. IsIndex(f.ix[1])
    BY <1>1, <1>3, <2>1, PreparedIsIndex
  <2>3. \/ AssignMoves(f, x, v) = assign_1d_scalar(x, f.ix, v)
        \/ AssignMoves(f, x, v) = assign_1d_scalar_b(x, f.ix, v)
        \/ AssignMoves(f, x, v) = assign_1d_scalar_vb(x, f.ix, v)
        \/ AssignMoves(f, x, v) = assign_1d_all(x, v)
        \/ AssignMoves(f, x, v) = set_1d_range(x, f.ix, v)
        \/ AssignMoves(f, x, v) = set_1d_range_b(x, f.ix, v)
    BY <2>1, MovesAre DEF OneNames
  <2> QED BY <2>2, <2>3, OneLoops, WholeLoops
<1>4. CASE Len(subs) = 2
  <2>1. f.name \in TwoNames /\ f.ix = [i \in DOMAIN subs |-> Prepared(subs[i])]
    BY <1>4 DEF Built
  <2>2. IsIndex(f.ix[1]) /\ IsIndex(f.ix[2])
    <3>1. \A i \in 1..2 : f.ix[i] = Prepared(subs[i]) /\ subs[i] \in AnySubscript
      BY <1>1, <1>4, <2>1
    <3> QED BY <3>1, PreparedIsIndex
  <2>3. \/ AssignMoves(f, x, v) = assign_2d_scalar_scalar(x, f.ix, v)
        \/ AssignMoves(f, x, v) = assign_2d_all_scalar(x, f.ix, v)
        \/ AssignMoves(f, x, v) = assign_2d_scalar_all(x, f.ix, v)
        \/ AssignMoves(f, x, v) = assign_2d_range_scalar(x, f.ix, v)
        \/ AssignMoves(f, x, v) = assign_2d_range_scalar_b(x, f.ix, v)
        \/ AssignMoves(f, x, v) = assign_2d_scalar_range(x, f.ix, v)
        \/ AssignMoves(f, x, v) = assign_2d_scalar_range_b(x, f.ix, v)
        \/ AssignMoves(f, x, v) = assign_2d_range_range(x, f.ix, v)
        \/ AssignMoves(f, x, v) = assign_2d_range_range_b(x, f.ix, v)
        \/ AssignMoves(f, x, v) = assign_2d_range_range_bu(x, f.ix, v)
        \/ AssignMoves(f, x, v) = assign_2d_range_range_vbu(x, f.ix, v)
        \/ AssignMoves(f, x, v) = assign_2d_range_range_ub(x, f.ix, v)
        \/ AssignMoves(f, x, v) = assign_2d_range_range_vub(x, f.ix, v)
        \/ AssignMoves(f, x, v) = assign_2d_all_range(x, f.ix, v)
        \/ AssignMoves(f, x, v) = assign_2d_all_range_v(x, f.ix, v)
        \/ AssignMoves(f, x, v) = assign_2d_all_range_vb(x, f.ix, v)
        \/ AssignMoves(f, x, v) = assign_2d_range_all(x, f.ix, v)
        \/ AssignMoves(f, x, v) = assign_2d_range_all_b(x, f.ix, v)
        \/ AssignMoves(f, x, v) = assign_2d_range_all_v(x, f.ix, v)
        \/ AssignMoves(f, x, v) = assign_2d_range_all_vb(x, f.ix, v)
    <3>1. /\ f.name = "assign_2d_range_range_ub" => AssignMoves(f, x, v) = assign_2d_range_range_ub(x, f.ix, v)
          /\ f.name = "assign_2d_range_all_b" => AssignMoves(f, x, v) = assign_2d_range_all_b(x, f.ix, v)
      BY DEF AssignMoves
    <3> QED BY <2>1, <3>1, MovesAre DEF TwoNames
  <2> QED BY <2>2, <2>3, TwoLoops
<1> QED BY <1>1, <1>2, <1>3, <1>4

(* What an assignment that does not panic leaves of the variable.          *)
LEMMA AssignSolvedIs ==
  ASSUME NEW x \in AnyValue, NEW v \in AnyValue, NEW subs \in AnySubscripts, NEW f, Built(f, subs),
         ~AssignPanics(f, x, v), NEW itself \in BOOLEAN, itself => v = x
  PROVE  /\ AssignSolved(f, x, v, itself) \in AnyValue
         /\ f.name = "assign_value" => AssignSolved(f, x, v, itself) = v
         /\ f.name # "assign_value" => WritesOnly(x, AssignSolved(f, x, v, itself), AssignMoves(f, x, v))
<1> DEFINE y == AssignSolved(f, x, v, itself)
           moves == AssignMoves(f, x, v)
<1>1. CASE f.name = "assign_value"
  <2>1. y = v
    BY <1>1 DEF AssignSolved
  <2> QED BY <1>1, <2>1
<1>2. CASE f.name # "assign_value"
  <2>1. PICK n \in Nat : DOMAIN moves = 1..n
    BY <1>2, BuiltLoops DEF IsLoop
  <2>2. InRange(moves, n, x, v)
    BY <2>1 DEF AssignPanics, Panics, InRange
  <2>3. f.op \in AnyOperator /\ x \in AnyResult /\ v \in AnyResult
    BY ValueIsResult DEF Built
  <2>4. y = IF itself THEN MovedWithin(f.op, moves, x) ELSE Moved(f.op, moves, x, v)
    BY <1>2 DEF AssignSolved
  <2> HIDE DEF moves, y
  <2>5. WritesOnly(x, y, moves)
    <3>1. CASE itself
      <4>1. InRange(moves, n, x, x)
        BY <2>2, <3>1
      <4> QED BY <2>1, <2>3, <2>4, <3>1, <4>1, WithinWritesOnly
    <3>2. CASE ~itself
      BY <2>1, <2>2, <2>3, <2>4, <3>2, MovedWritesOnly
    <3> QED BY <3>1, <3>2
  <2>6. y \in AnyValue
    <3>1. Size(x) > 0
      BY ValueIsResult
    <3> QED BY <2>5, <3>1 DEF WritesOnly, KeepsForm, AnyValue
  <2> QED BY <1>2, <2>5, <2>6 DEF y, moves
<1> QED BY <1>1, <1>2

-----------------------------------------------------------------------------
(* The functions that reads build.                                         *)

LEMMA InBoundsIs ==
  ASSUME NEW x \in AnyValue, NEW subs \in AnySubscripts \ {<< >>}, InBounds(x, subs)
  PROVE  /\ \A r \in 1..Len(RowsOf(x, subs)), c \in 1..Len(ColsOf(x, subs)) :
              Place(x, subs, r, c) # Outside /\ Place(x, subs, r, c) \in 1..Size(x)
         /\ \A i \in 1..Len(subs) :
              Prepared(subs[i]).kind = "mask" =>
                Len(Prepared(subs[i]).on) = IF Len(subs) = 1 THEN Size(x)
                                            ELSE IF i = 1 THEN x.rows ELSE x.cols
<1> DEFINE rows == RowsOf(x, subs)
           cols == ColsOf(x, subs)
<1>1. /\ Len(subs) \in {1, 2} /\ \A i \in 1..Len(subs) : subs[i] \in AnySubscript
  BY SubscriptsAre
<1>2. rows \in Seq(Int) /\ cols \in Seq(Int)
  <2>1. CASE Len(subs) = 1
    <3>1. rows \in Seq(Int) /\ cols = <<1>>
      BY <2>1, OneSelects
    <3> QED BY <3>1
  <2>2. CASE Len(subs) = 2
    BY <2>2, TwoSelects
  <2> QED BY <1>1, <2>1, <2>2
<1>3. \A s \in Seq(Int) : \A i \in 1..Len(s) : s[i] \in ToSet(s)
  BY DEF ToSet
<1>4. ASSUME NEW r \in 1..Len(rows), NEW c \in 1..Len(cols)
      PROVE  Place(x, subs, r, c) # Outside /\ Place(x, subs, r, c) \in 1..Size(x)
  <2>1. rows[r] \in ToSet(rows) /\ cols[c] \in ToSet(cols)
    BY <1>2, <1>3
  <2>2. Place(x, subs, r, c) # Outside
    <3> HIDE DEF rows, cols
    <3>1. PositionOf(x, subs, rows[r], cols[c]) # Outside
      BY <2>1 DEF InBounds, rows, cols
    <3> QED BY <3>1 DEF Place, rows, cols
  <2>3. /\ x.rows \in Nat /\ x.cols \in Nat /\ Size(x) = x.rows * x.cols
    BY ValueIsResult
  <2>4. PositionOf(x, subs, rows[r], cols[c]) \in 1..Size(x) \cup {Outside}
    <3> DEFINE a == rows[r]
               b == cols[c]
    <3> HIDE DEF a, b
    <3>1. Index1d(x, a) \in 1..Size(x) \cup {Outside}
      BY DEF Index1d
    <3>2. Index2d(x, a, b) \in 1..Size(x) \cup {Outside}
      <4>1. CASE a \in 1..x.rows /\ b \in 1..x.cols
        <5>1. (b - 1) * x.rows + a \in 1..(x.cols * x.rows)
          BY <2>3, <4>1, BlockIndex
        <5>2. x.cols * x.rows = Size(x)
          BY <2>3
        <5> QED BY <4>1, <5>1, <5>2 DEF Index2d
      <4>2. CASE ~(a \in 1..x.rows /\ b \in 1..x.cols)
        BY <4>2 DEF Index2d
      <4> QED BY <4>1, <4>2
    <3>3. PositionOf(x, subs, a, b) \in 1..Size(x) \cup {Outside}
      BY <3>1, <3>2 DEF PositionOf
    <3> QED BY <3>3 DEF a, b
  <2> QED BY <2>2, <2>4 DEF Place
<1>5. ASSUME NEW i \in 1..Len(subs), Prepared(subs[i]).kind = "mask"
      PROVE  Len(Prepared(subs[i]).on) = IF Len(subs) = 1 THEN Size(x)
                                         ELSE IF i = 1 THEN x.rows ELSE x.cols
  <2>1. /\ subs[i].syntax = "formula" /\ Len(Prepared(subs[i]).on) = Size(subs[i].value)
        /\ AsIndex(subs[i].value).kind = "mask"
    BY <1>1, <1>5, PreparedIs DEF Prepares
  <2>2. /\ i = 1 => Size(subs[1].value) = IF Len(subs) = 1 THEN Size(x) ELSE x.rows
        /\ i = 2 => Size(subs[2].value) = x.cols
    BY <1>1, <2>1 DEF InBounds, MaskIn
  <2> QED BY <1>1, <2>1, <2>2
<1> QED BY <1>4, <1>5

(* A new result, and one that changes its number of rows or of columns.    *)
Shaped(y, form, r, c) ==
  y \in AnyResult /\ y.form = form /\ y.rows = r /\ y.cols = c /\ Size(y) = r * c

LEMMA FilledIs ==
  ASSUME NEW form \in {"scalar", "row", "col", "mat"}, NEW r \in Nat, NEW c \in Nat, NEW d \in Int,
         form \in {"scalar", "row"} => r = 1, form \in {"scalar", "col"} => c = 1
  PROVE  Shaped(Filled(form, r, c, d), form, r, c)
<1> DEFINE n == r * c
           s == [i \in 1..n |-> d]
           y == Filled(form, r, c, d)
<1>1. n \in Nat
  BY ProductIsNat, Zenon
<1> HIDE DEF n
<1>2. s \in Seq(Int) /\ Len(s) = n
  BY <1>1
<1>3. /\ y.type = "num" /\ y.form = form /\ y.rows = r /\ y.cols = c /\ y.elems = s
      /\ y = [type |-> "num", form |-> form, rows |-> r, cols |-> c, elems |-> s]
  BY DEF Filled, Value, n
<1> HIDE DEF s, y
<1>4. Size(y) = n
  BY <1>2, <1>3 DEF Size
<1>5. y \in [type : {"num", "bool"}, form : {"scalar", "row", "col", "mat"},
             rows : Nat, cols : Nat, elems : Seq(Int)]
  BY <1>2, <1>3
<1> QED BY <1>3, <1>4, <1>5 DEF Shaped, AnyResult, n, y

LEMMA ResizedIs ==
  ASSUME NEW v \in AnyResult, Size(v) > 0, NEW r \in Nat, NEW c \in Nat,
         v.form \in {"scalar", "row"} => r = 1, v.form \in {"scalar", "col"} => c = 1
  PROVE  Shaped(Resized(v, r, c), v.form, r, c)
<1> DEFINE n == r * c
           at(k) == LET i == ((k - 1) % r) + 1
                        j == ((k - 1) \div r) + 1
                    IN  IF i <= v.rows /\ j <= v.cols THEN v.elems[(j - 1) * v.rows + i] ELSE v.elems[1]
           s == [k \in 1..n |-> at(k)]
           y == Resized(v, r, c)
<1>1. n \in Nat /\ n = c * r
  BY ProductIsNat
<1>2. /\ v.elems \in [1..Size(v) -> Int] /\ Size(v) \in Nat /\ v.rows \in Nat /\ v.cols \in Nat
      /\ Size(v) = v.rows * v.cols
      /\ v \in [type : {"num", "bool"}, form : {"scalar", "row", "col", "mat"},
                rows : Nat, cols : Nat, elems : Seq(Int)]
  BY ResultElems DEF AnyResult
<1>3. ASSUME NEW k \in 1..n PROVE at(k) \in Int
  <2> DEFINE i == ((k - 1) % r) + 1
             j == ((k - 1) \div r) + 1
  <2>1. j \in 1..c /\ i \in 1..r
    BY <1>1, LoopsIndex
  <2> HIDE DEF i, j
  <2>2. ASSUME i <= v.rows, j <= v.cols PROVE v.elems[(j - 1) * v.rows + i] \in Int
    <3>0. j \in 1..v.cols /\ i \in 1..v.rows
      BY <1>2, <2>1, <2>2
    <3>1. (j - 1) * v.rows + i \in 1..(v.cols * v.rows)
      BY <1>2, <3>0, BlockIndex
    <3>2. v.cols * v.rows = Size(v)
      BY <1>2
    <3> QED BY <1>2, <3>1, <3>2
  <2>3. v.elems[1] \in Int
    BY <1>2
  <2>4. at(k) = IF i <= v.rows /\ j <= v.cols THEN v.elems[(j - 1) * v.rows + i] ELSE v.elems[1]
    BY DEF i, j
  <2> HIDE DEF at
  <2> QED BY <2>2, <2>3, <2>4
<1> HIDE DEF n, at
<1>4. s \in Seq(Int) /\ Len(s) = n
  BY <1>1, <1>3
<1>5. y = [v EXCEPT !.rows = r, !.cols = c, !.elems = s]
  BY DEF Resized, n, at
<1> HIDE DEF s, y
<1>6. /\ y \in [type : {"num", "bool"}, form : {"scalar", "row", "col", "mat"},
                rows : Nat, cols : Nat, elems : Seq(Int)]
      /\ y.form = v.form /\ y.rows = r /\ y.cols = c /\ y.elems = s
  BY <1>2, <1>4, <1>5
<1>7. Size(y) = n
  BY <1>4, <1>6 DEF Size
<1> QED BY <1>6, <1>7 DEF Shaped, AnyResult, n, y

LEMMA MaskWithinIs ==
  ASSUME NEW on \in Seq(BOOLEAN), NEW n \in Nat
  PROVE  /\ Len(MaskWithin(on, n)) \in Nat
         /\ Len(on) = n => MaskWithin(on, n) = SetBits(on)
<1> DEFINE m == [i \in 1..n |-> i \notin DOMAIN on \/ on[i]]
<1>1. DOMAIN on = 1..Len(on) /\ Len(on) \in Nat /\ \A i \in 1..Len(on) : on[i] \in BOOLEAN
  OBVIOUS
<1>2. m \in [1..n -> BOOLEAN]
  OBVIOUS
<1>3. Len(on) = n => m = on
  <2> SUFFICES ASSUME Len(on) = n PROVE m = on
    OBVIOUS
  <2>1. on = [i \in 1..n |-> on[i]]
    BY <1>1
  <2>2. \A i \in 1..n : (i \notin DOMAIN on \/ on[i]) = on[i]
    BY <1>1
  <2> QED BY <2>1, <2>2
<1>4. MaskWithin(on, n) = SetBits(m)
  BY DEF MaskWithin
<1> HIDE DEF m
<1>5. m \in Seq(BOOLEAN)
  BY <1>2
<1>6. SetBits(m) \in Seq(Nat)
  BY <1>5, MaskLists DEF Lists
<1>7. \A q \in Seq(Nat) : Len(q) \in Nat
  OBVIOUS
<1>8. Len(MaskWithin(on, n)) \in Nat
  BY <1>4, <1>6, <1>7, Zenon
<1> QED BY <1>3, <1>4, <1>8

LEMMA AccessMovesAre ==
  ASSUME NEW f, NEW x
  PROVE  /\ f.name = "Access1DS" => AccessMoves(f, x) = access_1d(x, f.ix)
         /\ f.name = "Access2DSS" => AccessMoves(f, x) = access_2d(x, f.ix)
         /\ f.name = "Access1DVD" => AccessMoves(f, x) = access_1d_slice(x, f.ix)
         /\ f.name = "Access1DVDb" => AccessMoves(f, x) = access_1d_slice_bool_v(x, f.ix)
         /\ f.name = "Access1DA" => AccessMoves(f, x) = access_1d_all(x, f.ix)
         /\ f.name = "Access2DAS" => AccessMoves(f, x) = access_col(x, f.ix)
         /\ f.name = "Access2DSA" => AccessMoves(f, x) = access_row(x, f.ix)
         /\ f.name = "Access2DVDA" => AccessMoves(f, x) = access_2d_slice_all(x, f.ix)
         /\ f.name = "Access2DVDbA" => AccessMoves(f, x) = access_2d_slice_all_bool(x, f.ix)
         /\ f.name = "Access2DSVD" => AccessMoves(f, x) = access_2d_row_slice(x, f.ix)
         /\ f.name = "Access2DVDS" => AccessMoves(f, x) = access_2d_col_slice(x, f.ix)
         /\ f.name = "Access2DRR" => AccessMoves(f, x) = access_2d_range_range(x, f.ix, f.out)
         /\ f.name = "Access2DAR" => AccessMoves(f, x) = access_2d_all_range(x, f.ix, f.out)
<1>1. f.name = "Access1DS" => AccessMoves(f, x) = access_1d(x, f.ix)
  BY DEF AccessMoves
<1>2. f.name = "Access2DSS" => AccessMoves(f, x) = access_2d(x, f.ix)
  BY DEF AccessMoves
<1>3. f.name = "Access1DVD" => AccessMoves(f, x) = access_1d_slice(x, f.ix)
  BY DEF AccessMoves
<1>4. f.name = "Access1DVDb" => AccessMoves(f, x) = access_1d_slice_bool_v(x, f.ix)
  BY DEF AccessMoves
<1>5. f.name = "Access1DA" => AccessMoves(f, x) = access_1d_all(x, f.ix)
  BY DEF AccessMoves
<1>6. f.name = "Access2DAS" => AccessMoves(f, x) = access_col(x, f.ix)
  BY DEF AccessMoves
<1>7. f.name = "Access2DSA" => AccessMoves(f, x) = access_row(x, f.ix)
  BY DEF AccessMoves
<1>8. f.name = "Access2DVDA" => AccessMoves(f, x) = access_2d_slice_all(x, f.ix)
  BY DEF AccessMoves
<1>9. f.name = "Access2DVDbA" => AccessMoves(f, x) = access_2d_slice_all_bool(x, f.ix)
  BY DEF AccessMoves
<1>10. f.name = "Access2DSVD" => AccessMoves(f, x) = access_2d_row_slice(x, f.ix)
  BY DEF AccessMoves
<1>11. f.name = "Access2DVDS" => AccessMoves(f, x) = access_2d_col_slice(x, f.ix)
  BY DEF AccessMoves
<1>12. f.name = "Access2DRR" => AccessMoves(f, x) = access_2d_range_range(x, f.ix, f.out)
  BY DEF AccessMoves
<1>13. f.name = "Access2DAR" => AccessMoves(f, x) = access_2d_all_range(x, f.ix, f.out)
  BY DEF AccessMoves
<1> QED BY <1>1, <1>2, <1>3, <1>4, <1>5, <1>6, <1>7, <1>8, <1>9, <1>10, <1>11, <1>12, <1>13

OneReads == {"Access1DS", "Access1DVD", "Access1DVDb", "Access1DA"}
TwoReads == {"Access2DSS", "Access2DAS", "Access2DSA", "Access2DVDA", "Access2DVDbA",
             "Access2DSVD", "Access2DVDS", "Access2DRR", "Access2DAR"}

(* What x[subs] may have built.                                            *)
ReadBuilt(f, subs) ==
  /\ f.ix = [i \in DOMAIN subs |-> Prepared(subs[i])]
  /\ \/ Len(subs) = 1 /\ f.name \in OneReads
     \/ Len(subs) = 2 /\ f.name \in TwoReads

LEMMA AccessLoops ==
  ASSUME NEW x \in AnyValue, NEW subs \in AnySubscripts, NEW f, ReadBuilt(f, subs),
         AccessSink(f) \in AnyResult
  PROVE  IsLoop(AccessMoves(f, x))
<1> DEFINE within1 == MaskWithin(f.ix[1].on, Size(x))
           within2 == MaskWithin(f.ix[2].on, x.cols)
           cols == IF f.ix[2].kind = "many" THEN f.ix[2].at ELSE within2
           least == Min({x.rows, f.out.rows})
<1>1. /\ DOMAIN subs = 1..Len(subs) /\ \A i \in 1..Len(subs) : subs[i] \in AnySubscript
      /\ Len(subs) \in {1, 2} /\ 1 \in 1..Len(subs)
  BY SubscriptsAre DEF ReadBuilt
<1>2. /\ IsIndex(f.ix[1])
      /\ Len(subs) = 2 => IsIndex(f.ix[2])
  <2>1. \A i \in 1..Len(subs) : f.ix[i] = Prepared(subs[i]) /\ subs[i] \in AnySubscript
    BY <1>1 DEF ReadBuilt
  <2> QED BY <1>1, <2>1, PreparedIsIndex
<1>3. Size(x) \in Nat /\ x.rows \in Nat /\ x.cols \in Nat
  BY ValueIsResult
<1>4. f.name = "Access2DAR" => least \in Nat
  <2>1. f.name = "Access2DAR" => AccessSink(f) = f.out
    BY DEF AccessSink
  <2>2. f.name = "Access2DAR" => f.out.rows \in Nat
    BY <2>1, ResultElems
  <2> QED BY <1>3, <2>2, MinIs
<1>5. /\ Len(f.ix[1].at) \in Nat /\ Len(SetBits(f.ix[1].on)) \in Nat /\ Len(Chosen(f.ix[1])) \in Nat
      /\ Len(within1) \in Nat
  BY <1>2, <1>3, IndexLengths, MaskWithinIs DEF IsIndex
<1>6. ASSUME Len(subs) = 2
      PROVE  Len(Chosen(f.ix[2])) \in Nat /\ Len(cols) \in Nat
  BY <1>2, <1>3, <1>6, IndexLengths, MaskWithinIs DEF IsIndex
<1> HIDE DEF within1, cols, least
<1>7. ASSUME f.name = "Access1DS" PROVE IsLoop(AccessMoves(f, x))
  <2> DEFINE n == 1
  <2>1. DOMAIN access_1d(x, f.ix) = 1..n
    BY <1>3, <1>4, <1>5 DEF access_1d, Loop
  <2>2. n \in Nat
    BY <1>3, <1>4, <1>5
  <2> HIDE DEF n
  <2> QED BY <1>7, <2>1, <2>2, AccessMovesAre DEF IsLoop
<1>8. ASSUME f.name = "Access2DSS", Len(subs) = 2 PROVE IsLoop(AccessMoves(f, x))
  <2> DEFINE n == 1
  <2>1. DOMAIN access_2d(x, f.ix) = 1..n
    BY <1>3, <1>4, <1>5, <1>6 DEF access_2d, Loop
  <2>2. n \in Nat
    BY <1>3, <1>4, <1>5, <1>6, <1>8
  <2> HIDE DEF n
  <2> QED BY <1>8, <2>1, <2>2, AccessMovesAre DEF IsLoop
<1>9. ASSUME f.name = "Access1DVD" PROVE IsLoop(AccessMoves(f, x))
  <2> DEFINE n == Len(f.ix[1].at)
  <2>1. DOMAIN access_1d_slice(x, f.ix) = 1..n
    BY <1>3, <1>4, <1>5 DEF access_1d_slice, Loop
  <2>2. n \in Nat
    BY <1>3, <1>4, <1>5
  <2> HIDE DEF n
  <2> QED BY <1>9, <2>1, <2>2, AccessMovesAre DEF IsLoop
<1>10. ASSUME f.name = "Access1DVDb" PROVE IsLoop(AccessMoves(f, x))
  <2> DEFINE n == Len(within1)
  <2>1. DOMAIN access_1d_slice_bool_v(x, f.ix) = 1..n
    BY <1>3, <1>4, <1>5 DEF access_1d_slice_bool_v, Loop, within1
  <2>2. n \in Nat
    BY <1>3, <1>4, <1>5
  <2> HIDE DEF n
  <2> QED BY <1>10, <2>1, <2>2, AccessMovesAre DEF IsLoop
<1>11. ASSUME f.name = "Access1DA" PROVE IsLoop(AccessMoves(f, x))
  <2> DEFINE n == Size(x)
  <2>1. DOMAIN access_1d_all(x, f.ix) = 1..n
    BY <1>3, <1>4, <1>5 DEF access_1d_all, Loop
  <2>2. n \in Nat
    BY <1>3, <1>4, <1>5
  <2> HIDE DEF n
  <2> QED BY <1>11, <2>1, <2>2, AccessMovesAre DEF IsLoop
<1>12. ASSUME f.name = "Access2DAS", Len(subs) = 2 PROVE IsLoop(AccessMoves(f, x))
  <2> DEFINE n == x.rows
  <2>1. DOMAIN access_col(x, f.ix) = 1..n
    BY <1>3, <1>4, <1>5, <1>6 DEF access_col, Loop
  <2>2. n \in Nat
    BY <1>3, <1>4, <1>5, <1>6, <1>12
  <2> HIDE DEF n
  <2> QED BY <1>12, <2>1, <2>2, AccessMovesAre DEF IsLoop
<1>13. ASSUME f.name = "Access2DSA", Len(subs) = 2 PROVE IsLoop(AccessMoves(f, x))
  <2> DEFINE n == x.cols
  <2>1. DOMAIN access_row(x, f.ix) = 1..n
    BY <1>3, <1>4, <1>5, <1>6 DEF access_row, Loop
  <2>2. n \in Nat
    BY <1>3, <1>4, <1>5, <1>6, <1>13
  <2> HIDE DEF n
  <2> QED BY <1>13, <2>1, <2>2, AccessMovesAre DEF IsLoop
<1>14. ASSUME f.name = "Access2DVDA", Len(subs) = 2 PROVE IsLoop(AccessMoves(f, x))
  <2> DEFINE n == x.cols * Len(f.ix[1].at)
  <2>1. DOMAIN access_2d_slice_all(x, f.ix) = 1..n
    BY <1>3, <1>4, <1>5, <1>6 DEF access_2d_slice_all, Loops
  <2>2. n \in Nat
    BY <1>3, <1>4, <1>5, <1>6, <1>14, ProductIsNat, Zenon
  <2> HIDE DEF n
  <2> QED BY <1>14, <2>1, <2>2, AccessMovesAre DEF IsLoop
<1>15. ASSUME f.name = "Access2DVDbA", Len(subs) = 2 PROVE IsLoop(AccessMoves(f, x))
  <2> DEFINE n == Len(SetBits(f.ix[1].on)) * x.cols
  <2>1. DOMAIN access_2d_slice_all_bool(x, f.ix) = 1..n
    BY <1>3, <1>4, <1>5, <1>6 DEF access_2d_slice_all_bool, Loops
  <2>2. n \in Nat
    BY <1>3, <1>4, <1>5, <1>6, <1>15, ProductIsNat, Zenon
  <2> HIDE DEF n
  <2> QED BY <1>15, <2>1, <2>2, AccessMovesAre DEF IsLoop
<1>16. ASSUME f.name = "Access2DSVD", Len(subs) = 2 PROVE IsLoop(AccessMoves(f, x))
  <2> DEFINE n == Len(Chosen(f.ix[2]))
  <2>1. DOMAIN access_2d_row_slice(x, f.ix) = 1..n
    BY <1>3, <1>4, <1>5, <1>6 DEF access_2d_row_slice, Loop
  <2>2. n \in Nat
    BY <1>3, <1>4, <1>5, <1>6, <1>16
  <2> HIDE DEF n
  <2> QED BY <1>16, <2>1, <2>2, AccessMovesAre DEF IsLoop
<1>17. ASSUME f.name = "Access2DVDS", Len(subs) = 2 PROVE IsLoop(AccessMoves(f, x))
  <2> DEFINE n == Len(Chosen(f.ix[1]))
  <2>1. DOMAIN access_2d_col_slice(x, f.ix) = 1..n
    BY <1>3, <1>4, <1>5, <1>6 DEF access_2d_col_slice, Loop
  <2>2. n \in Nat
    BY <1>3, <1>4, <1>5, <1>6, <1>17
  <2> HIDE DEF n
  <2> QED BY <1>17, <2>1, <2>2, AccessMovesAre DEF IsLoop
<1>18. ASSUME f.name = "Access2DRR", Len(subs) = 2 PROVE IsLoop(AccessMoves(f, x))
  <2> DEFINE n == Len(Chosen(f.ix[1])) * Len(Chosen(f.ix[2]))
  <2>1. DOMAIN access_2d_range_range(x, f.ix, f.out) = 1..n
    BY <1>3, <1>4, <1>5, <1>6 DEF access_2d_range_range, Loops
  <2>2. n \in Nat
    BY <1>3, <1>4, <1>5, <1>6, <1>18, ProductIsNat, Zenon
  <2> HIDE DEF n
  <2> QED BY <1>18, <2>1, <2>2, AccessMovesAre DEF IsLoop
<1>19. ASSUME f.name = "Access2DAR", Len(subs) = 2 PROVE IsLoop(AccessMoves(f, x))
  <2> DEFINE n == Len(cols) * least
  <2>1. DOMAIN access_2d_all_range(x, f.ix, f.out) = 1..n
    BY <1>3, <1>4, <1>5, <1>6 DEF access_2d_all_range, Loops, cols, least
  <2>2. n \in Nat
    BY <1>3, <1>4, <1>5, <1>6, <1>19, ProductIsNat, Zenon
  <2> HIDE DEF n
  <2> QED BY <1>19, <2>1, <2>2, AccessMovesAre DEF IsLoop
<1> QED BY <1>1, <1>7, <1>8, <1>9, <1>10, <1>11, <1>12, <1>13, <1>14, <1>15, <1>16, <1>17, <1>18, <1>19 DEF ReadBuilt, OneReads, TwoReads

(* What the sink of a mask was resized to.                                 *)
SinkIs(f, z) ==
  /\ f.name \in {"Access1DVDb", "Access2DVDbA"} => z.rows = Len(SetBits(f.ix[1].on))
  /\ f.name = "Access2DVDS" => z.rows = Len(Chosen(f.ix[1]))
  /\ f.name = "Access2DSVD" => z.cols = Len(Chosen(f.ix[2]))

(* Every element of the result z is copied to, from the place it stands    *)
(* for: that of row r and column c of what is selected, column by column.  *)
ReadsAll(moves, x, subs, z) ==
  LET R == Len(RowsOf(x, subs))
      C == Len(ColsOf(x, subs))
  IN  /\ Size(z) = C * R
      /\ \A k \in DOMAIN moves : \E r \in 1..R, c \in 1..C :
           moves[k].to = (c - 1) * R + r /\ moves[k].from = Place(x, subs, r, c)
      /\ \A r \in 1..R, c \in 1..C : \E k \in DOMAIN moves : moves[k].to = (c - 1) * R + r

(* A read that was built: its sink, and where it copies from and to if the *)
(* subscripts are within the variable.                                     *)
ReadsFrom(f, x, subs) ==
  /\ ReadBuilt(f, subs) /\ AccessSink(f) \in AnyResult /\ SinkIs(f, AccessSink(f))
  /\ InBounds(x, subs) =>
       \A k \in DOMAIN AccessMoves(f, x) :
         AccessMoves(f, x)[k].to \in 1..Size(AccessSink(f)) /\ AccessMoves(f, x)[k].from \in 1..Size(x)
  /\ InBounds(x, subs) /\ ~ScramblesRows(f) => ReadsAll(AccessMoves(f, x), x, subs, AccessSink(f))

(* Loops that copy so: along a column, along a row, column by column, and  *)
(* row by row.                                                             *)
LEMMA FillsColumn ==
  ASSUME NEW moves, NEW x, NEW subs, NEW z, NEW R, R = Len(RowsOf(x, subs)), R \in Nat,
         Len(ColsOf(x, subs)) = 1, Size(z) = R, DOMAIN moves = 1..R,
         \A k \in 1..R : moves[k].to = k /\ moves[k].from = Place(x, subs, k, 1)
  PROVE  ReadsAll(moves, x, subs, z)
<1>1. (1 - 1) * R = 0 /\ 1 * R = R /\ 1 \in 1..1 /\ \A c \in 1..1 : c = 1
  OBVIOUS
<1>2. \A k \in 1..R : (1 - 1) * R + k = k
  BY <1>1
<1> QED BY <1>1, <1>2 DEF ReadsAll

LEMMA FillsRow ==
  ASSUME NEW moves, NEW x, NEW subs, NEW z, NEW C, C = Len(ColsOf(x, subs)), C \in Nat,
         Len(RowsOf(x, subs)) = 1, Size(z) = C, DOMAIN moves = 1..C,
         \A k \in 1..C : moves[k].to = k /\ moves[k].from = Place(x, subs, 1, k)
  PROVE  ReadsAll(moves, x, subs, z)
<1>1. C * 1 = C /\ 1 \in 1..1 /\ \A r \in 1..1 : r = 1
  OBVIOUS
<1>2. \A k \in 1..C : (k - 1) * 1 + 1 = k
  OBVIOUS
<1> QED BY <1>1, <1>2 DEF ReadsAll

LEMMA FillsByColumns ==
  ASSUME NEW moves, NEW x, NEW subs, NEW z,
         NEW R, R = Len(RowsOf(x, subs)), R \in Nat, NEW C, C = Len(ColsOf(x, subs)), C \in Nat,
         Size(z) = C * R, DOMAIN moves = 1..(C * R),
         \A k \in 1..(C * R) :
           LET c == ((k - 1) \div R) + 1
               r == ((k - 1) % R) + 1
           IN  moves[k].to = (c - 1) * R + r /\ moves[k].from = Place(x, subs, r, c)
  PROVE  ReadsAll(moves, x, subs, z)
<1> DEFINE c(k) == ((k - 1) \div R) + 1
           r(k) == ((k - 1) % R) + 1
<1>1. \A k \in 1..(C * R) : c(k) \in 1..C /\ r(k) \in 1..R
  BY LoopsIndex
<1>2. \A k \in 1..(C * R) : moves[k].to = (c(k) - 1) * R + r(k) /\ moves[k].from = Place(x, subs, r(k), c(k))
  OBVIOUS
<1>3. ASSUME NEW i \in 1..R, NEW j \in 1..C
      PROVE  \E k \in 1..(C * R) : moves[k].to = (j - 1) * R + i
  <2> DEFINE k == (j - 1) * R + i
  <2>1. k \in 1..(C * R)
    BY BlockIndex
  <2>2. r(k) = i /\ c(k) = j
    BY <1>3, PlaceIsUnique
  <2> HIDE DEF k, r, c
  <2> QED BY <1>2, <2>1, <2>2 DEF k
<1>4. ASSUME NEW k \in DOMAIN moves
      PROVE  \E i \in 1..R, j \in 1..C : moves[k].to = (j - 1) * R + i /\ moves[k].from = Place(x, subs, i, j)
  <2>1. k \in 1..(C * R)
    OBVIOUS
  <2>2. r(k) \in 1..R /\ c(k) \in 1..C
    BY <1>1, <2>1
  <2>3. moves[k].to = (c(k) - 1) * R + r(k) /\ moves[k].from = Place(x, subs, r(k), c(k))
    BY <1>2, <2>1
  <2> HIDE DEF r, c
  <2> QED BY <2>2, <2>3, Zenon
<1> HIDE DEF r, c
<1> QED BY <1>3, <1>4 DEF ReadsAll

LEMMA FillsByRows ==
  ASSUME NEW moves, NEW x, NEW subs, NEW z,
         NEW R, R = Len(RowsOf(x, subs)), R \in Nat, NEW C, C = Len(ColsOf(x, subs)), C \in Nat,
         Size(z) = C * R, DOMAIN moves = 1..(R * C),
         \A k \in 1..(R * C) :
           LET r == ((k - 1) \div C) + 1
               c == ((k - 1) % C) + 1
           IN  moves[k].to = (c - 1) * R + r /\ moves[k].from = Place(x, subs, r, c)
  PROVE  ReadsAll(moves, x, subs, z)
<1> DEFINE r(k) == ((k - 1) \div C) + 1
           c(k) == ((k - 1) % C) + 1
<1>1. \A k \in 1..(R * C) : r(k) \in 1..R /\ c(k) \in 1..C
  BY LoopsIndex
<1>2. \A k \in 1..(R * C) : moves[k].to = (c(k) - 1) * R + r(k) /\ moves[k].from = Place(x, subs, r(k), c(k))
  OBVIOUS
<1>3. ASSUME NEW i \in 1..R, NEW j \in 1..C
      PROVE  \E k \in 1..(R * C) : moves[k].to = (j - 1) * R + i
  <2> DEFINE k == (i - 1) * C + j
  <2>1. k \in 1..(R * C)
    BY BlockIndex
  <2>2. i \in Nat \ {0} /\ j \in 1..C
    OBVIOUS
  <2>3. c(k) = j /\ r(k) = i
    BY <2>2, PlaceIsUnique
  <2> HIDE DEF k, r, c
  <2>4. moves[k].to = (c(k) - 1) * R + r(k)
    BY <1>2, <2>1
  <2> QED BY <2>1, <2>3, <2>4, Zenon
<1>4. ASSUME NEW k \in DOMAIN moves
      PROVE  \E i \in 1..R, j \in 1..C : moves[k].to = (j - 1) * R + i /\ moves[k].from = Place(x, subs, i, j)
  <2>1. k \in 1..(R * C)
    OBVIOUS
  <2>2. r(k) \in 1..R /\ c(k) \in 1..C
    BY <1>1, <2>1
  <2>3. moves[k].to = (c(k) - 1) * R + r(k) /\ moves[k].from = Place(x, subs, r(k), c(k))
    BY <1>2, <2>1
  <2> HIDE DEF r, c
  <2> QED BY <2>2, <2>3, Zenon
<1> HIDE DEF r, c
<1> QED BY <1>3, <1>4 DEF ReadsAll

LEMMA ScalarIs ==
  ASSUME NEW d \in Int
  PROVE  Scalar(d) \in AnyResult /\ Size(Scalar(d)) = 1 /\ Scalar(d).rows = 1 /\ Scalar(d).cols = 1
<1> DEFINE y == Scalar(d)
<1>1. y = [type |-> "num", form |-> "scalar", rows |-> 1, cols |-> 1, elems |-> <<d>>]
  BY DEF Scalar, Value
<1>2. y.rows = 1 /\ y.cols = 1 /\ y.form = "scalar" /\ y.elems = <<d>>
  BY <1>1
<1> HIDE DEF y
<1>3. <<d>> \in Seq(Int) /\ Len(<<d>>) = 1
  OBVIOUS
<1>4. Size(y) = 1
  BY <1>2, <1>3 DEF Size
<1>5. y \in [type : {"num", "bool"}, form : {"scalar", "row", "col", "mat"},
             rows : Nat, cols : Nat, elems : Seq(Int)]
  BY <1>1, <1>3
<1> QED BY <1>2, <1>4, <1>5 DEF AnyResult, y

LEMMA NewIs ==
  ASSUME NEW form \in {"row", "col", "mat"}, NEW r \in Nat, NEW c \in Nat,
         form = "row" => r = 1, form = "col" => c = 1
  PROVE  Shaped(New(form, r, c), form, r, c)
<1>1. Default \in Int
  BY StatementsAssumption
<1> QED BY <1>1, FilledIs DEF New

LEMMA ResizedRowsIs ==
  ASSUME NEW form \in {"col", "mat"}, NEW q \in Nat, NEW c \in Nat, NEW r \in Nat,
         form = "col" => c = 1, r # q => q > 0 /\ c > 0
  PROVE  Shaped(ResizedRows(New(form, q, c), r), form, r, c)
<1> DEFINE v == New(form, q, c)
<1>1. Shaped(v, form, q, c)
  BY NewIs
<1> HIDE DEF v
<1>2. v \in AnyResult /\ v.form = form /\ v.rows = q /\ v.cols = c /\ Size(v) = q * c
  BY <1>1 DEF Shaped
<1>3. CASE r = q
  <2>1. ResizedRows(v, r) = v
    BY <1>2, <1>3 DEF ResizedRows
  <2> QED BY <1>1, <1>3, <2>1 DEF v
<1>4. CASE r # q
  <2>1. \A a, b \in Nat : a > 0 /\ b > 0 => a * b > 0
    OBVIOUS
  <2>2. Size(v) > 0
    BY <1>2, <1>4, <2>1
  <2>3. ResizedRows(v, r) = Resized(v, r, c)
    BY <1>2, <1>4 DEF ResizedRows
  <2>4. Shaped(Resized(v, r, c), v.form, r, c)
    BY <1>2, <2>2, ResizedIs
  <2> QED BY <1>2, <2>3, <2>4 DEF v
<1> QED BY <1>3, <1>4

LEMMA ResizedColsIs ==
  ASSUME NEW q \in Nat, NEW c \in Nat, c # q => q > 0
  PROVE  Shaped(ResizedCols(New("row", 1, q), c), "row", 1, c)
<1> DEFINE v == New("row", 1, q)
<1>1. Shaped(v, "row", 1, q)
  BY NewIs
<1> HIDE DEF v
<1>2. v \in AnyResult /\ v.form = "row" /\ v.rows = 1 /\ v.cols = q /\ Size(v) = 1 * q
  BY <1>1 DEF Shaped
<1>3. CASE c = q
  <2>1. ResizedCols(v, c) = v
    BY <1>2, <1>3 DEF ResizedCols
  <2> QED BY <1>1, <1>3, <2>1 DEF v
<1>4. CASE c # q
  <2>1. Size(v) > 0
    BY <1>2, <1>4
  <2>2. ResizedCols(v, c) = Resized(v, 1, c)
    BY <1>2, <1>4 DEF ResizedCols
  <2>3. Shaped(Resized(v, 1, c), v.form, 1, c)
    BY <1>2, <2>1, ResizedIs
  <2> QED BY <1>2, <2>2, <2>3 DEF v
<1> QED BY <1>3, <1>4

LEMMA OneReadArms ==
  ASSUME NEW x \in AnyValue, NEW subs \in AnySubscripts, Len(subs) = 1,
         NEW ix, ix = [i \in DOMAIN subs |-> Prepared(subs[i])], NEW f, f # NoFunction
  PROVE  /\ f = AccessScalar(x, ix) => ReadsFrom(f, x, subs)
         /\ f = AccessRange(x, ix) => ReadsFrom(f, x, subs)
         /\ f = AccessAll(x, ix) /\ ix[1].kind = "all" => ReadsFrom(f, x, subs)
<1> DEFINE t == subs[1]
           rows == RowsOf(x, subs)
           R == Len(rows)
           kind == ix[1].kind
           z == AccessSink(f)
           moves == AccessMoves(f, x)
<1>1. /\ t \in AnySubscript /\ DOMAIN subs = 1..1 /\ ix[1] = Prepared(t)
      /\ rows = Selects(t, Size(x)) /\ rows \in Seq(Int) /\ ColsOf(x, subs) = <<1>>
      /\ \A r, c : Place(x, subs, r, c) = Index1d(x, rows[r])
  BY OneSelects
<1>2. /\ Prepares(t, ix[1]) /\ Size(x) \in Nat /\ Default \in Int
  BY <1>1, PreparedIs, ValueIsResult, StatementsAssumption
<1>3. /\ R \in Nat
      /\ kind \in {"one", "many"} => rows = ix[1].at
      /\ kind = "mask" => rows = SetBits(ix[1].on)
      /\ kind = "one" => R = 1
  BY <1>1, <1>2 DEF Prepares
<1>4. ASSUME kind = "mask"
      PROVE  /\ Len(ix[1].on) \in Nat /\ Len(ix[1].on) > 0 /\ ix[1].on \in Seq(BOOLEAN)
             /\ \A i \in 1..R : rows[i] \in 1..Len(ix[1].on)
  <2>1. Size(t.value) \in Nat /\ Size(t.value) > 0
    BY <1>1, ValueIsResult DEF AnySubscript
  <2> QED BY <1>2, <1>3, <1>4, <2>1, MaskLists DEF Prepares, Lists
<1>5. ASSUME InBounds(x, subs)
      PROVE  /\ \A r \in 1..R : Index1d(x, rows[r]) \in 1..Size(x)
             /\ kind = "mask" => Len(ix[1].on) = Size(x)
  <2>1. subs # << >>
    BY SubscriptsAre
  <2>2. 1 \in 1..Len(ColsOf(x, subs))
    BY <1>1
  <2>3. \A r \in 1..R : Place(x, subs, r, 1) \in 1..Size(x)
    BY <1>5, <2>1, <2>2, InBoundsIs
  <2>4. kind = "mask" => Len(ix[1].on) = Size(x)
    BY <1>1, <1>5, <2>1, InBoundsIs
  <2> QED BY <1>1, <2>3, <2>4
<1>6. ASSUME f.ix = ix, f.name \in OneReads PROVE ReadBuilt(f, subs)
  BY <1>6 DEF ReadBuilt
<1> HIDE DEF rows, R
<1>7. ASSUME f = AccessScalar(x, ix) PROVE ReadsFrom(f, x, subs)
  <2>1. kind = "one" /\ f.name = "Access1DS" /\ f.ix = ix /\ f.out = Scalar(Default)
    BY <1>7 DEF AccessScalar, Function
  <2>2. z = Scalar(Default) /\ SinkIs(f, z)
    BY <2>1 DEF AccessSink, SinkIs
  <2>3. z \in AnyResult /\ Size(z) = 1
    BY <1>2, <2>2, ScalarIs
  <2>4. moves = <<Move(1, Index1d(x, ix[1].at[1]))>>
    BY <2>1, AccessMovesAre DEF access_1d
  <2>5. DOMAIN moves = 1..1 /\ moves[1].to = 1 /\ moves[1].from = Index1d(x, rows[1]) /\ 1 \in 1..R
    BY <1>3, <2>1, <2>4 DEF Move
  <2> HIDE DEF z, moves
  <2>6. InBounds(x, subs) => \A k \in DOMAIN moves : moves[k].to \in 1..Size(z) /\ moves[k].from \in 1..Size(x)
    BY <1>5, <2>3, <2>5
  <2>7. ReadsAll(moves, x, subs, z)
    <3>1. DOMAIN moves = 1..R /\ Size(z) = R /\ \A k \in 1..R : k = 1
      BY <1>3, <2>1, <2>3, <2>5
    <3>2. \A k \in 1..R : moves[k].to = k /\ moves[k].from = Place(x, subs, k, 1)
      BY <1>1, <2>5, <3>1
    <3> QED BY <1>1, <1>3, <3>1, <3>2, FillsColumn DEF rows, R
  <2> QED BY <1>6, <2>1, <2>2, <2>3, <2>6, <2>7 DEF ReadsFrom, OneReads, z, moves
<1>8. ASSUME f = AccessRange(x, ix), kind = "many" PROVE ReadsFrom(f, x, subs)
  <2>1. f.name = "Access1DVD" /\ f.ix = ix /\ f.out = New("col", R, 1)
    BY <1>3, <1>8 DEF AccessRange, Function, R
  <2>2. z = New("col", R, 1) /\ SinkIs(f, z)
    BY <2>1 DEF AccessSink, SinkIs
  <2>3. z \in AnyResult /\ Size(z) = R
    BY <1>3, <2>2, NewIs DEF Shaped
  <2>4. DOMAIN moves = 1..R /\ \A k \in 1..R : moves[k].to = k /\ moves[k].from = Index1d(x, rows[k])
    BY <1>3, <1>8, <2>1, AccessMovesAre DEF access_1d_slice, Loop, Move, R
  <2> HIDE DEF z, moves
  <2>5. InBounds(x, subs) => \A k \in DOMAIN moves : moves[k].to \in 1..Size(z) /\ moves[k].from \in 1..Size(x)
    BY <1>5, <2>3, <2>4
  <2>6. ReadsAll(moves, x, subs, z)
    BY <1>1, <1>3, <2>3, <2>4, FillsColumn DEF rows, R
  <2> QED BY <1>6, <2>1, <2>2, <2>3, <2>5, <2>6 DEF ReadsFrom, OneReads, z, moves
<1>9. ASSUME f = AccessRange(x, ix), kind = "mask" PROVE ReadsFrom(f, x, subs)
  <2>1. f.name = "Access1DVDb" /\ f.ix = ix /\ f.out = New("col", Len(ix[1].on), 1)
    BY <1>9 DEF AccessRange, Function
  <2>2. z = ResizedRows(New("col", Len(ix[1].on), 1), R)
    BY <1>3, <1>9, <2>1 DEF AccessSink, R
  <2>3. z \in AnyResult /\ z.rows = R /\ Size(z) = R
    <3> DEFINE q == Len(ix[1].on)
    <3>1. q \in Nat /\ q > 0 /\ R \in Nat
      BY <1>3, <1>4, <1>9
    <3> HIDE DEF q
    <3>2. Shaped(ResizedRows(New("col", q, 1), R), "col", R, 1)
      BY <3>1, ResizedRowsIs
    <3>3. z = ResizedRows(New("col", q, 1), R)
      BY <2>2 DEF q
    <3> HIDE DEF z
    <3> QED BY <3>1, <3>2, <3>3 DEF Shaped
  <2>4. SinkIs(f, z)
    BY <1>3, <1>9, <2>1, <2>3 DEF SinkIs, R
  <2> HIDE DEF z
  <2>5. ASSUME InBounds(x, subs)
        PROVE  /\ \A k \in DOMAIN moves : moves[k].to \in 1..Size(z) /\ moves[k].from \in 1..Size(x)
               /\ ReadsAll(moves, x, subs, z)
    <3>1. MaskWithin(ix[1].on, Size(x)) = rows /\ Len(ix[1].on) = Size(x)
      BY <1>2, <1>3, <1>4, <1>5, <1>9, <2>5, MaskWithinIs
    <3>2. DOMAIN ix[1].on = 1..Size(x)
      BY <1>4, <1>9, <3>1
    <3>3. moves = access_1d_slice_bool_v(x, ix)
      BY <2>1, AccessMovesAre
    <3>4. DOMAIN moves = 1..R /\ \A k \in 1..R : moves[k].to = k /\ moves[k].from = IF rows[k] \in 1..Size(x) THEN rows[k] ELSE Outside
      BY <3>1, <3>2, <3>3 DEF access_1d_slice_bool_v, Loop, Move, R
    <3>5. \A k \in 1..R : rows[k] \in 1..Size(x)
      BY <1>4, <1>9, <3>1
    <3> HIDE DEF moves
    <3>6. \A k \in 1..R : moves[k].from = Place(x, subs, k, 1)
      BY <1>1, <3>4, <3>5 DEF Index1d, rows
    <3>7. ReadsAll(moves, x, subs, z)
      BY <1>1, <1>3, <2>3, <3>4, <3>6, FillsColumn DEF rows, R
    <3> QED BY <2>3, <3>4, <3>5, <3>7
  <2> QED BY <1>6, <2>1, <2>3, <2>4, <2>5 DEF ReadsFrom, OneReads, z
<1>10. ASSUME f = AccessAll(x, ix), kind = "all" PROVE ReadsFrom(f, x, subs)
  <2>1. f.name = "Access1DA" /\ f.ix = ix /\ f.out = New("col", Size(x), 1)
    BY <1>10 DEF AccessAll, Function
  <2>2. z = New("col", Size(x), 1) /\ SinkIs(f, z)
    BY <2>1 DEF AccessSink, SinkIs
  <2>3. z \in AnyResult /\ Size(z) = Size(x)
    BY <1>2, <2>2, NewIs DEF Shaped
  <2>4. DOMAIN moves = 1..Size(x) /\ \A k \in 1..Size(x) : moves[k].to = k /\ moves[k].from = k
    <3>1. moves = access_1d_all(x, ix)
      BY <2>1, AccessMovesAre
    <3> HIDE DEF moves
    <3> QED BY <3>1 DEF access_1d_all, Loop, Move
  <2> HIDE DEF z, moves
  <2>5. \A k \in DOMAIN moves : moves[k].to \in 1..Size(z) /\ moves[k].from \in 1..Size(x)
    BY <2>3, <2>4
  <2>6. R = Size(x) /\ \A k \in 1..R : rows[k] = k /\ Place(x, subs, k, 1) = k
    <3>1. rows = [i \in 1..Size(x) |-> i]
      BY <1>1, <1>2, <1>10 DEF Prepares, rows
    <3>2. R = Size(x) /\ \A k \in 1..R : rows[k] = k
      BY <1>2, <3>1 DEF R
    <3> QED BY <1>1, <3>2 DEF Index1d, rows
  <2>7. ReadsAll(moves, x, subs, z)
    BY <1>1, <1>3, <2>3, <2>4, <2>6, FillsColumn DEF rows, R
  <2> QED BY <1>6, <2>1, <2>2, <2>3, <2>5, <2>7 DEF ReadsFrom, OneReads, z, moves
<1>11. ASSUME f = AccessRange(x, ix) PROVE kind \in {"many", "mask"}
  BY <1>11 DEF AccessRange
<1> QED BY <1>7, <1>8, <1>9, <1>10, <1>11

(* A place within a result is one of its elements.                         *)
LEMMA InsideCounts ==
  ASSUME NEW z \in AnyResult, NEW r \in 1..z.rows, NEW c \in 1..z.cols
  PROVE  Index2d(z, r, c) \in 1..Size(z)
<1>1. Size(z) \in Nat /\ z.rows \in Nat /\ z.cols \in Nat /\ Size(z) = z.rows * z.cols
  BY ResultElems
<1>2. (c - 1) * z.rows + r \in 1..(z.cols * z.rows)
  BY <1>1, BlockIndex
<1>3. z.cols * z.rows = Size(z)
  BY <1>1
<1> QED BY <1>2, <1>3 DEF Index2d

(* A read that copies from selected places only.                           *)
CopiesPlaces(f, x, subs, z) ==
  InBounds(x, subs) =>
    /\ \A k \in DOMAIN AccessMoves(f, x) :
         /\ AccessMoves(f, x)[k].to \in 1..Size(z)
         /\ \E r \in 1..Len(RowsOf(x, subs)), c \in 1..Len(ColsOf(x, subs)) :
              AccessMoves(f, x)[k].from = Place(x, subs, r, c)
    /\ ~ScramblesRows(f) => ReadsAll(AccessMoves(f, x), x, subs, z)

LEMMA PlacesAreRead ==
  ASSUME NEW x \in AnyValue, NEW subs \in AnySubscripts, Len(subs) = 2, NEW f,
         f.ix = [i \in DOMAIN subs |-> Prepared(subs[i])], f.name \in TwoReads,
         AccessSink(f) \in AnyResult, SinkIs(f, AccessSink(f)), CopiesPlaces(f, x, subs, AccessSink(f))
  PROVE  ReadsFrom(f, x, subs)
<1>1. ReadBuilt(f, subs)
  BY DEF ReadBuilt
<1>2. ASSUME InBounds(x, subs), NEW k \in DOMAIN AccessMoves(f, x)
      PROVE  AccessMoves(f, x)[k].to \in 1..Size(AccessSink(f)) /\ AccessMoves(f, x)[k].from \in 1..Size(x)
  <2>1. /\ AccessMoves(f, x)[k].to \in 1..Size(AccessSink(f))
        /\ \E r \in 1..Len(RowsOf(x, subs)), c \in 1..Len(ColsOf(x, subs)) :
             AccessMoves(f, x)[k].from = Place(x, subs, r, c)
    BY <1>2 DEF CopiesPlaces
  <2>2. subs \in AnySubscripts \ {<< >>}
    BY SubscriptsAre
  <2> QED BY <1>2, <2>1, <2>2, InBoundsIs
<1>3. InBounds(x, subs) /\ ~ScramblesRows(f) => ReadsAll(AccessMoves(f, x), x, subs, AccessSink(f))
  BY DEF CopiesPlaces
<1> QED BY <1>1, <1>2, <1>3 DEF ReadsFrom

(* One loop, and one within another, that copy so.                         *)
LoopReads(f, x, subs, z, n) ==
  /\ n \in Nat /\ DOMAIN AccessMoves(f, x) = 1..n
  /\ \A k \in 1..n :
       /\ AccessMoves(f, x)[k].to \in 1..Size(z)
       /\ \E r \in 1..Len(RowsOf(x, subs)), c \in 1..Len(ColsOf(x, subs)) :
            AccessMoves(f, x)[k].from = Index2d(x, RowsOf(x, subs)[r], ColsOf(x, subs)[c])
  /\ ~ScramblesRows(f) => ReadsAll(AccessMoves(f, x), x, subs, z)

LEMMA LoopsRead ==
  ASSUME NEW x \in AnyValue, NEW subs \in AnySubscripts, Len(subs) = 2, NEW f, NEW z,
         NEW n, InBounds(x, subs) => LoopReads(f, x, subs, z, n)
  PROVE  CopiesPlaces(f, x, subs, z)
<1>1. \A r, c : Place(x, subs, r, c) = Index2d(x, RowsOf(x, subs)[r], ColsOf(x, subs)[c])
  BY TwoSelects
<1> QED BY <1>1 DEF CopiesPlaces, LoopReads

(* The functions that two subscripts build.                                *)
LEMMA TwoReadArms ==
  ASSUME NEW x \in AnyValue, NEW subs \in AnySubscripts, Len(subs) = 2,
         NEW ix, ix = [i \in DOMAIN subs |-> Prepared(subs[i])], NEW f, f # NoFunction,
         NEW k1, NEW k2, k1 = ix[1].kind, k2 = ix[2].kind
  PROVE  /\ f = AccessScalarScalar(x, ix) => ReadsFrom(f, x, subs)
         /\ f = AccessScalarRange(x, ix) => ReadsFrom(f, x, subs)
         /\ f = AccessRangeScalar(x, ix) => ReadsFrom(f, x, subs)
         /\ f = AccessRangeRange(x, ix) => ReadsFrom(f, x, subs)
         /\ f = AccessAllScalar(x, ix) /\ k1 = "all" => ReadsFrom(f, x, subs)
         /\ f = AccessScalarAll(x, ix) /\ k2 = "all" => ReadsFrom(f, x, subs)
         /\ f = AccessAllRange(x, ix) /\ k1 = "all" => ReadsFrom(f, x, subs)
         /\ f = AccessRangeAll(x, ix) /\ k2 = "all" => ReadsFrom(f, x, subs)
<1> DEFINE rows == RowsOf(x, subs)
           cols == ColsOf(x, subs)
           R == Len(rows)
           C == Len(cols)
           z == AccessSink(f)
           moves == AccessMoves(f, x)
<1>1. /\ subs[1] \in AnySubscript /\ subs[2] \in AnySubscript /\ DOMAIN subs = 1..2
      /\ ix[1] = Prepared(subs[1]) /\ ix[2] = Prepared(subs[2])
  BY TwoSelects
<1>2. /\ R \in Nat /\ C \in Nat
      /\ k1 \in {"one", "many", "box"} => rows = ix[1].at
      /\ k1 = "mask" => rows = SetBits(ix[1].on) /\ \A i \in 1..R : rows[i] \in 1..Len(ix[1].on)
      /\ k1 = "all" => R = x.rows /\ \A i \in 1..x.rows : rows[i] = i
      /\ k2 \in {"one", "many", "box"} => cols = ix[2].at
      /\ k2 = "mask" => /\ cols = SetBits(ix[2].on)
                        /\ \A i \in 1..C : cols[i] \in 1..Len(ix[2].on) /\ i <= cols[i]
      /\ k2 = "all" => C = x.cols /\ \A i \in 1..x.cols : cols[i] = i
      /\ k1 = "one" => R = 1
      /\ k2 = "one" => C = 1
  BY <1>1, TwoAre
<1>3. /\ x.rows \in Nat /\ x.rows > 0 /\ x.cols \in Nat /\ x.cols > 0
      /\ Default \in Int
  BY ValueIsResult, StatementsAssumption
<1>4. /\ Prepares(subs[1], ix[1]) /\ Prepares(subs[2], ix[2])
      /\ Size(subs[1].value) > 0 /\ Size(subs[2].value) > 0
      /\ Size(subs[1].value) \in Nat /\ Size(subs[2].value) \in Nat
  BY <1>1, PreparedIs, ValueIsResult DEF AnySubscript
<1>5. /\ k1 = "mask" => Len(ix[1].on) \in Nat /\ Len(ix[1].on) > 0 /\ ix[1].at = << >>
      /\ k2 = "mask" => Len(ix[2].on) \in Nat /\ Len(ix[2].on) > 0 /\ ix[2].at = << >>
      /\ k1 = "many" => ix[1].on = << >>
      /\ k2 = "many" => ix[2].on = << >>
      /\ ix[1].on \in Seq(BOOLEAN) /\ ix[1].at \in Seq(Int) /\ ix[2].on \in Seq(BOOLEAN) /\ ix[2].at \in Seq(Int)
  BY <1>4 DEF Prepares
<1>6. /\ k1 \in {"many", "mask"} => Chosen(ix[1]) = rows
      /\ k2 \in {"many", "mask"} => Chosen(ix[2]) = cols
  BY <1>2 DEF Chosen
<1>7. /\ \A s \in Seq(Int) : s \o << >> = s
      /\ \A s \in Seq(BOOLEAN) : << >> \o s = s
  OBVIOUS
<1>8. ASSUME InBounds(x, subs)
      PROVE  /\ k1 = "mask" => Len(ix[1].on) = x.rows
             /\ k2 = "mask" => Len(ix[2].on) = x.cols
  <2>1. subs \in AnySubscripts \ {<< >>}
    BY SubscriptsAre
  <2>2. \A i \in 1..Len(subs) :
              Prepared(subs[i]).kind = "mask" =>
                Len(Prepared(subs[i]).on) = IF Len(subs) = 1 THEN Size(x)
                                            ELSE IF i = 1 THEN x.rows ELSE x.cols
    BY <1>8, <2>1, InBoundsIs
  <2>3. 1 \in 1..Len(subs) /\ 2 \in 1..Len(subs) /\ Len(subs) # 1
    OBVIOUS
  <2> QED BY <1>1, <2>2, <2>3
<1>9. \A name \in TwoReads : f.name = name /\ f.ix = ix /\ z \in AnyResult /\ SinkIs(f, z)
                             /\ CopiesPlaces(f, x, subs, z) => ReadsFrom(f, x, subs)
  BY PlacesAreRead
<1>p. \A r, c : Place(x, subs, r, c) = Index2d(x, rows[r], cols[c])
  BY <1>1, TwoAre
<1> HIDE DEF rows, cols, R, C
<1>10. ASSUME f = AccessScalarScalar(x, ix) PROVE ReadsFrom(f, x, subs)
  <2>1. k1 = "one" /\ k2 = "one" /\ f.name = "Access2DSS" /\ f.ix = ix /\ f.out = Scalar(Default)
    BY <1>10 DEF AccessScalarScalar, Function
  <2>2. z = Scalar(Default) /\ SinkIs(f, z)
    BY <2>1 DEF AccessSink, SinkIs
  <2>3. z \in AnyResult /\ Size(z) = 1
    BY <1>3, <2>2, ScalarIs
  <2>4. moves = access_2d(x, ix)
    BY <2>1, AccessMovesAre
  <2> HIDE DEF z, moves
  <2>5. DOMAIN moves = 1..1 /\ moves[1].to = 1 /\ moves[1].from = Index2d(x, rows[1], cols[1])
    BY <1>2, <2>1, <2>4 DEF access_2d, Move
  <2>6. 1 \in 1..R /\ 1 \in 1..C
    BY <1>2, <2>1
  <2>9. ReadsAll(moves, x, subs, z)
    <3>1. R = 1 /\ C = 1
      BY <1>2, <2>1
    <3>2. DOMAIN moves = 1..R /\ Size(z) = R /\ \A k \in 1..R : k = 1
      BY <2>3, <2>5, <3>1
    <3>3. \A k \in 1..R : moves[k].to = k /\ moves[k].from = Place(x, subs, k, 1)
      BY <1>p, <2>5, <3>2
    <3> QED BY <1>2, <3>1, <3>2, <3>3, FillsColumn DEF rows, cols, R, C
  <2>7. LoopReads(f, x, subs, z, 1)
    BY <2>3, <2>5, <2>6, <2>9 DEF LoopReads, moves, rows, cols, R, C
  <2>8. CopiesPlaces(f, x, subs, z)
    BY <2>7, LoopsRead
  <2> QED BY <2>1, <2>2, <2>3, <2>8, <1>9 DEF TwoReads, z
<1>11. ASSUME f = AccessScalarRange(x, ix), k1 = "one", k2 \in {"many", "mask"} PROVE ReadsFrom(f, x, subs)
  <2>1. f.name = "Access2DSVD" /\ f.ix = ix /\ f.out = New("row", 1, Len(ix[2].at \o ix[2].on))
    BY <1>11 DEF AccessScalarRange, Function
  <2> DEFINE q == Len(ix[2].at \o ix[2].on)
  <2>a. q \in Nat /\ (k2 = "many" => q = C) /\ (k2 = "mask" => q > 0)
    BY <1>2, <1>5, <1>7, <1>11 DEF C
  <2>b. C # q => q > 0
    BY <2>a, <1>11
  <2>c. Len(Chosen(ix[2])) = C
    BY <1>6, <1>11 DEF C
  <2> HIDE DEF q
  <2>2. z = ResizedCols(New("row", 1, Len(ix[2].at \o ix[2].on)), Len(Chosen(ix[2])))
    BY <2>1 DEF AccessSink
  <2>3. Shaped(ResizedCols(New("row", 1, Len(ix[2].at \o ix[2].on)), Len(Chosen(ix[2]))), "row", 1, C)
    BY <1>2, <1>3, <1>5, <1>6, <1>7, <1>11, <2>a, <2>b, <2>c, ResizedColsIs DEF R, C
  <2>d. Shaped(z, "row", 1, C)
    BY <2>2, <2>3
  <2> HIDE DEF z
  <2>4. z \in AnyResult /\ z.cols = C /\ Size(z) = C
    BY <2>d, <1>2, <1>3, <1>11, ResultElems DEF Shaped
  <2>5. SinkIs(f, z)
    BY <2>1, <2>4, <1>2, <1>6, <1>11 DEF SinkIs, R, C
  <2>6. moves = access_2d_row_slice(x, ix)
    BY <2>1, AccessMovesAre
  <2> HIDE DEF z, moves
  <2>7. ASSUME InBounds(x, subs) PROVE LoopReads(f, x, subs, z, C)
    <3>1. DOMAIN moves = 1..(C) /\ \A k \in 1..(C) : moves[k].to = k /\ moves[k].from = Index2d(x, ix[1].at[1], cols[k])
      BY <1>2, <1>6, <1>11, <2>6 DEF access_2d_row_slice, Loop, Move, C
    <3>2. ASSUME NEW k \in 1..(C)
          PROVE  /\ moves[k].to \in 1..Size(z)
                 /\ \E r \in 1..R, c \in 1..C : moves[k].from = Index2d(x, rows[r], cols[c])
      <4>1. 1 \in 1..R /\ k \in 1..C
        BY <1>2, <1>3, <1>11, <2>a, <3>2
      <4>2. moves[k].from = Index2d(x, rows[1], cols[k])
        BY <1>2, <1>3, <1>11, <2>a, <3>1, <3>2
      <4>3. moves[k].to \in 1..Size(z)
        BY <2>4, <3>1, <3>2
      <4> QED BY <4>1, <4>2, <4>3
    <3>9. ReadsAll(moves, x, subs, z)
      BY <1>2, <1>p, <1>11, <2>4, <3>1, FillsRow DEF rows, cols, R, C
    <3> QED BY <1>2, <1>3, <3>1, <3>2, <3>9, ProductIsNat DEF LoopReads, moves, rows, cols, R, C
  <2>8. CopiesPlaces(f, x, subs, z)
    BY <2>7, LoopsRead
  <2> QED BY <2>1, <2>4, <2>5, <2>8, <1>9 DEF TwoReads, z
<1>12. ASSUME f = AccessRangeScalar(x, ix), k2 = "one", k1 \in {"many", "mask"} PROVE ReadsFrom(f, x, subs)
  <2>1. f.name = "Access2DVDS" /\ f.ix = ix /\ f.out = New("col", Len(ix[1].at \o ix[1].on), 1)
    BY <1>12 DEF AccessRangeScalar, Function
  <2> DEFINE q == Len(ix[1].at \o ix[1].on)
  <2>a. q \in Nat /\ (k1 = "many" => q = R) /\ (k1 = "mask" => q > 0)
    BY <1>2, <1>5, <1>7, <1>12 DEF R
  <2>b. R # q => q > 0
    BY <2>a, <1>12
  <2>c. Len(Chosen(ix[1])) = R
    BY <1>6, <1>12 DEF R
  <2> HIDE DEF q
  <2>e. Shaped(ResizedRows(New("col", q, 1), R), "col", R, 1)
    BY <1>2, <2>a, <2>b, ResizedRowsIs
  <2>2. z = ResizedRows(New("col", Len(ix[1].at \o ix[1].on), 1), Len(Chosen(ix[1])))
    BY <2>1 DEF AccessSink
  <2>3. Shaped(ResizedRows(New("col", Len(ix[1].at \o ix[1].on), 1), Len(Chosen(ix[1]))), "col", R, 1)
    BY <1>2, <1>3, <1>5, <1>6, <1>7, <1>12, <2>a, <2>b, <2>c, <2>e DEF q, R, C
  <2>d. Shaped(z, "col", R, 1)
    BY <2>2, <2>3
  <2> HIDE DEF z
  <2>4. z \in AnyResult /\ z.rows = R /\ Size(z) = R
    BY <2>d, <1>2, <1>3, <1>12, ResultElems DEF Shaped
  <2>5. SinkIs(f, z)
    BY <2>1, <2>4, <1>2, <1>6, <1>12 DEF SinkIs, R, C
  <2>6. moves = access_2d_col_slice(x, ix)
    BY <2>1, AccessMovesAre
  <2> HIDE DEF z, moves
  <2>7. ASSUME InBounds(x, subs) PROVE LoopReads(f, x, subs, z, R)
    <3>1. DOMAIN moves = 1..(R) /\ \A k \in 1..(R) : moves[k].to = k /\ moves[k].from = Index2d(x, rows[k], ix[2].at[1])
      BY <1>2, <1>6, <1>12, <2>6 DEF access_2d_col_slice, Loop, Move, R
    <3>2. ASSUME NEW k \in 1..(R)
          PROVE  /\ moves[k].to \in 1..Size(z)
                 /\ \E r \in 1..R, c \in 1..C : moves[k].from = Index2d(x, rows[r], cols[c])
      <4>1. k \in 1..R /\ 1 \in 1..C
        BY <1>2, <1>3, <1>12, <2>a, <3>2
      <4>2. moves[k].from = Index2d(x, rows[k], cols[1])
        BY <1>2, <1>3, <1>12, <2>a, <3>1, <3>2
      <4>3. moves[k].to \in 1..Size(z)
        BY <2>4, <3>1, <3>2
      <4> QED BY <4>1, <4>2, <4>3
    <3>9. ReadsAll(moves, x, subs, z)
      BY <1>2, <1>p, <1>12, <2>4, <3>1, FillsColumn DEF rows, cols, R, C
    <3> QED BY <1>2, <1>3, <3>1, <3>2, <3>9, ProductIsNat DEF LoopReads, moves, rows, cols, R, C
  <2>8. CopiesPlaces(f, x, subs, z)
    BY <2>7, LoopsRead
  <2> QED BY <2>1, <2>4, <2>5, <2>8, <1>9 DEF TwoReads, z
<1>13. ASSUME f = AccessAllScalar(x, ix), k1 = "all" PROVE ReadsFrom(f, x, subs)
  <2>1. f.name = "Access2DAS" /\ f.ix = ix /\ f.out = New("col", x.rows, 1)
    BY <1>13 DEF AccessAllScalar, Function
  <2>a. k2 = "one"
    BY <1>13 DEF AccessAllScalar
  <2>2. z = New("col", x.rows, 1)
    BY <2>1 DEF AccessSink
  <2>3. Shaped(New("col", x.rows, 1), "col", x.rows, 1)
    BY <1>2, <1>3, <1>5, <1>6, <1>7, <1>13, NewIs DEF R, C
  <2>d. Shaped(z, "col", x.rows, 1)
    BY <2>2, <2>3
  <2> HIDE DEF z
  <2>4. z \in AnyResult /\ Size(z) = x.rows
    BY <2>d, <1>2, <1>3, <1>13, ResultElems DEF Shaped
  <2>5. SinkIs(f, z)
    BY <2>1, <2>4, <1>2, <1>6, <1>13 DEF SinkIs, R, C
  <2>6. moves = access_col(x, ix)
    BY <2>1, AccessMovesAre
  <2> HIDE DEF z, moves
  <2>7. ASSUME InBounds(x, subs) PROVE LoopReads(f, x, subs, z, x.rows)
    <3>1. DOMAIN moves = 1..(x.rows) /\ \A k \in 1..(x.rows) : moves[k].to = k /\ moves[k].from = Index2d(x, k, ix[2].at[1])
      BY <2>6 DEF access_col, Loop, Move
    <3>2. ASSUME NEW k \in 1..(x.rows)
          PROVE  /\ moves[k].to \in 1..Size(z)
                 /\ \E r \in 1..R, c \in 1..C : moves[k].from = Index2d(x, rows[r], cols[c])
      <4>1. k \in 1..R /\ 1 \in 1..C
        BY <1>2, <1>3, <1>13, <2>a, <3>2
      <4>2. moves[k].from = Index2d(x, rows[k], cols[1])
        BY <1>2, <1>3, <1>13, <2>a, <3>1, <3>2
      <4>3. moves[k].to \in 1..Size(z)
        BY <2>4, <3>1, <3>2
      <4> QED BY <4>1, <4>2, <4>3
    <3>9. ReadsAll(moves, x, subs, z)
      <4>1. R = x.rows /\ C = 1 /\ \A k \in 1..R : rows[k] = k /\ cols[1] = ix[2].at[1]
        BY <1>2, <1>13, <2>a
      <4>2. \A k \in 1..R : moves[k].to = k /\ moves[k].from = Place(x, subs, k, 1)
        BY <1>p, <3>1, <4>1
      <4> QED BY <1>2, <2>4, <3>1, <4>1, <4>2, FillsColumn DEF rows, cols, R, C
    <3> QED BY <1>2, <1>3, <3>1, <3>2, <3>9, ProductIsNat DEF LoopReads, moves, rows, cols, R, C
  <2>8. CopiesPlaces(f, x, subs, z)
    BY <2>7, LoopsRead
  <2> QED BY <2>1, <2>4, <2>5, <2>8, <1>9 DEF TwoReads, z
<1>14. ASSUME f = AccessScalarAll(x, ix), k2 = "all" PROVE ReadsFrom(f, x, subs)
  <2>1. f.name = "Access2DSA" /\ f.ix = ix /\ f.out = New("row", 1, x.cols)
    BY <1>14 DEF AccessScalarAll, Function
  <2>a. k1 = "one"
    BY <1>14 DEF AccessScalarAll
  <2>2. z = New("row", 1, x.cols)
    BY <2>1 DEF AccessSink
  <2>3. Shaped(New("row", 1, x.cols), "row", 1, x.cols)
    BY <1>2, <1>3, <1>5, <1>6, <1>7, <1>14, NewIs DEF R, C
  <2>d. Shaped(z, "row", 1, x.cols)
    BY <2>2, <2>3
  <2> HIDE DEF z
  <2>4. z \in AnyResult /\ Size(z) = x.cols
    BY <2>d, <1>2, <1>3, <1>14, ResultElems DEF Shaped
  <2>5. SinkIs(f, z)
    BY <2>1, <2>4, <1>2, <1>6, <1>14 DEF SinkIs, R, C
  <2>6. moves = access_row(x, ix)
    BY <2>1, AccessMovesAre
  <2> HIDE DEF z, moves
  <2>7. ASSUME InBounds(x, subs) PROVE LoopReads(f, x, subs, z, x.cols)
    <3>1. DOMAIN moves = 1..(x.cols) /\ \A k \in 1..(x.cols) : moves[k].to = k /\ moves[k].from = Index2d(x, ix[1].at[1], k)
      BY <2>6 DEF access_row, Loop, Move
    <3>2. ASSUME NEW k \in 1..(x.cols)
          PROVE  /\ moves[k].to \in 1..Size(z)
                 /\ \E r \in 1..R, c \in 1..C : moves[k].from = Index2d(x, rows[r], cols[c])
      <4>1. 1 \in 1..R /\ k \in 1..C
        BY <1>2, <1>3, <1>14, <2>a, <3>2
      <4>2. moves[k].from = Index2d(x, rows[1], cols[k])
        BY <1>2, <1>3, <1>14, <2>a, <3>1, <3>2
      <4>3. moves[k].to \in 1..Size(z)
        BY <2>4, <3>1, <3>2
      <4> QED BY <4>1, <4>2, <4>3
    <3>9. ReadsAll(moves, x, subs, z)
      <4>1. C = x.cols /\ R = 1 /\ \A k \in 1..C : cols[k] = k /\ rows[1] = ix[1].at[1]
        BY <1>2, <1>14, <2>a
      <4>2. \A k \in 1..C : moves[k].to = k /\ moves[k].from = Place(x, subs, 1, k)
        BY <1>p, <3>1, <4>1
      <4> QED BY <1>2, <2>4, <3>1, <4>1, <4>2, FillsRow DEF rows, cols, R, C
    <3> QED BY <1>2, <1>3, <3>1, <3>2, <3>9, ProductIsNat DEF LoopReads, moves, rows, cols, R, C
  <2>8. CopiesPlaces(f, x, subs, z)
    BY <2>7, LoopsRead
  <2> QED BY <2>1, <2>4, <2>5, <2>8, <1>9 DEF TwoReads, z
<1> DEFINE square == CASE C = 1 /\ R # 1 -> "col" [] R = 1 /\ C # 1 -> "row" [] OTHER -> "mat"
           form == IF k1 = "many" /\ k2 = "many" THEN "mat" ELSE square
<1>15. /\ square \in {"row", "col", "mat"} /\ (square = "row" => R = 1) /\ (square = "col" => C = 1)
       /\ form \in {"row", "col", "mat"} /\ (form = "row" => R = 1) /\ (form = "col" => C = 1)
  OBVIOUS
<1>16. ASSUME f = AccessRangeRange(x, ix)
      PROVE  k1 \in {"many", "mask"} /\ k2 \in {"many", "mask"}
  BY <1>16 DEF AccessRangeRange
<1>17. ASSUME f = AccessRangeRange(x, ix) PROVE ReadsFrom(f, x, subs)
  <2>9. k1 \in {"many", "mask"} /\ k2 \in {"many", "mask"}
    BY <1>17, <1>16
  <2>1. f.name = "Access2DRR" /\ f.ix = ix /\ f.out = New(form, R, C)
    <3>1. f = IF k1 = "many" /\ k2 = "many" THEN Function("Access2DRR", ix, New("mat", R, C))
              ELSE Function("Access2DRR", ix, New(square, R, C))
      BY <1>6, <1>17, <2>9 DEF AccessRangeRange, R, C
    <3> HIDE DEF square
    <3> QED BY <3>1 DEF Function
  <2>10. z = f.out
    BY <2>1 DEF AccessSink
  <2>2. z = New(form, R, C)
    BY <2>1, <2>10
  <2> HIDE DEF form, square
  <2>3. Shaped(New(form, R, C), form, R, C)
    BY <1>2, <1>3, <1>5, <1>6, <1>7, <1>17, <1>15, NewIs DEF R, C
  <2>d. Shaped(z, form, R, C)
    BY <2>2, <2>3
  <2> HIDE DEF z
  <2>4. z \in AnyResult /\ z.rows = R /\ z.cols = C
    BY <2>d, <1>2, <1>3, <1>17, ResultElems DEF Shaped
  <2>5. SinkIs(f, z)
    BY <2>1, <2>4, <1>2, <1>6, <1>17 DEF SinkIs, R, C
  <2>6. moves = access_2d_range_range(x, ix, f.out)
    BY <2>1, AccessMovesAre
  <2> HIDE DEF z, moves
  <2>7. ASSUME InBounds(x, subs) PROVE LoopReads(f, x, subs, z, R * C)
    <3> DEFINE a(k) == ((k - 1) \div C) + 1
               b(k) == ((k - 1) % C) + 1
    <3>1. DOMAIN moves = 1..(R * C)
          /\ \A k \in 1..(R * C) : moves[k].to = Index2d(z, a(k), b(k)) /\ moves[k].from = Index2d(x, rows[a(k)], cols[b(k)])
      BY <1>6, <2>6, <2>9, <2>10 DEF access_2d_range_range, Loops, Move, R, C
    <3>2. ASSUME NEW k \in 1..(R * C)
          PROVE  /\ moves[k].to \in 1..Size(z)
                 /\ \E r \in 1..R, c \in 1..C : moves[k].from = Index2d(x, rows[r], cols[c])
      <4>1. a(k) \in 1..R /\ b(k) \in 1..C
        BY <1>2, <1>3, <3>2, LoopsIndex
      <4>2. moves[k].to = Index2d(z, a(k), b(k)) /\ moves[k].from = Index2d(x, rows[a(k)], cols[b(k)])
        BY <3>1, <3>2
      <4> HIDE DEF a, b
      <4>3. a(k) \in 1..R /\ b(k) \in 1..C
        BY <1>2, <1>3, <1>17, <4>1
      <4>4. moves[k].from = Index2d(x, rows[a(k)], cols[b(k)])
        BY <1>2, <1>3, <1>17, <4>1, <4>2
      <4>5. moves[k].to \in 1..Size(z)
        <5>1. a(k) \in 1..z.rows /\ b(k) \in 1..z.cols
          BY <2>4, <4>1
        <5> QED BY <2>4, <4>2, <5>1, InsideCounts
      <4> QED BY <4>3, <4>4, <4>5
    <3>3. R * C \in Nat
      BY <1>2, <1>3, ProductIsNat
    <3>9. ReadsAll(moves, x, subs, z)
      <4>1. \A k \in 1..(R * C) : a(k) \in 1..R /\ b(k) \in 1..C
        BY <1>2, LoopsIndex
      <4>2. \A r \in 1..R, c \in 1..C : Index2d(z, r, c) = (c - 1) * R + r
        BY <2>4 DEF Index2d
      <4>3. Size(z) = C * R
        BY <1>2, <2>4, ResultElems
      <4>4. \A k \in 1..(R * C) : /\ moves[k].to = (b(k) - 1) * R + a(k)
                                  /\ moves[k].from = Place(x, subs, a(k), b(k))
        <5> HIDE DEF a, b
        <5> QED BY <1>p, <3>1, <4>1, <4>2
      <4> QED BY <1>2, <3>1, <4>3, <4>4, FillsByRows DEF rows, cols, R, C
    <3> QED BY <3>1, <3>2, <3>3, <3>9 DEF LoopReads, moves, rows, cols, R, C
  <2>8. CopiesPlaces(f, x, subs, z)
    BY <2>7, LoopsRead
  <2> QED BY <2>1, <2>4, <2>5, <2>8, <1>9 DEF TwoReads, z
<1> DEFINE flat == CASE x.rows = 1 -> "row" [] x.rows # 1 /\ C = 1 /\ k2 = "mask" -> "col" [] OTHER -> "mat"
<1>18. flat \in {"row", "col", "mat"} /\ (flat = "row" => x.rows = 1) /\ (flat = "col" => C = 1)
  OBVIOUS
<1>19. ASSUME f = AccessAllRange(x, ix), k1 = "all" PROVE ReadsFrom(f, x, subs)
  <2>9. k2 \in {"many", "mask"}
    BY <1>19 DEF AccessAllRange
  <2>1. f.name = "Access2DAR" /\ f.ix = ix /\ f.out = New(flat, x.rows, C)
    <3>1. f = Function("Access2DAR", ix, New(flat, x.rows, C))
      BY <1>6, <1>19, <2>9 DEF AccessAllRange, C
    <3> HIDE DEF flat
    <3> QED BY <3>1 DEF Function
  <2>10. z = f.out
    BY <2>1 DEF AccessSink
  <2>2. z = New(flat, x.rows, C)
    BY <2>1, <2>10
  <2> HIDE DEF flat
  <2>3. Shaped(New(flat, x.rows, C), flat, x.rows, C)
    BY <1>2, <1>3, <1>5, <1>6, <1>7, <1>19, <1>18, NewIs DEF R, C
  <2>d. Shaped(z, flat, x.rows, C)
    BY <2>2, <2>3
  <2> HIDE DEF z
  <2>4. z \in AnyResult /\ z.rows = x.rows /\ z.cols = C
    BY <2>d, <1>2, <1>3, <1>19, ResultElems DEF Shaped
  <2>5. SinkIs(f, z)
    BY <2>1, <2>4, <1>2, <1>6, <1>19 DEF SinkIs, R, C
  <2>6. moves = access_2d_all_range(x, ix, f.out)
    BY <2>1, AccessMovesAre
  <2> HIDE DEF z, moves
  <2>7. ASSUME InBounds(x, subs) PROVE LoopReads(f, x, subs, z, C * x.rows)
    <3> DEFINE a(k) == ((k - 1) \div x.rows) + 1
               b(k) == ((k - 1) % x.rows) + 1
    <3> DEFINE which == IF ix[2].kind = "many" THEN ix[2].at ELSE MaskWithin(ix[2].on, x.cols)
               from(c) == IF ix[2].kind = "many" \/ c \in DOMAIN ix[2].on THEN c ELSE Outside
               m == Min({x.rows, z.rows})
    <3>a. which = cols
      BY <1>2, <1>3, <1>5, <1>8, <2>7, <2>9, MaskWithinIs
    <3>b. m = x.rows
      BY <1>3, <2>4, MinIs
    <3>c. \A j \in 1..C : from(cols[j]) = cols[j]
      <4>1. k2 = "mask" => DOMAIN ix[2].on = 1..Len(ix[2].on)
        BY <1>5
      <4> QED BY <1>2, <2>9, <4>1
    <3>d. /\ DOMAIN moves = 1..(Len(which) * m)
          /\ \A k \in 1..(Len(which) * m) :
               LET r == ((k - 1) % m) + 1
                   c == ((k - 1) \div m) + 1
               IN  moves[k].to = Index2d(z, r, c) /\ moves[k].from = Index2d(x, r, from(which[c]))
      <4>1. moves = access_2d_all_range(x, ix, z)
        BY <2>6, <2>10
      <4>2. moves = [k \in 1..(Len(which) * m) |->
                       Move(Index2d(z, ((k - 1) % m) + 1, ((k - 1) \div m) + 1),
                            Index2d(x, ((k - 1) % m) + 1, from(which[((k - 1) \div m) + 1])))]
        BY <4>1 DEF access_2d_all_range, Loops
      <4> HIDE DEF which, from, m
      <4> QED BY <4>2 DEF Move
    <3> HIDE DEF which, from, m
    <3>e. /\ DOMAIN moves = 1..(C * x.rows)
          /\ \A k \in 1..(C * x.rows) : moves[k].to = Index2d(z, b(k), a(k)) /\ moves[k].from = Index2d(x, b(k), from(cols[a(k)]))
      BY <3>a, <3>b, <3>d DEF C
    <3>f. \A k \in 1..(C * x.rows) : a(k) \in 1..C
      BY <1>2, <1>3, LoopsIndex
    <3>1. DOMAIN moves = 1..(C * x.rows)
          /\ \A k \in 1..(C * x.rows) : moves[k].to = Index2d(z, b(k), a(k)) /\ moves[k].from = Index2d(x, b(k), cols[a(k)])
      BY <3>c, <3>e, <3>f
    <3>2. ASSUME NEW k \in 1..(C * x.rows)
          PROVE  /\ moves[k].to \in 1..Size(z)
                 /\ \E r \in 1..R, c \in 1..C : moves[k].from = Index2d(x, rows[r], cols[c])
      <4>1. a(k) \in 1..C /\ b(k) \in 1..x.rows
        BY <1>2, <1>3, <3>2, LoopsIndex
      <4>2. moves[k].to = Index2d(z, b(k), a(k)) /\ moves[k].from = Index2d(x, b(k), cols[a(k)])
        BY <3>1, <3>2
      <4> HIDE DEF a, b
      <4>3. b(k) \in 1..R /\ a(k) \in 1..C
        BY <1>2, <1>3, <1>19, <4>1
      <4>4. moves[k].from = Index2d(x, rows[b(k)], cols[a(k)])
        BY <1>2, <1>3, <1>19, <4>1, <4>2
      <4>5. moves[k].to \in 1..Size(z)
        <5>1. b(k) \in 1..z.rows /\ a(k) \in 1..z.cols
          BY <2>4, <4>1
        <5> QED BY <2>4, <4>2, <5>1, InsideCounts
      <4> QED BY <4>3, <4>4, <4>5
    <3>3. C * x.rows \in Nat
      BY <1>2, <1>3, ProductIsNat
    <3>9. ReadsAll(moves, x, subs, z)
      <4>0. R = x.rows /\ \A i \in 1..R : rows[i] = i
        BY <1>2, <1>19
      <4>1. \A k \in 1..(C * x.rows) : a(k) \in 1..C /\ b(k) \in 1..x.rows
        BY <1>2, <1>3, LoopsIndex
      <4>2. \A r \in 1..R, c \in 1..C : Index2d(z, r, c) = (c - 1) * R + r
        BY <2>4, <4>0 DEF Index2d
      <4>3. Size(z) = C * R
        BY <1>2, <2>4, <4>0, ResultElems
      <4>4. \A k \in 1..(C * x.rows) : /\ moves[k].to = (a(k) - 1) * R + b(k)
                                       /\ moves[k].from = Place(x, subs, b(k), a(k))
        <5> HIDE DEF a, b
        <5> QED BY <1>p, <3>1, <4>0, <4>1, <4>2
      <4> QED BY <1>2, <3>1, <4>0, <4>3, <4>4, FillsByColumns DEF rows, cols, R, C
    <3> QED BY <3>1, <3>2, <3>3, <3>9 DEF LoopReads, moves, rows, cols, R, C
  <2>8. CopiesPlaces(f, x, subs, z)
    BY <2>7, LoopsRead
  <2> QED BY <2>1, <2>4, <2>5, <2>8, <1>9 DEF TwoReads, z
<1>20. ASSUME f = AccessRangeAll(x, ix), k2 = "all", k1 = "many" PROVE ReadsFrom(f, x, subs)
  <2>1. f.name = "Access2DVDA" /\ f.ix = ix /\ f.out = New("mat", Len(ix[1].at), x.cols)
    BY <1>20 DEF AccessRangeAll, Function
  <2>2. z = New("mat", Len(ix[1].at), x.cols)
    BY <2>1 DEF AccessSink
  <2>3. Shaped(New("mat", Len(ix[1].at), x.cols), "mat", R, x.cols)
    BY <1>2, <1>3, <1>5, <1>6, <1>7, <1>20, NewIs DEF R, C
  <2>d. Shaped(z, "mat", R, x.cols)
    BY <2>2, <2>3
  <2> HIDE DEF z
  <2>4. z \in AnyResult /\ Size(z) = x.cols * R
    BY <2>d, <1>2, <1>3, <1>20, ResultElems DEF Shaped
  <2>5. SinkIs(f, z)
    BY <2>1, <2>4, <1>2, <1>6, <1>20 DEF SinkIs, R, C
  <2>6. moves = access_2d_slice_all(x, ix)
    BY <2>1, AccessMovesAre
  <2> HIDE DEF z, moves
  <2>7. ASSUME InBounds(x, subs) PROVE LoopReads(f, x, subs, z, x.cols * R)
    <3> DEFINE a(k) == ((k - 1) \div R) + 1
               b(k) == ((k - 1) % R) + 1
    <3>1. DOMAIN moves = 1..(x.cols * R)
          /\ \A k \in 1..(x.cols * R) : moves[k].to = (a(k) - 1) * R + b(k) /\ moves[k].from = Index2d(x, rows[b(k)], a(k))
      BY <1>2, <1>20, <2>6 DEF access_2d_slice_all, Loops, Move, R
    <3>2. ASSUME NEW k \in 1..(x.cols * R)
          PROVE  /\ moves[k].to \in 1..Size(z)
                 /\ \E r \in 1..R, c \in 1..C : moves[k].from = Index2d(x, rows[r], cols[c])
      <4>1. a(k) \in 1..x.cols /\ b(k) \in 1..R
        BY <1>2, <1>3, <3>2, LoopsIndex
      <4>2. moves[k].to = (a(k) - 1) * R + b(k) /\ moves[k].from = Index2d(x, rows[b(k)], a(k))
        BY <3>1, <3>2
      <4> HIDE DEF a, b
      <4>3. b(k) \in 1..R /\ a(k) \in 1..C
        BY <1>2, <1>3, <1>20, <4>1
      <4>4. moves[k].from = Index2d(x, rows[b(k)], cols[a(k)])
        BY <1>2, <1>3, <1>20, <4>1, <4>2
      <4>5. moves[k].to \in 1..Size(z)
        <5>1. (a(k) - 1) * R + b(k) \in 1..(x.cols * R)
          BY <1>2, <1>3, <4>1, BlockIndex
        <5> QED BY <2>4, <4>2, <5>1
      <4> QED BY <4>3, <4>4, <4>5
    <3>3. x.cols * R \in Nat
      BY <1>2, <1>3, ProductIsNat
    <3>9. ReadsAll(moves, x, subs, z)
      <4>0. C = x.cols /\ \A i \in 1..C : cols[i] = i
        BY <1>2, <1>20
      <4>1. \A k \in 1..(x.cols * R) : a(k) \in 1..C
        BY <1>2, <1>3, <4>0, LoopsIndex
      <4>4. \A k \in 1..(C * R) : /\ moves[k].to = (a(k) - 1) * R + b(k)
                                  /\ moves[k].from = Place(x, subs, b(k), a(k))
        <5> HIDE DEF a, b
        <5> QED BY <1>p, <3>1, <4>0, <4>1
      <4> QED BY <1>2, <2>4, <3>1, <4>0, <4>4, FillsByColumns DEF rows, cols, R, C
    <3> QED BY <3>1, <3>2, <3>3, <3>9 DEF LoopReads, moves, rows, cols, R, C
  <2>8. CopiesPlaces(f, x, subs, z)
    BY <2>7, LoopsRead
  <2> QED BY <2>1, <2>4, <2>5, <2>8, <1>9 DEF TwoReads, z
<1>21. ASSUME f = AccessRangeAll(x, ix), k2 = "all", k1 = "mask" PROVE ReadsFrom(f, x, subs)
  <2> DEFINE q == Len(ix[1].on)
  <2>a. q \in Nat /\ q > 0
    BY <1>5, <1>21
  <2>b. Len(SetBits(ix[1].on)) = R
    BY <1>2, <1>21 DEF R
  <2> HIDE DEF q
  <2>1. f.name = "Access2DVDbA" /\ f.ix = ix /\ f.out = New("mat", Len(ix[1].on), x.cols)
    BY <1>21 DEF AccessRangeAll, Function
  <2>2. z = ResizedRows(New("mat", Len(ix[1].on), x.cols), Len(SetBits(ix[1].on)))
    BY <2>1 DEF AccessSink
  <2>3. Shaped(ResizedRows(New("mat", Len(ix[1].on), x.cols), Len(SetBits(ix[1].on))), "mat", R, x.cols)
    BY <1>2, <1>3, <1>5, <1>6, <1>7, <1>21, <2>a, <2>b, ResizedRowsIs DEF R, C
  <2>d. Shaped(z, "mat", R, x.cols)
    BY <2>2, <2>3
  <2> HIDE DEF z
  <2>4. z \in AnyResult /\ z.rows = R /\ Size(z) = R * x.cols
    BY <2>d, <1>2, <1>3, <1>21, ResultElems DEF Shaped
  <2>5. SinkIs(f, z)
    BY <2>1, <2>4, <1>2, <1>6, <1>21 DEF SinkIs, R, C
  <2>6. moves = access_2d_slice_all_bool(x, ix)
    BY <2>1, AccessMovesAre
  <2> HIDE DEF z, moves
  <2>7. ASSUME InBounds(x, subs) PROVE LoopReads(f, x, subs, z, R * x.cols)
    <3> DEFINE a(k) == ((k - 1) \div x.cols) + 1
               b(k) == ((k - 1) % x.cols) + 1
    <3>1. DOMAIN moves = 1..(R * x.cols)
          /\ \A k \in 1..(R * x.cols) : moves[k].to = (a(k) - 1) * x.cols + b(k) /\ moves[k].from = Index2d(x, rows[a(k)], b(k))
      BY <1>2, <1>21, <2>6 DEF access_2d_slice_all_bool, Loops, Move, R
    <3>2. ASSUME NEW k \in 1..(R * x.cols)
          PROVE  /\ moves[k].to \in 1..Size(z)
                 /\ \E r \in 1..R, c \in 1..C : moves[k].from = Index2d(x, rows[r], cols[c])
      <4>1. a(k) \in 1..R /\ b(k) \in 1..x.cols
        BY <1>2, <1>3, <3>2, LoopsIndex
      <4>2. moves[k].to = (a(k) - 1) * x.cols + b(k) /\ moves[k].from = Index2d(x, rows[a(k)], b(k))
        BY <3>1, <3>2
      <4> HIDE DEF a, b
      <4>3. a(k) \in 1..R /\ b(k) \in 1..C
        BY <1>2, <1>3, <1>21, <4>1
      <4>4. moves[k].from = Index2d(x, rows[a(k)], cols[b(k)])
        BY <1>2, <1>3, <1>21, <4>1, <4>2
      <4>5. moves[k].to \in 1..Size(z)
        <5>1. (a(k) - 1) * x.cols + b(k) \in 1..(R * x.cols)
          BY <1>2, <1>3, <4>1, BlockIndex
        <5> QED BY <2>4, <4>2, <5>1
      <4> QED BY <4>3, <4>4, <4>5
    <3>3. R * x.cols \in Nat
      BY <1>2, <1>3, ProductIsNat
    <3>9. ScramblesRows(f)
      BY <2>1 DEF ScramblesRows
    <3> QED BY <3>1, <3>2, <3>3, <3>9 DEF LoopReads, moves, rows, cols, R, C
  <2>8. CopiesPlaces(f, x, subs, z)
    BY <2>7, LoopsRead
  <2> QED BY <2>1, <2>4, <2>5, <2>8, <1>9 DEF TwoReads, z
<1>22. /\ f = AccessScalarRange(x, ix) => k1 = "one" /\ k2 \in {"many", "mask"}
       /\ f = AccessRangeScalar(x, ix) => k2 = "one" /\ k1 \in {"many", "mask"}
       /\ f = AccessRangeAll(x, ix) => k1 \in {"many", "mask"}
  BY DEF AccessScalarRange, AccessRangeScalar, AccessRangeAll
<1> HIDE DEF z, moves, form, square, flat
<1>23. f = AccessScalarRange(x, ix) => ReadsFrom(f, x, subs)
  BY <1>11, <1>22
<1>24. f = AccessRangeScalar(x, ix) => ReadsFrom(f, x, subs)
  BY <1>12, <1>22
<1>25. f = AccessRangeAll(x, ix) /\ k2 = "all" => ReadsFrom(f, x, subs)
  BY <1>20, <1>21, <1>22
<1> QED BY <1>10, <1>13, <1>14, <1>17, <1>19, <1>23, <1>24, <1>25

(* The function that x[subs] builds copies what its subscripts select.     *)
LEMMA AccessesRead ==
  ASSUME NEW x \in AnyValue, NEW subs \in AnySubscripts \ {<< >>},
         Family(subs) # <<"all", "all">>, NEW f, f = AccessFunction(x, subs), f # NoFunction
  PROVE  ReadsFrom(f, x, subs)
<1> DEFINE ix == [i \in DOMAIN subs |-> Prepared(subs[i])]
           family == Family(subs)
<1>1. Len(subs) \in {1, 2} /\ DOMAIN subs = 1..Len(subs)
  BY SubscriptsAre
<1>2. IsMatrix(x)
  BY DEF AccessFunction
<1>3. CASE Len(subs) = 1
  <2> DEFINE p == Part(subs[1])
  <2>1. family = <<p>> /\ p \in {"scalar", "range", "all"} /\ (p = "all" <=> Prepared(subs[1]).kind = "all")
    BY <1>1, <1>3, FamilyIs
  <2>2. ix[1] = Prepared(subs[1])
    BY <1>1, <1>3
  <2> HIDE DEF p
  <2>3. /\ p = "scalar" => f = AccessScalar(x, ix)
        /\ p = "range" => f = AccessRange(x, ix)
        /\ p = "all" => f = AccessAll(x, ix)
    BY <1>2, <2>1 DEF AccessFunction
  <2>4. ix = [i \in DOMAIN subs |-> Prepared(subs[i])]
    OBVIOUS
  <2> HIDE DEF ix
  <2>5. /\ f = AccessScalar(x, ix) => ReadsFrom(f, x, subs)
        /\ f = AccessRange(x, ix) => ReadsFrom(f, x, subs)
        /\ f = AccessAll(x, ix) /\ ix[1].kind = "all" => ReadsFrom(f, x, subs)
    BY <1>3, <2>4, OneReadArms
  <2> QED BY <2>1, <2>2, <2>3, <2>5
<1>4. CASE Len(subs) = 2
  <2> DEFINE p == Part(subs[1])
             q == Part(subs[2])
             k1 == ix[1].kind
             k2 == ix[2].kind
  <2>1. /\ family = <<p, q>> /\ p \in {"scalar", "range", "all"} /\ q \in {"scalar", "range", "all"}
        /\ p = "all" <=> Prepared(subs[1]).kind = "all"
        /\ q = "all" <=> Prepared(subs[2]).kind = "all"
    BY <1>1, <1>4, FamilyIs
  <2>2. ix[1] = Prepared(subs[1]) /\ ix[2] = Prepared(subs[2])
    BY <1>1, <1>4
  <2> HIDE DEF p, q
  <2>3. /\ p = "scalar" /\ q = "scalar" => f = AccessScalarScalar(x, ix)
        /\ p = "scalar" /\ q = "range" => f = AccessScalarRange(x, ix)
        /\ p = "range" /\ q = "scalar" => f = AccessRangeScalar(x, ix)
        /\ p = "range" /\ q = "range" => f = AccessRangeRange(x, ix)
        /\ p = "all" /\ q = "scalar" => f = AccessAllScalar(x, ix)
        /\ p = "scalar" /\ q = "all" => f = AccessScalarAll(x, ix)
        /\ p = "all" /\ q = "range" => f = AccessAllRange(x, ix)
        /\ p = "range" /\ q = "all" => f = AccessRangeAll(x, ix)
    BY <1>2, <2>1 DEF AccessFunction
  <2>4. ~(p = "all" /\ q = "all")
    BY <2>1
  <2>5. (p = "all" => k1 = "all") /\ (q = "all" => k2 = "all")
    BY <2>1, <2>2
  <2>6. ix = [i \in DOMAIN subs |-> Prepared(subs[i])] /\ k1 = ix[1].kind /\ k2 = ix[2].kind
    OBVIOUS
  <2> HIDE DEF ix, k1, k2
  <2>7. /\ f = AccessScalarScalar(x, ix) => ReadsFrom(f, x, subs)
        /\ f = AccessScalarRange(x, ix) => ReadsFrom(f, x, subs)
        /\ f = AccessRangeScalar(x, ix) => ReadsFrom(f, x, subs)
        /\ f = AccessRangeRange(x, ix) => ReadsFrom(f, x, subs)
    BY <1>4, <2>6, TwoReadArms
  <2>8. /\ f = AccessAllScalar(x, ix) /\ k1 = "all" => ReadsFrom(f, x, subs)
        /\ f = AccessScalarAll(x, ix) /\ k2 = "all" => ReadsFrom(f, x, subs)
        /\ f = AccessAllRange(x, ix) /\ k1 = "all" => ReadsFrom(f, x, subs)
        /\ f = AccessRangeAll(x, ix) /\ k2 = "all" => ReadsFrom(f, x, subs)
    BY <1>4, <2>6, TwoReadArms
  <2> QED BY <2>1, <2>3, <2>4, <2>5, <2>7, <2>8
<1> QED BY <1>1, <1>3, <1>4

IsFunction(f) == f = Function(f.name, f.ix, f.out)

LEMMA AccessIsFunction ==
  ASSUME NEW x \in AnyValue, NEW subs \in AnySubscripts \ {<< >>}, Family(subs) # <<"all", "all">>
  PROVE  IsFunction(AccessFunction(x, subs))
<1> DEFINE ix == [i \in DOMAIN subs |-> Prepared(subs[i])]
           family == Family(subs)
           Is(g) == \E name, out : g = Function(name, ix, out)
           f == AccessFunction(x, subs)
<1>1. \A name, i, out : IsFunction(Function(name, i, out))
  BY DEF IsFunction, Function
<1>2. IsFunction(NoFunction)
  BY <1>1 DEF NoFunction
<1>3. /\ AccessScalar(x, ix) = NoFunction \/ Is(AccessScalar(x, ix))
      /\ AccessRange(x, ix) = NoFunction \/ Is(AccessRange(x, ix))
      /\ AccessAll(x, ix) = NoFunction \/ Is(AccessAll(x, ix))
  BY DEF AccessScalar, AccessRange, AccessAll
<1>4. /\ AccessScalarScalar(x, ix) = NoFunction \/ Is(AccessScalarScalar(x, ix))
      /\ AccessScalarRange(x, ix) = NoFunction \/ Is(AccessScalarRange(x, ix))
      /\ AccessRangeScalar(x, ix) = NoFunction \/ Is(AccessRangeScalar(x, ix))
  BY DEF AccessScalarScalar, AccessScalarRange, AccessRangeScalar
<1>5. /\ AccessAllScalar(x, ix) = NoFunction \/ Is(AccessAllScalar(x, ix))
      /\ AccessScalarAll(x, ix) = NoFunction \/ Is(AccessScalarAll(x, ix))
      /\ AccessRangeAll(x, ix) = NoFunction \/ Is(AccessRangeAll(x, ix))
  BY DEF AccessAllScalar, AccessScalarAll, AccessRangeAll
<1>6. AccessRangeRange(x, ix) = NoFunction \/ Is(AccessRangeRange(x, ix))
  BY DEF AccessRangeRange
<1>7. AccessAllRange(x, ix) = NoFunction \/ Is(AccessAllRange(x, ix))
  BY DEF AccessAllRange
<1>8. /\ Len(subs) = 1 => family \in {<<"scalar">>, <<"range">>, <<"all">>}
      /\ Len(subs) = 2 => family \in {<<"scalar", "scalar">>, <<"scalar", "range">>, <<"range", "scalar">>,
                                      <<"range", "range">>, <<"all", "scalar">>, <<"scalar", "all">>,
                                      <<"all", "range">>, <<"range", "all">>}
      /\ Len(subs) \in {1, 2}
  <2>1. /\ Len(subs) \in {1, 2}
        /\ Len(subs) = 1 => family = <<Part(subs[1])>>
        /\ Len(subs) = 2 => family = <<Part(subs[1]), Part(subs[2])>>
        /\ \A i \in 1..Len(subs) : Part(subs[i]) \in {"scalar", "range", "all"}
    BY SubscriptsAre, FamilyIs
  <2>2. CASE Len(subs) = 1
    BY <2>1, <2>2
  <2>3. CASE Len(subs) = 2
    BY <2>1, <2>3
  <2> QED BY <2>1, <2>2, <2>3
<1>9. \/ f = NoFunction
      \/ f \in {AccessScalar(x, ix), AccessRange(x, ix), AccessAll(x, ix), AccessScalarScalar(x, ix),
                AccessScalarRange(x, ix), AccessRangeScalar(x, ix), AccessRangeRange(x, ix),
                AccessAllScalar(x, ix), AccessScalarAll(x, ix), AccessAllRange(x, ix), AccessRangeAll(x, ix)}
  <2> DEFINE all == {AccessScalar(x, ix), AccessRange(x, ix), AccessAll(x, ix), AccessScalarScalar(x, ix),
                AccessScalarRange(x, ix), AccessRangeScalar(x, ix), AccessRangeRange(x, ix),
                AccessAllScalar(x, ix), AccessScalarAll(x, ix), AccessAllRange(x, ix), AccessRangeAll(x, ix)}
  <2>1. f = IF ~IsMatrix(x) THEN NoFunction
      ELSE CASE family = <<"scalar">> -> AccessScalar(x, ix)
           [] family = <<"range">> -> AccessRange(x, ix)
           [] family = <<"all">> -> AccessAll(x, ix)
           [] family = <<"scalar", "scalar">> -> AccessScalarScalar(x, ix)
           [] family = <<"scalar", "range">> -> AccessScalarRange(x, ix)
           [] family = <<"range", "scalar">> -> AccessRangeScalar(x, ix)
           [] family = <<"range", "range">> -> AccessRangeRange(x, ix)
           [] family = <<"all", "scalar">> -> AccessAllScalar(x, ix)
           [] family = <<"scalar", "all">> -> AccessScalarAll(x, ix)
           [] family = <<"all", "range">> -> AccessAllRange(x, ix)
           [] family = <<"range", "all">> -> AccessRangeAll(x, ix)
    BY DEF AccessFunction
  <2> HIDE DEF f, ix, family
  <2>2. CASE Len(subs) = 1
    BY <1>8, <2>1, <2>2
  <2>3. CASE Len(subs) = 2
    BY <1>8, <2>1, <2>3
  <2> QED BY <1>8, <2>2, <2>3
<1> HIDE DEF f, ix
<1>10. f = NoFunction \/ Is(f)
  BY <1>3, <1>4, <1>5, <1>6, <1>7, <1>9
<1> QED BY <1>1, <1>2, <1>10 DEF f

(* A function of the plan that reads: solved, its result stays the sink.   *)
ReadSound(f, subs) ==
  IsFunction(f) /\ ReadBuilt(f, subs) /\ f.out \in AnyResult /\ SinkIs(f, f.out)

LEMMA SinkStays ==
  ASSUME NEW f, f.out \in AnyResult, SinkIs(f, f.out)
  PROVE  AccessSink(f) = f.out
BY DEF SinkIs, AccessSink, ResizedRows, ResizedCols

LEMMA SolvedReadIs ==
  ASSUME NEW x \in AnyValue, NEW subs \in AnySubscripts, NEW f, IsFunction(f), ReadBuilt(f, subs),
         AccessSink(f) \in AnyResult, SinkIs(f, AccessSink(f)), ~AccessPanics(f, x)
  PROVE  LET g == AccessSolved(f, x)
         IN  /\ ReadSound(g, subs) /\ g.name = f.name /\ g.ix = f.ix
             /\ KeepsForm(AccessSink(f), g.out)
<1> DEFINE z == AccessSink(f)
           moves == AccessMoves(f, x)
           y == Moved("=", moves, z, x)
           g == AccessSolved(f, x)
<1>1. PICK n \in Nat : DOMAIN moves = 1..n
  BY AccessLoops DEF IsLoop
<1>2. InRange(moves, n, z, x)
  BY <1>1 DEF AccessPanics, Panics, InRange
<1>3. x \in AnyResult /\ "=" \in AnyOperator
  BY ValueIsResult DEF AnyOperator
<1>4. g = [f EXCEPT !.out = y] /\ f = [name |-> f.name, ix |-> f.ix, out |-> f.out]
  BY DEF AccessSolved, IsFunction, Function
<1> HIDE DEF y, z, moves, g
<1>5. WritesOnly(z, y, moves)
  BY <1>1, <1>2, <1>3, MovedWritesOnly DEF z, y
<1>6. y \in AnyResult /\ KeepsForm(z, y)
  BY <1>5 DEF WritesOnly
<1>7. g = [name |-> f.name, ix |-> f.ix, out |-> y]
  BY <1>4
<1>8. g.name = f.name /\ g.ix = f.ix /\ g.out = y /\ IsFunction(g)
  BY <1>7 DEF IsFunction, Function
<1>9. SinkIs(g, y)
  BY <1>6, <1>8 DEF SinkIs, KeepsForm, z
<1>10. ReadBuilt(g, subs)
  BY <1>8 DEF ReadBuilt
<1> QED BY <1>6, <1>8, <1>9, <1>10 DEF ReadSound, g, z

-----------------------------------------------------------------------------
(* Sums of lengths.                                                        *)

LEMMA SumIs ==
  ASSUME NEW n \in Nat, NEW s, DOMAIN s = 1..n
  PROVE  \E t : t[0] = 0 /\ (\A k \in 1..n : t[k] = t[k - 1] + s[k]) /\ Total(s) = t[n]
<1> DEFINE G(f) == SumFold(f, n, s)
           g == CHOOSE f : G(f)
<1>1. G(g)
  <2>1. \E f : G(f)
    BY SumExists
  <2> QED BY <2>1, Zenon
<1>2. Total(s) = g[1..n]
  BY DEF Total, FoldLeft, MapThenFoldSet, SumFold
<1> HIDE DEF g
<1> DEFINE t == [k \in 0..n |-> g[1..k]]
<1>3. t[0] = 0
  BY <1>1 DEF SumFold
<1>4. ASSUME NEW k \in 1..n PROVE t[k] = t[k - 1] + s[k]
  <2>1. /\ 1..k \in SUBSET (1..n) /\ 1..k # {} /\ (1..k) \ {k} = 1..(k - 1)
        /\ Max(1..k) = k /\ k - 1 \in 0..n
    BY FirstNumbers
  <2>2. g[1..k] = g[1..(k - 1)] + s[k]
    BY <1>1, <2>1 DEF SumFold
  <2>3. t[k] = g[1..k] /\ t[k - 1] = g[1..(k - 1)]
    BY <2>1
  <2> HIDE DEF t
  <2> QED BY <2>2, <2>3
<1>5. t[n] = g[1..n]
  OBVIOUS
<1> HIDE DEF t
<1> QED BY <1>2, <1>3, <1>4, <1>5

(* t[k] is the sum of the first k of s.                                    *)
Sums(t, s, n) ==
  /\ t[0] = 0 /\ (\A k \in 1..n : t[k] = t[k - 1] + s[k])
  /\ \A k \in 0..n : t[k] \in Nat /\ t[k] <= t[n] /\ Total(SubSeq(s, 1, k)) = t[k]
  /\ Total(s) = t[n]

LEMMA SumsAre ==
  ASSUME NEW n \in Nat, NEW s \in [1..n -> Nat]
  PROVE  \E t : Sums(t, s, n)
<1>1. PICK t : t[0] = 0 /\ (\A k \in 1..n : t[k] = t[k - 1] + s[k]) /\ Total(s) = t[n]
  BY SumIs
<1> DEFINE D == {k \in Nat : k <= n => t[k] \in Nat}
<1>2. \A k \in 0..n : t[k] \in Nat
  <2>1. 0 \in D
    BY <1>1
  <2>2. ASSUME NEW k \in Nat, k \in D PROVE k + 1 \in D
    <3> SUFFICES ASSUME k + 1 <= n PROVE t[k + 1] \in Nat
      OBVIOUS
    <3>1. k + 1 \in 1..n /\ (k + 1) - 1 = k /\ t[k] \in Nat
      BY <2>2
    <3>2. t[k + 1] = t[k] + s[k + 1] /\ s[k + 1] \in Nat
      BY <1>1, <3>1
    <3> QED BY <3>1, <3>2
  <2>3. Nat \subseteq D
    <3> HIDE DEF D
    <3> QED BY <2>1, <2>2, NatSetInduction
  <2> QED BY <2>3
<1> DEFINE E == {d \in Nat : d <= n => t[n - d] <= t[n]}
<1>3. \A k \in 0..n : t[k] <= t[n]
  <2>1. 0 \in E
    BY <1>2
  <2>2. ASSUME NEW d \in Nat, d \in E PROVE d + 1 \in E
    <3> SUFFICES ASSUME d + 1 <= n PROVE t[n - (d + 1)] <= t[n]
      OBVIOUS
    <3> DEFINE k == n - d
    <3>1. k \in 1..n /\ k - 1 = n - (d + 1) /\ t[k] <= t[n] /\ k - 1 \in 0..n /\ k \in 0..n /\ n \in 0..n
      BY <2>2
    <3> HIDE DEF k
    <3>2. t[k] = t[k - 1] + s[k] /\ s[k] \in Nat /\ t[k - 1] \in Nat /\ t[k] \in Nat /\ t[n] \in Nat
      BY <1>1, <1>2, <3>1
    <3>3. t[k - 1] <= t[n]
      BY <3>1, <3>2
    <3> QED BY <3>1, <3>3
  <2>3. Nat \subseteq E
    <3> HIDE DEF E
    <3> QED BY <2>1, <2>2, NatSetInduction
  <2>4. ASSUME NEW k \in 0..n PROVE t[k] <= t[n]
    <3>1. n - k \in Nat /\ n - k <= n /\ n - (n - k) = k
      OBVIOUS
    <3>2. n - k \in E
      BY <2>3, <3>1
    <3> QED BY <3>1, <3>2
  <2> QED BY <2>4
<1>4. ASSUME NEW m \in 0..n PROVE Total(SubSeq(s, 1, m)) = t[m]
  <2> DEFINE w == SubSeq(s, 1, m)
  <2>1. m \in Nat /\ DOMAIN w = 1..m /\ \A k \in 1..m : w[k] = s[k]
    OBVIOUS
  <2> HIDE DEF w
  <2>2. PICK u : u[0] = 0 /\ (\A k \in 1..m : u[k] = u[k - 1] + w[k]) /\ Total(w) = u[m]
    BY <2>1, SumIs
  <2> DEFINE F == {k \in Nat : k <= m => u[k] = t[k]}
  <2>3. 0 \in F
    BY <1>1, <2>2
  <2>4. ASSUME NEW k \in Nat, k \in F PROVE k + 1 \in F
    <3> SUFFICES ASSUME k + 1 <= m PROVE u[k + 1] = t[k + 1]
      OBVIOUS
    <3>1. k + 1 \in 1..m /\ k + 1 \in 1..n /\ (k + 1) - 1 = k /\ u[k] = t[k]
      BY <2>4
    <3> QED BY <1>1, <2>1, <2>2, <3>1
  <2>5. m \in F
    <3> HIDE DEF F
    <3> QED BY <2>1, <2>3, <2>4, NatSetInduction
  <2> QED BY <2>2, <2>5 DEF w
<1> HIDE DEF D, E
<1> QED BY <1>1, <1>2, <1>3, <1>4 DEF Sums

-----------------------------------------------------------------------------
(* The functions that join parts: each copies its parts one after another. *)

(* How far a part moves the place where the next begins.                   *)
Extent(f, part) == IF f.name = "RowMajor" THEN part.rows ELSE Size(part)

(* What copying part k makes of the result.                                *)
PartMoves(f, part, from, out) ==
  IF f.name = "RowMajor" THEN copy_into_row_major(part, from, out) ELSE copy_into(part, from)

CopyOf(f, parts, s, k) ==
  LET from == IF f.at = << >> THEN s.offset ELSE f.at[k]
      moves == PartMoves(f, parts[k], from, s.out)
  IN  IF s.panicked \/ Panics(moves, s.out, parts[k]) THEN [s EXCEPT !.panicked = TRUE]
      ELSE [s EXCEPT !.out = Moved("=", moves, @, parts[k]), !.offset = @ + Extent(f, parts[k])]

CopyFold(g, n, f, parts, base, order) ==
  g = [w \in SUBSET (1..n) |-> IF w = {} THEN base ELSE CopyOf(f, parts, g[w \ {Max(w)}], order[Max(w)])]

LEMMA CopyExists ==
  ASSUME NEW f, NEW parts, NEW base, NEW order, NEW n \in Nat
  PROVE \E g : CopyFold(g, n, f, parts, base, order)
<1> DEFINE G(g, k) == CopyFold(g, k, f, parts, base, order)
           D == {k \in Nat : \E g : G(g, k)}
<1>1. 0 \in D
  <2>1. G([w \in SUBSET (1..0) |-> base], 0)
    BY DEF CopyFold
  <2> QED BY <2>1
<1>2. ASSUME NEW k \in Nat, k \in D PROVE k + 1 \in D
  <2>1. PICK g : G(g, k)
    BY <1>2
  <2> DEFINE T == SUBSET (1..(k + 1))
             value(w) == IF w = {} THEN base ELSE CopyOf(f, parts, g[w \ {Max(w)}], order[Max(w)])
             h == [w \in T |-> value(w)]
  <2>2. \A w \in SUBSET (1..k) : w \in T /\ g[w] = value(w)
    <3>1. SUBSET (1..k) \subseteq T
      OBVIOUS
    <3>2. ASSUME NEW w \in SUBSET (1..k) PROVE g[w] = value(w)
      <4>1. g = [t \in SUBSET (1..k) |-> value(t)]
        BY <2>1 DEF CopyFold
      <4> HIDE DEF value
      <4> QED BY <4>1
    <3> HIDE DEF T, value
    <3> QED BY <3>1, <3>2
  <2>3. ASSUME NEW w \in T, w # {} PROVE g[w \ {Max(w)}] = h[w \ {Max(w)}]
    <3>1. w \ {Max(w)} \in SUBSET (1..k)
      BY <2>3, WithoutMax
    <3> HIDE DEF value
    <3> QED BY <2>2, <3>1
  <2>4. \A w \in T : h[w] = IF w = {} THEN base ELSE CopyOf(f, parts, h[w \ {Max(w)}], order[Max(w)])
    BY <2>3
  <2>5. h = [w \in T |-> h[w]]
    OBVIOUS
  <2>6. G(h, k + 1)
    <3> HIDE DEF h
    <3> QED BY <2>4, <2>5 DEF CopyFold
  <2> HIDE DEF G
  <2> QED BY <2>6
<1>3. n \in D
  <2> HIDE DEF D
  <2> QED BY <1>1, <1>2, NatSetInduction
<1> QED BY <1>3

CopiesInOrder(f, parts) == IF f.at = << >> THEN [k \in DOMAIN parts |-> k] ELSE CopyOrder(parts)

Unfilled(f) == [out |-> f.out, offset |-> 0, panicked |-> FALSE]

LEMMA JoinedIs ==
  ASSUME NEW f, NEW parts, NEW n \in Nat, DOMAIN CopiesInOrder(f, parts) = 1..n
  PROVE  \E r : /\ r[0] = Unfilled(f)
                /\ \A k \in 1..n : r[k] = CopyOf(f, parts, r[k - 1], CopiesInOrder(f, parts)[k])
                /\ Joined(f, parts) = r[n]
<1> DEFINE order == CopiesInOrder(f, parts)
           base == Unfilled(f)
           G(h) == CopyFold(h, n, f, parts, base, order)
           g == CHOOSE h : G(h)
<1>1. G(g)
  <2>1. \E h : G(h)
    BY CopyExists
  <2> QED BY <2>1, Zenon
<1>2. Joined(f, parts) = g[1..n]
  BY DEF Joined, FoldLeft, MapThenFoldSet, CopyFold, CopyOf, CopiesInOrder, Unfilled, PartMoves, Extent
<1> HIDE DEF g, order, base
<1> DEFINE r == [k \in 0..n |-> g[1..k]]
<1>3. r[0] = base
  BY <1>1 DEF CopyFold
<1>4. ASSUME NEW k \in 1..n PROVE r[k] = CopyOf(f, parts, r[k - 1], order[k])
  <2>1. /\ 1..k \in SUBSET (1..n) /\ 1..k # {} /\ (1..k) \ {k} = 1..(k - 1)
        /\ Max(1..k) = k /\ k - 1 \in 0..n
    BY FirstNumbers
  <2>2. g[1..k] = CopyOf(f, parts, g[(1..k) \ {Max(1..k)}], order[Max(1..k)])
    BY <1>1, <2>1 DEF CopyFold
  <2>3. g[1..k] = CopyOf(f, parts, g[1..(k - 1)], order[k])
    BY <2>1, <2>2
  <2> QED BY <2>1, <2>3
<1>5. r[n] = g[1..n]
  OBVIOUS
<1> HIDE DEF r
<1> QED BY <1>2, <1>3, <1>4, <1>5 DEF order, base

(* The parts of a row, or the results of the rows.                         *)
Parts(parts, n) == DOMAIN parts = 1..n /\ \A k \in 1..n : parts[k] \in AnyValue

(* f joins n parts of these shapes: part k begins at t[k - 1], and its     *)
(* result has room for all.                                                *)
Spaced(f, parts, t, n) ==
  /\ f.out \in AnyResult
  /\ t[0] = 0 /\ \A k \in 0..n : t[k] \in Nat
  /\ \A k \in 1..n :
       /\ t[k] = t[k - 1] + Extent(f, parts[k])
       /\ f.at # << >> => f.at[k] = t[k - 1]
       /\ f.name = "RowMajor" => parts[k].cols = f.out.cols /\ t[k] <= f.out.rows
       /\ f.name # "RowMajor" => t[k] <= Size(f.out)

JoinNames == {"S1D", "RDN", "Args", "VD", "VDN", "RowMajor"}

IsJoin(f) == f.name \in JoinNames /\ f = Join(f.name, f.at, f.out)

JoinFits(f, parts, n) == NeedsNoSolve(f) \/ (IsJoin(f) /\ \E t : Spaced(f, parts, t, n))

(* g is f with another result of the same shape.                           *)
Retains(f, g) ==
  IF NeedsNoSolve(f) THEN g = f
  ELSE IsJoin(g) /\ g.name = f.name /\ g.at = f.at /\ g.out \in AnyResult /\ KeepsForm(f.out, g.out)

(* x and y differ in what they hold only, not in how they are stored.      *)
Alike(x, y) == y.form = x.form /\ y.rows = x.rows /\ y.cols = x.cols /\ Size(y) = Size(x)

LEMMA PartFits ==
  ASSUME NEW f, NEW n \in Nat, NEW parts, Parts(parts, n), NEW t, Spaced(f, parts, t, n),
         NEW out \in AnyResult, KeepsForm(f.out, out), NEW k \in 1..n
  PROVE  LET moves == PartMoves(f, parts[k], t[k - 1], out)
         IN  DOMAIN moves = 1..Size(parts[k]) /\ InRange(moves, Size(parts[k]), out, parts[k])
<1> DEFINE part == parts[k]
           from == t[k - 1]
           moves == PartMoves(f, part, from, out)
           N == Size(part)
<1>1. /\ part \in AnyValue /\ N \in Nat /\ part.rows \in Nat /\ part.cols \in Nat
      /\ part.rows > 0 /\ N = part.rows * part.cols
  BY ValueIsResult DEF Parts
<1>2. /\ from \in Nat /\ t[k] = from + Extent(f, part)
      /\ f.name = "RowMajor" => part.cols = f.out.cols /\ t[k] <= f.out.rows
      /\ f.name # "RowMajor" => t[k] <= Size(f.out)
  BY DEF Spaced
<1>3. /\ out.rows \in Nat /\ out.cols \in Nat /\ Size(out) \in Nat /\ Size(out) = out.rows * out.cols
      /\ out.rows = f.out.rows /\ out.cols = f.out.cols /\ Size(out) = Size(f.out)
  BY ResultElems DEF KeepsForm
<1> HIDE DEF part, from
<1>4. CASE f.name # "RowMajor"
  <2>1. moves = [i \in 1..N |-> Move(from + i, i)] /\ from + N <= Size(out)
    BY <1>2, <1>3, <1>4 DEF PartMoves, copy_into, Loop, Extent
  <2> HIDE DEF moves, N
  <2>2. ASSUME NEW i \in 1..N PROVE moves[i].to = from + i /\ moves[i].from = i
    BY <2>1 DEF Move
  <2>3. InRange(moves, N, out, part)
    BY <1>1, <1>2, <1>3, <2>1, <2>2 DEF InRange, N
  <2> QED BY <2>1, <2>3 DEF moves, N, part, from
<1>5. CASE f.name = "RowMajor"
  <2> DEFINE stride == out.rows - part.rows
  <2>1. stride \in Nat /\ stride + part.rows = out.rows /\ from + part.rows <= out.rows
        /\ out.cols = part.cols
    BY <1>1, <1>2, <1>3, <1>5 DEF Extent
  <2>2. moves = [i \in 1..N |-> Move(from + i + ((i - 1) \div part.rows) * stride, i)]
    BY <1>5, <2>1 DEF PartMoves, copy_into_row_major, Loop
  <2> HIDE DEF moves, N, stride
  <2>3. ASSUME NEW i \in 1..N PROVE from + i + ((i - 1) \div part.rows) * stride \in 1..Size(out)
    <3> DEFINE q == (i - 1) \div part.rows
               m == (i - 1) % part.rows
    <3>1. i \in 1..(part.cols * part.rows)
      BY <1>1 DEF N
    <3>2. q + 1 \in 1..part.cols /\ m + 1 \in 1..part.rows
      BY <1>1, <3>1, LoopsIndex
    <3>3. i - 1 = part.rows * q + m /\ q \in Nat /\ m \in Nat
      <4>1. \A a \in Nat : \A b \in Nat : b > 0 => a = b * (a \div b) + (a % b) /\ a \div b \in Nat /\ a % b \in Nat
        OBVIOUS
      <4>2. i - 1 \in Nat /\ i \in Nat
        BY <1>1 DEF N
      <4> QED BY <1>1, <4>1, <4>2
    <3> HIDE DEF q, m
    <3> DEFINE b == from + m + 1
    <3>4. b \in 1..out.rows /\ q + 1 \in 1..out.cols /\ (q + 1) - 1 = q
      BY <1>1, <1>2, <1>3, <2>1, <3>2, <3>3
    <3>5. from + i + q * stride = q * out.rows + b
      <4>1. \A w, a, c : w \in Nat /\ a \in Nat /\ c \in Nat => w * (a + c) = w * a + w * c /\ c * w = w * c
        OBVIOUS
      <4>2. q * (stride + part.rows) = q * stride + q * part.rows /\ part.rows * q = q * part.rows
        BY <1>1, <2>1, <3>3, <4>1
      <4>3. q * stride \in Nat /\ q * part.rows \in Nat
        BY <1>1, <2>1, <3>3, ProductIsNat
      <4>4. q * out.rows = q * stride + q * part.rows
        BY <2>1, <4>2
      <4>5. i = q * part.rows + m + 1
        BY <3>3, <4>2, <4>3
      <4> HIDE DEF b
      <4> QED BY <1>2, <3>3, <4>3, <4>4, <4>5 DEF b
    <3> HIDE DEF b
    <3>6. ((q + 1) - 1) * out.rows + b \in 1..(out.cols * out.rows)
      BY <1>3, <3>4, BlockIndex
    <3>7. q * out.rows + b \in 1..(out.cols * out.rows)
      BY <3>4, <3>6
    <3>8. out.cols * out.rows = Size(out)
      BY <1>3
    <3> QED BY <3>5, <3>7, <3>8 DEF q
  <2>4. InRange(moves, N, out, part)
    <3>1. ASSUME NEW i \in 1..N
          PROVE  moves[i].to = from + i + ((i - 1) \div part.rows) * stride /\ moves[i].from = i
      BY <2>2 DEF Move
    <3> QED BY <2>3, <3>1 DEF InRange, N
  <2> QED BY <2>2, <2>4 DEF moves, N, part, from
<1> QED BY <1>4, <1>5

LEMMA JoinsAreSolved ==
  ASSUME NEW f, IsJoin(f)
  PROVE  ~NeedsNoSolve(f)
BY DEF IsJoin, JoinNames, NeedsNoSolve, NoJoin, Shared, Join

LEMMA CopyFits ==
  ASSUME NEW f, NEW n \in Nat, NEW parts, Parts(parts, n), NEW t, Spaced(f, parts, t, n), NEW k \in 1..n,
         NEW out \in AnyResult, KeepsForm(f.out, out), NEW o, f.at = << >> => o = t[k - 1]
  PROVE  LET to == CopyOf(f, parts, [out |-> out, offset |-> o, panicked |-> FALSE], k)
         IN  /\ to = [out |-> to.out, offset |-> to.offset, panicked |-> FALSE]
             /\ to.out \in AnyResult /\ KeepsForm(f.out, to.out)
             /\ f.at = << >> => to.offset = t[k]
<1> DEFINE s == [out |-> out, offset |-> o, panicked |-> FALSE]
           part == parts[k]
           from == IF f.at = << >> THEN s.offset ELSE f.at[k]
           moves == PartMoves(f, part, from, s.out)
           y == Moved("=", moves, out, part)
           to == CopyOf(f, parts, s, k)
<1>1. from = t[k - 1] /\ t[k] = t[k - 1] + Extent(f, part)
  BY DEF Spaced
<1>2. DOMAIN moves = 1..Size(part) /\ InRange(moves, Size(part), out, part)
  <2> HIDE DEF from
  <2>1. moves = PartMoves(f, part, t[k - 1], out)
    BY <1>1
  <2> QED BY <2>1, PartFits
<1>3. part \in AnyResult /\ Size(part) \in Nat /\ "=" \in AnyOperator
  BY ValueIsResult DEF Parts, AnyOperator
<1>4. to = IF s.panicked \/ Panics(moves, s.out, part) THEN [s EXCEPT !.panicked = TRUE]
           ELSE [s EXCEPT !.out = Moved("=", moves, @, part), !.offset = @ + Extent(f, part)]
  BY DEF CopyOf
<1> HIDE DEF part, from, moves
<1>5. WritesOnly(out, y, moves)
  BY <1>2, <1>3, MovedWritesOnly
<1>6. ~Panics(moves, out, part)
  BY <1>2 DEF Panics, InRange
<1>7. s.out = out /\ s.offset = o /\ ~s.panicked
  OBVIOUS
<1> HIDE DEF to, y
<1>8. to = [out |-> y, offset |-> o + Extent(f, part), panicked |-> FALSE]
  BY <1>4, <1>6, <1>7 DEF y
<1> HIDE DEF s
<1>9. y \in AnyResult /\ KeepsForm(f.out, y)
  BY <1>5 DEF WritesOnly, KeepsForm
<1>10. to.out = y /\ to.offset = o + Extent(f, part) /\ to = [out |-> to.out, offset |-> to.offset, panicked |-> FALSE]
  BY <1>8
<1> QED BY <1>1, <1>9, <1>10 DEF to, s

(* The order in which a function copies its parts.                         *)
LEMMA CopiesAre ==
  ASSUME NEW f, NEW n \in Nat, NEW parts, Parts(parts, n)
  PROVE  \E m \in Nat : /\ DOMAIN CopiesInOrder(f, parts) = 1..m
                        /\ \A k \in 1..m : CopiesInOrder(f, parts)[k] \in 1..n
                        /\ f.at = << >> => m = n /\ \A k \in 1..n : CopiesInOrder(f, parts)[k] = k
<1>1. CASE f.at = << >>
  <2>1. CopiesInOrder(f, parts) = [k \in 1..n |-> k]
    BY <1>1 DEF CopiesInOrder, Parts
  <2>2. DOMAIN CopiesInOrder(f, parts) = 1..n /\ \A k \in 1..n : CopiesInOrder(f, parts)[k] = k
    BY <2>1
  <2> QED BY <2>2
<1>2. CASE f.at # << >>
  <2> DEFINE a == [k \in DOMAIN parts |-> IsMatrix(parts[k])]
             b == [k \in DOMAIN parts |-> ~IsMatrix(parts[k])]
             p == SetBits(a)
             q == SetBits(b)
  <2>1. \A c \in [1..n -> BOOLEAN] : Len(c) = n /\ \A k \in 1..n : c[k] \in BOOLEAN
    OBVIOUS
  <2>2. a \in [1..n -> BOOLEAN] /\ b \in [1..n -> BOOLEAN]
    BY DEF Parts, IsMatrix
  <2> HIDE DEF a, b
  <2>3. Lists(p, n, a) /\ Lists(q, n, b)
    BY <2>1, <2>2, SetBitsLists
  <2> HIDE DEF p, q
  <2>4. p \in Seq(1..n) /\ q \in Seq(1..n)
    <3>1. \A c \in Seq(Nat) : (\A i \in 1..Len(c) : c[i] \in 1..n) => c \in Seq(1..n)
      OBVIOUS
    <3> QED BY <2>3, <3>1 DEF Lists
  <2>5. CopiesInOrder(f, parts) = p \o q
    BY <1>2 DEF CopiesInOrder, CopyOrder, p, q, a, b
  <2>6. \A c, d \in Seq(1..n) : c \o d \in Seq(1..n)
    OBVIOUS
  <2>7. \A c \in Seq(1..n) : Len(c) \in Nat /\ DOMAIN c = 1..Len(c) /\ \A k \in 1..Len(c) : c[k] \in 1..n
    OBVIOUS
  <2>8. CopiesInOrder(f, parts) \in Seq(1..n)
    BY <2>4, <2>5, <2>6
  <2> QED BY <1>2, <2>7, <2>8
<1> QED BY <1>1, <1>2

(* A function that joins parts that fit never panics, and keeps its shape. *)
LEMMA JoinRuns ==
  ASSUME NEW f, NEW n \in Nat, NEW parts, Parts(parts, n), JoinFits(f, parts, n)
  PROVE  ~JoinPanics(f, parts) /\ Retains(f, JoinSolved(f, parts))
<1>1. CASE NeedsNoSolve(f)
  BY <1>1 DEF JoinPanics, JoinSolved, Retains
<1>2. CASE ~NeedsNoSolve(f)
  <2>1. PICK t : Spaced(f, parts, t, n)
    BY <1>2 DEF JoinFits
  <2>2. IsJoin(f)
    BY <1>2 DEF JoinFits
  <2> DEFINE order == CopiesInOrder(f, parts)
  <2>3. PICK m \in Nat : /\ DOMAIN order = 1..m
                         /\ \A k \in 1..m : order[k] \in 1..n
                         /\ f.at = << >> => m = n /\ \A k \in 1..n : order[k] = k
    BY CopiesAre
  <2>4. PICK r : /\ r[0] = Unfilled(f)
                 /\ \A k \in 1..m : r[k] = CopyOf(f, parts, r[k - 1], order[k])
                 /\ Joined(f, parts) = r[m]
    <3>1. DOMAIN CopiesInOrder(f, parts) = 1..m
      BY <2>3
    <3> QED BY <3>1, JoinedIs
  <2> HIDE DEF order
  <2> DEFINE Good(s, k) == /\ s = [out |-> s.out, offset |-> s.offset, panicked |-> FALSE]
                           /\ s.out \in AnyResult /\ KeepsForm(f.out, s.out)
                           /\ f.at = << >> => s.offset = t[k]
             D == {k \in Nat : k <= m => Good(r[k], k)}
  <2>5. 0 \in D
    <3>1. f.out \in AnyResult /\ t[0] = 0
      BY <2>1 DEF Spaced
    <3>2. r[0] = [out |-> f.out, offset |-> 0, panicked |-> FALSE]
      BY <2>4 DEF Unfilled
    <3>3. r[0].out = f.out /\ r[0].offset = 0 /\ KeepsForm(f.out, f.out)
      BY <3>2 DEF KeepsForm
    <3>4. Good(r[0], 0)
      BY <3>1, <3>2, <3>3
    <3> HIDE DEF Good
    <3> QED BY <3>4
  <2>6. ASSUME NEW k \in Nat, k \in D PROVE k + 1 \in D
    <3> SUFFICES ASSUME k + 1 <= m PROVE Good(r[k + 1], k + 1)
      OBVIOUS
    <3>1. Good(r[k], k) /\ k + 1 \in 1..m /\ (k + 1) - 1 = k
      BY <2>6
    <3> DEFINE j == order[k + 1]
               o == r[k].offset
               out == r[k].out
    <3>2. /\ j \in 1..n /\ r[k + 1] = CopyOf(f, parts, r[k], j)
          /\ f.at = << >> => j = k + 1 /\ j - 1 = k
      BY <2>3, <2>4, <3>1
    <3>3. /\ r[k] = [out |-> out, offset |-> o, panicked |-> FALSE]
          /\ out \in AnyResult /\ KeepsForm(f.out, out) /\ (f.at = << >> => o = t[j - 1])
      BY <3>1, <3>2
    <3> HIDE DEF j, o, out
    <3>4. Good(CopyOf(f, parts, [out |-> out, offset |-> o, panicked |-> FALSE], j), j)
      BY <2>1, <3>2, <3>3, CopyFits
    <3> QED BY <3>2, <3>3, <3>4
  <2>7. m \in D
    <3> HIDE DEF D
    <3> QED BY <2>5, <2>6, NatSetInduction
  <2>8. Good(Joined(f, parts), m)
    BY <2>4, <2>7
  <2> HIDE DEF D
  <2> DEFINE y == Joined(f, parts).out
  <2>9. y \in AnyResult /\ KeepsForm(f.out, y) /\ ~Joined(f, parts).panicked
    <3>1. \A s, k : Good(s, k) => s.out \in AnyResult /\ KeepsForm(f.out, s.out) /\ s.panicked = FALSE
      OBVIOUS
    <3> HIDE DEF Good
    <3> QED BY <2>8, <3>1
  <2> HIDE DEF y
  <2>10. JoinSolved(f, parts) = [f EXCEPT !.out = y]
    BY <1>2 DEF JoinSolved, y
  <2>11. JoinSolved(f, parts) = Join(f.name, f.at, y)
    BY <2>2, <2>10 DEF IsJoin, Join
  <2>12. Retains(f, JoinSolved(f, parts))
    BY <1>2, <2>2, <2>9, <2>11 DEF Retains, IsJoin, Join
  <2> QED BY <2>9, <2>12 DEF JoinPanics, y
<1> QED BY <1>1, <1>2

(* It goes on to fit, and to fit other parts of these shapes.              *)
LEMMA FitStays ==
  ASSUME NEW f, NEW n \in Nat, NEW parts, JoinFits(f, parts, n), NEW g, Retains(f, g),
         NEW others, \A k \in 1..n : Alike(parts[k], others[k])
  PROVE  JoinFits(g, others, n)
<1>1. CASE NeedsNoSolve(f)
  BY <1>1 DEF Retains, JoinFits
<1>2. CASE ~NeedsNoSolve(f)
  <2>1. PICK t : Spaced(f, parts, t, n)
    BY <1>2 DEF JoinFits
  <2>2. /\ IsJoin(g) /\ g.name = f.name /\ g.at = f.at /\ g.out \in AnyResult
        /\ KeepsForm(f.out, g.out)
    BY <1>2 DEF Retains
  <2>3. ASSUME NEW k \in 1..n PROVE Extent(g, others[k]) = Extent(f, parts[k]) /\ others[k].cols = parts[k].cols
    BY <2>2 DEF Extent, Alike
  <2>4. Spaced(g, others, t, n)
    BY <2>1, <2>2, <2>3 DEF Spaced, KeepsForm
  <2> QED BY <2>2, <2>4 DEF JoinFits
<1> QED BY <1>1, <1>2

-----------------------------------------------------------------------------
(* What a literal is built of fits.                                        *)

LEMMA JoinIs ==
  ASSUME NEW name \in JoinNames, NEW at, NEW out
  PROVE  LET f == Join(name, at, out)
         IN  IsJoin(f) /\ f.name = name /\ f.at = at /\ f.out = out /\ ~NeedsNoSolve(f)
BY JoinsAreSolved DEF Join, IsJoin

(* Where parts begin, when each is as long as its length times r.          *)
LEMMA MultiplesOf ==
  ASSUME NEW n \in Nat, NEW s \in [1..n -> Nat], NEW t, Sums(t, s, n), NEW r \in Nat
  PROVE  \E u : /\ u[0] = 0 /\ \A k \in 0..n : u[k] \in Nat /\ u[k] = r * t[k]
                /\ \A k \in 1..n : u[k] = u[k - 1] + r * s[k] /\ u[k] <= r * t[n]
<1> DEFINE u == [k \in 0..n |-> r * t[k]]
<1>1. /\ t[0] = 0 /\ (\A k \in 1..n : t[k] = t[k - 1] + s[k])
      /\ \A k \in 0..n : t[k] \in Nat /\ t[k] <= t[n]
  BY DEF Sums
<1>2. \A k \in 0..n : u[k] \in Nat /\ u[k] = r * t[k]
  BY <1>1, ProductIsNat, Zenon
<1>3. u[0] = 0
  BY <1>1, <1>2
<1> HIDE DEF u
<1>4. \A a, b, c \in Nat : a * (b + c) = a * b + a * c
  OBVIOUS
<1>5. \A a, b \in Nat : b <= a => r * b <= r * a
  <2>1. ASSUME NEW a \in Nat, NEW b \in Nat, b <= a PROVE r * b <= r * a
    <3>1. a - b \in Nat /\ a = b + (a - b)
      BY <2>1
    <3>2. r * a = r * b + r * (a - b)
      BY <1>4, <3>1
    <3>3. r * (a - b) \in Nat /\ r * b \in Nat
      BY <3>1, ProductIsNat
    <3> QED BY <3>2, <3>3
  <2> QED BY <2>1
<1>6. ASSUME NEW k \in 1..n PROVE u[k] = u[k - 1] + r * s[k] /\ u[k] <= r * t[n]
  <2>1. k \in 0..n /\ k - 1 \in 0..n /\ n \in 0..n
    OBVIOUS
  <2>2. /\ t[k] = t[k - 1] + s[k] /\ t[k - 1] \in Nat /\ s[k] \in Nat /\ t[k] \in Nat
        /\ t[n] \in Nat /\ t[k] <= t[n]
    BY <1>1, <2>1
  <2>3. r * t[k] = r * t[k - 1] + r * s[k] /\ r * t[k] <= r * t[n]
    <3>1. r * (t[k - 1] + s[k]) = r * t[k - 1] + r * s[k]
      BY <1>4, <2>2, Zenon
    <3>2. r * t[k] <= r * t[n]
      BY <1>5, <2>2, Zenon
    <3> QED BY <2>2, <3>1, <3>2
  <2> QED BY <1>2, <2>1, <2>3
<1> QED BY <1>2, <1>3, <1>6

(* The widths and the heights of parts.                                    *)
LEMMA LengthsAre ==
  ASSUME NEW n \in Nat, NEW parts, Parts(parts, n)
  PROVE  /\ Widths(parts) \in [1..n -> Nat] /\ \A k \in 1..n : Widths(parts)[k] = parts[k].cols
         /\ Heights(parts) \in [1..n -> Nat] /\ \A k \in 1..n : Heights(parts)[k] = parts[k].rows
         /\ \A k \in 1..n : /\ parts[k].cols \in Nat /\ parts[k].rows \in Nat /\ Size(parts[k]) \in Nat
                            /\ parts[k].cols > 0 /\ parts[k].rows > 0
                            /\ Size(parts[k]) = parts[k].rows * parts[k].cols
<1>1. \A k \in 1..n : /\ parts[k].cols \in Nat /\ parts[k].rows \in Nat /\ Size(parts[k]) \in Nat
                      /\ parts[k].cols > 0 /\ parts[k].rows > 0
                      /\ Size(parts[k]) = parts[k].rows * parts[k].cols
  BY ValueIsResult DEF Parts
<1> QED BY <1>1 DEF Widths, Heights, Parts

LEMMA BeginningsAre ==
  ASSUME NEW n \in Nat, NEW s \in [1..n -> Nat], NEW t, Sums(t, s, n)
  PROVE  \A k \in 1..n : Beginnings(s)[k] = t[k - 1]
<1>1. Beginnings(s) = [k \in 1..n |-> Total(SubSeq(s, 1, k - 1))]
  BY DEF Beginnings
<1>2. \A k \in 1..n : k - 1 \in 0..n
  OBVIOUS
<1> QED BY <1>1, <1>2 DEF Sums

(* What the joining function of a row, or of the rows, makes.              *)
Makes(f, parts, n, r, c) ==
  IsJoin(f) /\ JoinFits(f, parts, n) /\ f.out \in AnyResult /\ f.out.rows = r /\ f.out.cols = c

LEMMA SideBySide ==
  ASSUME NEW n \in Nat, NEW parts, Parts(parts, n), NEW r \in Nat,
         \A k \in 1..n : parts[k].rows = r, NEW form \in {"row", "mat"}, form = "row" => r = 1,
         NEW f, f = Join("Args", << >>, New(form, r, Total(Widths(parts))))
                \/ (r = 1 /\ f = Join("RDN", Beginnings(Widths(parts)), New(form, r, Total(Widths(parts)))))
  PROVE  Makes(f, parts, n, r, Total(Widths(parts)))
<1> DEFINE s == Widths(parts)
           out == New(form, r, Total(s))
<1>1. s \in [1..n -> Nat] /\ \A k \in 1..n : s[k] = parts[k].cols /\ Size(parts[k]) = r * parts[k].cols
  <2>1. /\ s \in [1..n -> Nat] /\ \A k \in 1..n : s[k] = parts[k].cols
        /\ \A k \in 1..n : Size(parts[k]) = parts[k].rows * parts[k].cols
    BY LengthsAre, Zenon
  <2> HIDE DEF s
  <2> QED BY <2>1
<1> HIDE DEF s
<1>2. PICK t : Sums(t, s, n)
  BY <1>1, SumsAre
<1>3. Total(s) = t[n] /\ t[n] \in Nat
  BY <1>2 DEF Sums
<1>4. Shaped(out, form, r, Total(s))
  BY <1>3, NewIs
<1>5. PICK u : /\ u[0] = 0 /\ \A k \in 0..n : u[k] \in Nat /\ u[k] = r * t[k]
               /\ \A k \in 1..n : u[k] = u[k - 1] + r * s[k] /\ u[k] <= r * t[n]
  BY <1>1, <1>2, MultiplesOf
<1>6. \/ f = Join("Args", << >>, out)
      \/ r = 1 /\ f = Join("RDN", Beginnings(s), out)
  BY DEF s
<1> HIDE DEF out
<1>7. /\ IsJoin(f) /\ f.out = out /\ f.name # "RowMajor"
      /\ f.at = << >> \/ (r = 1 /\ f.at = Beginnings(s))
  <2>1. CASE f = Join("Args", << >>, out)
    BY <2>1, JoinIs DEF JoinNames
  <2>2. CASE r = 1 /\ f = Join("RDN", Beginnings(s), out)
    BY <2>2, JoinIs DEF JoinNames
  <2> QED BY <1>6, <2>1, <2>2
<1>8. \A k \in 1..n : k - 1 \in 0..n /\ (r = 1 => u[k - 1] = t[k - 1])
  <2>1. \A k \in 0..n : t[k] \in Nat
    BY <1>2 DEF Sums
  <2> QED BY <1>5, <2>1
<1>9. Spaced(f, parts, u, n)
  <2>1. out \in AnyResult /\ Size(out) = r * t[n]
    BY <1>3, <1>4 DEF Shaped
  <2>2. ASSUME NEW k \in 1..n
        PROVE  u[k] = u[k - 1] + Extent(f, parts[k]) /\ (f.at # << >> => f.at[k] = u[k - 1]) /\ u[k] <= Size(f.out)
    <3>1. Extent(f, parts[k]) = r * s[k]
      BY <1>1, <1>7 DEF Extent
    <3>2. f.at # << >> => f.at[k] = u[k - 1]
      BY <1>1, <1>2, <1>7, <1>8, BeginningsAre
    <3> QED BY <1>5, <1>7, <2>1, <3>1, <3>2
  <2> QED BY <1>5, <1>7, <2>1, <2>2 DEF Spaced
<1> QED BY <1>4, <1>7, <1>9 DEF Makes, JoinFits, Shaped, s

LEMMA OnTop ==
  ASSUME NEW n \in Nat, NEW parts, Parts(parts, n), NEW c \in Nat,
         \A k \in 1..n : parts[k].cols = c,
         NEW f, \/ f = Join("RowMajor", << >>, New("mat", Total(Heights(parts)), c))
                \/ c = 1 /\ f = Join("VD", << >>, New("col", Total(Heights(parts)), 1))
                \/ c = 1 /\ f = Join("VDN", Beginnings(Heights(parts)), New("col", Total(Heights(parts)), 1))
  PROVE  Makes(f, parts, n, Total(Heights(parts)), c)
<1> DEFINE s == Heights(parts)
           r == Total(s)
<1>1. /\ s \in [1..n -> Nat]
      /\ \A k \in 1..n : s[k] = parts[k].rows /\ Size(parts[k]) = s[k] * c /\ s[k] \in Nat
  <2>1. /\ s \in [1..n -> Nat] /\ \A k \in 1..n : s[k] = parts[k].rows
        /\ \A k \in 1..n : Size(parts[k]) = parts[k].rows * parts[k].cols
    BY LengthsAre, Zenon
  <2> HIDE DEF s
  <2> QED BY <2>1
<1> HIDE DEF s
<1>2. PICK t : Sums(t, s, n)
  BY <1>1, SumsAre
<1>3. r = t[n] /\ r \in Nat
  BY <1>2 DEF Sums
<1> HIDE DEF r
<1>4. \E form \in {"mat", "col"} :
        /\ IsJoin(f) /\ f.out = New(form, r, c) /\ (form = "col" => c = 1)
        /\ f.name # "RowMajor" => c = 1
        /\ f.at = << >> \/ f.at = Beginnings(s)
  <2>1. CASE f = Join("RowMajor", << >>, New("mat", r, c))
    <3>1. IsJoin(f) /\ f.out = New("mat", r, c) /\ f.name = "RowMajor" /\ f.at = << >>
      BY <2>1, JoinIs DEF JoinNames
    <3> QED BY <3>1
  <2>2. CASE c = 1 /\ f = Join("VD", << >>, New("col", r, 1))
    <3>1. IsJoin(f) /\ f.out = New("col", r, 1) /\ f.name = "VD" /\ f.at = << >>
      BY <2>2, JoinIs DEF JoinNames
    <3> QED BY <2>2, <3>1
  <2>3. CASE c = 1 /\ f = Join("VDN", Beginnings(s), New("col", r, 1))
    <3>1. IsJoin(f) /\ f.out = New("col", r, 1) /\ f.name = "VDN" /\ f.at = Beginnings(s)
      BY <2>3, JoinIs DEF JoinNames
    <3> QED BY <2>3, <3>1
  <2> QED BY <2>1, <2>2, <2>3 DEF r, s
<1>5. PICK form \in {"mat", "col"} :
        /\ IsJoin(f) /\ f.out = New(form, r, c) /\ (form = "col" => c = 1)
        /\ f.name # "RowMajor" => c = 1
        /\ f.at = << >> \/ f.at = Beginnings(s)
  BY <1>4
<1>6. Shaped(New(form, r, c), form, r, c)
  BY <1>3, <1>5, NewIs
<1>7. f.out \in AnyResult /\ f.out.rows = r /\ f.out.cols = c /\ Size(f.out) = r * c
  BY <1>5, <1>6 DEF Shaped
<1>8. Spaced(f, parts, t, n)
  <2>1. ASSUME NEW k \in 1..n
        PROVE  /\ t[k] = t[k - 1] + Extent(f, parts[k])
               /\ f.at # << >> => f.at[k] = t[k - 1]
               /\ f.name = "RowMajor" => parts[k].cols = f.out.cols /\ t[k] <= f.out.rows
               /\ f.name # "RowMajor" => t[k] <= Size(f.out)
    <3>1. Extent(f, parts[k]) = s[k]
      BY <1>1, <1>5 DEF Extent
    <3>2. f.at # << >> => f.at[k] = t[k - 1]
      BY <1>1, <1>2, <1>5, BeginningsAre
    <3>3. t[k] = t[k - 1] + s[k] /\ t[k] <= t[n] /\ k \in 0..n
      BY <1>2 DEF Sums
    <3>4. c = 1 => Size(f.out) = r
      BY <1>3, <1>7
    <3> QED BY <1>3, <1>5, <1>7, <3>1, <3>2, <3>3, <3>4
  <2> QED BY <1>2, <1>7, <2>1 DEF Spaced, Sums
<1> QED BY <1>5, <1>7, <1>8 DEF Makes, JoinFits, r, s

(* The function of a row: none, the part itself, or one that fits.         *)
RowMade(f, row, n) ==
  \/ f = NoJoin
  \/ f = Shared
  \/ IsJoin(f) /\ JoinFits(f, row, n) /\ f.out \in AnyValue

LEMMA MakesValue ==
  ASSUME NEW f, NEW parts, NEW n, NEW r \in Nat, NEW c \in Nat, Makes(f, parts, n, r, c), r > 0, c > 0
  PROVE  IsJoin(f) /\ JoinFits(f, parts, n) /\ f.out \in AnyValue
<1>1. Size(f.out) = r * c
  BY ResultElems DEF Makes
<1>2. r * c > 0
  <2>1. PICK d \in Nat : r = d + 1
    <3>1. r - 1 \in Nat /\ r = (r - 1) + 1
      OBVIOUS
    <3> QED BY <3>1
  <2>2. r * c = d * c + c /\ d * c \in Nat
    BY <2>1
  <2> QED BY <2>2
<1> QED BY <1>1, <1>2 DEF Makes, AnyValue

LEMMA PartsOf ==
  ASSUME NEW row \in Seq(AnyValue), row # << >>
  PROVE  Len(row) \in Nat /\ Len(row) > 0 /\ Parts(row, Len(row)) /\ row[1] \in AnyValue
<1>1. \A A : \A q \in Seq(A) : /\ Len(q) \in Nat /\ DOMAIN q = 1..Len(q) /\ (q # << >> => Len(q) > 0)
                               /\ \A k \in 1..Len(q) : q[k] \in A
  OBVIOUS
<1>2. /\ Len(row) \in Nat /\ DOMAIN row = 1..Len(row) /\ Len(row) > 0
      /\ \A k \in 1..Len(row) : row[k] \in AnyValue
  BY <1>1, Zenon
<1>3. 1 \in 1..Len(row)
  BY <1>2
<1> QED BY <1>2, <1>3 DEF Parts

(* A sum of positive lengths is positive.                                  *)
LEMMA TotalIsPositive ==
  ASSUME NEW n \in Nat, n > 0, NEW s \in [1..n -> Nat], s[1] > 0
  PROVE  Total(s) \in Nat /\ Total(s) > 0
<1>1. PICK t : Sums(t, s, n)
  BY SumsAre
<1>2. 1 \in 1..n /\ 1 - 1 = 0 /\ 1 \in 0..n /\ n \in 0..n /\ s[1] \in Nat
  OBVIOUS
<1>3. t[0] = 0 /\ t[1] = t[0] + s[1] /\ t[1] <= t[n] /\ t[n] \in Nat /\ t[1] \in Nat /\ Total(s) = t[n]
  BY <1>1, <1>2 DEF Sums
<1> QED BY <1>3

LEMMA HorzCatFits ==
  ASSUME NEW row \in Seq(AnyValue), row # << >>, \A k \in DOMAIN row : row[k].rows = row[1].rows
  PROVE  RowMade(HorzCat(row), row, Len(row))
<1> DEFINE n == Len(row)
           f == HorzCat(row)
           r == row[1].rows
           T == Total(Widths(row))
<1>1. n \in Nat /\ n > 0 /\ Parts(row, n) /\ row[1] \in AnyValue /\ DOMAIN row = 1..n
  BY PartsOf DEF Parts
<1>2. r \in Nat /\ r > 0 /\ T \in Nat /\ T > 0 /\ \A k \in 1..n : row[k].rows = r
  <2>1. 1 \in 1..n
    BY <1>1
  <2>2. /\ Widths(row) \in [1..n -> Nat] /\ Widths(row)[1] = row[1].cols /\ row[1].cols > 0
        /\ r \in Nat /\ r > 0
    BY <1>1, <2>1, LengthsAre
  <2>3. T \in Nat /\ T > 0
    BY <1>1, <2>2, TotalIsPositive
  <2> QED BY <1>1, <2>2, <2>3
<1>3. CASE n = 1
  <2>1. f = HorzCatOne(row[1])
    BY <1>3 DEF HorzCat
  <2>2. CASE ~IsMatrix(row[1])
    <3> DEFINE out == New("mat", 1, 1)
               t == [k \in 0..1 |-> k]
    <3>1. f = Join("S1D", <<0>>, out)
      BY <2>1, <2>2 DEF HorzCatOne
    <3>2. Shaped(out, "mat", 1, 1)
      BY NewIs
    <3> HIDE DEF out
    <3>3. IsJoin(f) /\ f.name = "S1D" /\ f.at = <<0>> /\ f.out = out
      BY <3>1, JoinIs DEF JoinNames
    <3>4. out \in AnyResult /\ Size(out) = 1 /\ out.rows = 1 /\ out.cols = 1
      BY <3>2 DEF Shaped
    <3>5. Size(row[1]) = 1
      BY <1>1, <2>2, ValueIsResult
    <3>6. Spaced(f, row, t, 1)
      <4>1. t[0] = 0 /\ t[1] = 1 /\ \A k \in 0..1 : t[k] \in Nat
        OBVIOUS
      <4> HIDE DEF t
      <4>2. ASSUME NEW k \in 1..1
            PROVE  /\ t[k] = t[k - 1] + Extent(f, row[k])
                   /\ f.at # << >> => f.at[k] = t[k - 1]
                   /\ t[k] <= Size(f.out)
        <5>1. k = 1 /\ k - 1 = 0 /\ f.at[1] = 0 /\ Extent(f, row[1]) = 1
          BY <3>3, <3>5 DEF Extent
        <5> QED BY <3>3, <3>4, <4>1, <5>1
      <4> QED BY <3>3, <3>4, <4>1, <4>2 DEF Spaced
    <3>7. Makes(f, row, n, 1, 1)
      BY <1>3, <3>3, <3>4, <3>6 DEF Makes, JoinFits
    <3> QED BY <3>7, MakesValue DEF RowMade
  <2>3. CASE IsMatrix(row[1])
    BY <2>1, <2>3 DEF HorzCatOne, RowMade
  <2> QED BY <2>2, <2>3
<1>4. CASE n # 1 /\ r = 1
  <2>1. f = Join("RDN", Beginnings(Widths(row)), New("row", 1, T))
    BY <1>4 DEF HorzCat, HorzCatRow
  <2> HIDE DEF f, r, n
  <2>2. Makes(f, row, n, r, T)
    BY <1>1, <1>2, <1>4, <2>1, SideBySide
  <2> HIDE DEF T
  <2> QED BY <1>2, <2>2, MakesValue DEF RowMade, f, n
<1>5. CASE n # 1 /\ r # 1
  <2>1. f = Join("Args", << >>, New("mat", r, T))
    BY <1>5 DEF HorzCat, HorzCatArgs
  <2> HIDE DEF f, r, n
  <2>2. Makes(f, row, n, r, T)
    BY <1>1, <1>2, <1>5, <2>1, SideBySide
  <2> HIDE DEF T
  <2> QED BY <1>2, <2>2, MakesValue DEF RowMade, f, n
<1> QED BY <1>3, <1>4, <1>5

(* Solved on parts of these shapes, it goes on to be one.                  *)
LEMMA RowStays ==
  ASSUME NEW n \in Nat, n > 0, NEW f, NEW row, Parts(row, n), RowMade(f, row, n),
         NEW others, Parts(others, n), \A k \in 1..n : Alike(row[k], others[k])
  PROVE  LET g == JoinSolved(f, others)
         IN  /\ ~JoinPanics(f, others) /\ Retains(f, g) /\ RowMade(g, others, n)
             /\ Alike(RowResult(f, row), RowResult(g, others))
             /\ f # NoJoin => RowResult(g, others) \in AnyValue
             /\ g = NoJoin <=> f = NoJoin
<1> DEFINE g == JoinSolved(f, others)
<1>1. row[1] \in AnyValue /\ others[1] \in AnyValue /\ Alike(row[1], others[1])
  <2>1. 1 \in 1..n
    OBVIOUS
  <2> QED BY <2>1 DEF Parts
<1>2. CASE f = NoJoin \/ f = Shared
  <2>1. NeedsNoSolve(f) /\ g = f /\ ~JoinPanics(f, others) /\ Retains(f, g)
    BY <1>2 DEF NeedsNoSolve, JoinSolved, JoinPanics, Retains
  <2>2. f = Shared => RowResult(f, row) = row[1] /\ RowResult(f, others) = others[1]
    BY DEF RowResult
  <2>3. NoJoin # Shared
    BY DEF NoJoin, Shared, Join
  <2>4. f = NoJoin => RowResult(f, row) = f.out /\ RowResult(f, others) = f.out /\ Alike(f.out, f.out)
    BY <2>3 DEF RowResult, Alike
  <2> QED BY <1>1, <1>2, <2>1, <2>2, <2>3, <2>4 DEF RowMade
<1>3. CASE IsJoin(f) /\ JoinFits(f, row, n) /\ f.out \in AnyValue
  <2>1. ~NeedsNoSolve(f)
    BY <1>3, JoinsAreSolved
  <2>2. Retains(f, f)
    BY <1>3, <2>1 DEF Retains, AnyValue, KeepsForm
  <2>3. JoinFits(f, others, n)
    BY <1>3, <2>2, FitStays
  <2>4. ~JoinPanics(f, others) /\ Retains(f, g)
    BY <2>3, JoinRuns
  <2> HIDE DEF g
  <2>5. JoinFits(g, others, n)
    <3>1. \A k \in 1..n : Alike(others[k], others[k])
      BY DEF Alike
    <3> QED BY <2>3, <2>4, <3>1, FitStays
  <2>6. IsJoin(g) /\ g.out \in AnyResult /\ KeepsForm(f.out, g.out)
    BY <2>1, <2>4 DEF Retains
  <2>7. g.out \in AnyValue
    BY <1>3, <2>6 DEF AnyValue, KeepsForm
  <2>8. f # NoJoin /\ f # Shared /\ g # NoJoin /\ g # Shared
    <3>1. ~NeedsNoSolve(g)
      BY <2>6, JoinsAreSolved
    <3> QED BY <2>1, <3>1 DEF NeedsNoSolve
  <2>9. RowResult(f, row) = f.out /\ RowResult(g, others) = g.out
    BY <2>8 DEF RowResult
  <2>10. Alike(f.out, g.out)
    BY <2>6 DEF KeepsForm, Alike
  <2> QED BY <2>4, <2>5, <2>6, <2>7, <2>8, <2>9, <2>10 DEF RowMade, g
<1> QED BY <1>2, <1>3 DEF RowMade

LEMMA RowIsMade ==
  ASSUME NEW row \in Seq(AnyValue), row # << >>
  PROVE  /\ RowMade(matrix_row(row), row, Len(row))
         /\ matrix_row(row) # NoJoin => RowResult(matrix_row(row), row) \in AnyValue
         /\ matrix_row(row) # NoJoin => ~JoinPanics(HorzCat(row), row)
<1> DEFINE n == Len(row)
<1>1. n \in Nat /\ n > 0 /\ Parts(row, n) /\ DOMAIN row = 1..n
  BY PartsOf DEF Parts
<1>2. CASE \E k \in DOMAIN row : row[k].rows # row[1].rows
  <2>1. matrix_row(row) = NoJoin
    BY <1>2 DEF matrix_row
  <2> QED BY <2>1 DEF RowMade
<1>3. CASE \A k \in DOMAIN row : row[k].rows = row[1].rows
  <2>1. matrix_row(row) = JoinSolved(HorzCat(row), row)
    BY <1>3 DEF matrix_row
  <2>2. RowMade(HorzCat(row), row, n)
    BY <1>3, HorzCatFits
  <2>3. \A k \in 1..n : Alike(row[k], row[k])
    BY DEF Alike
  <2> HIDE DEF n
  <2>4. LET g == JoinSolved(HorzCat(row), row)
        IN  /\ ~JoinPanics(HorzCat(row), row) /\ RowMade(g, row, n)
            /\ HorzCat(row) # NoJoin => RowResult(g, row) \in AnyValue
            /\ g = NoJoin <=> HorzCat(row) = NoJoin
    BY <1>1, <2>2, <2>3, RowStays
  <2> QED BY <2>1, <2>4 DEF n
<1> QED BY <1>2, <1>3

LEMMA VertCatFits ==
  ASSUME NEW results \in Seq(AnyValue), results # << >>,
         \A k \in DOMAIN results : results[k].cols = results[1].cols
  PROVE  IsJoin(VertCat(results)) /\ JoinFits(VertCat(results), results, Len(results))
<1> DEFINE n == Len(results)
           f == VertCat(results)
           c == results[1].cols
           r == Total(Heights(results))
<1>1. n \in Nat /\ n > 0 /\ Parts(results, n) /\ DOMAIN results = 1..n
  BY PartsOf DEF Parts
<1>2. c \in Nat /\ \A k \in 1..n : results[k].cols = c
  <2>1. 1 \in 1..n
    BY <1>1
  <2>2. c \in Nat
    BY <1>1, <2>1, LengthsAre
  <2> QED BY <1>1, <2>2
<1>3. \/ f = Join("RowMajor", << >>, New("mat", r, c))
      \/ c = 1 /\ f = Join("VD", << >>, New("col", r, 1))
      \/ c = 1 /\ f = Join("VDN", Beginnings(Heights(results)), New("col", r, 1))
  BY DEF VertCat, VertCatVector, VertCatArgs
<1> HIDE DEF f, n, c
<1>4. Makes(f, results, n, r, c)
  BY <1>1, <1>2, <1>3, OnTop
<1> QED BY <1>4 DEF Makes, f, n

(* The parts of n rows, and those of others of the same shapes.            *)
Grid(rows, n) == \A r \in 1..n : rows[r] \in Seq(AnyValue) /\ rows[r] # << >>

GridsAlike(rows, others, n) ==
  \A r \in 1..n : /\ Len(others[r]) = Len(rows[r])
                  /\ \A k \in 1..Len(rows[r]) : Alike(rows[r][k], others[r][k])

(* f joins rows of these shapes: each row with a function that fits, and   *)
(* the rows with another, if all were built.                               *)
MatrixFits(f, rows, n) ==
  /\ f = [name |-> f.name, rows |-> f.rows, stack |-> f.stack, ok |-> f.ok]
  /\ DOMAIN f.rows = 1..n
  /\ \A r \in 1..n : RowMade(f.rows[r], rows[r], Len(rows[r]))
  /\ \/ NeedsNoSolve(f.stack)
     \/ /\ IsJoin(f.stack) /\ JoinFits(f.stack, RowResults(f.rows, rows), n)
        /\ \A r \in 1..n : f.rows[r] # NoJoin

LEMMA MatrixRuns ==
  ASSUME NEW n \in Nat, NEW rows, Grid(rows, n), NEW f, MatrixFits(f, rows, n),
         NEW others, Grid(others, n), GridsAlike(rows, others, n)
  PROVE  ~MatrixPanics(f, others) /\ MatrixFits(MatrixSolved(f, others), others, n)
<1> DEFINE joins == [r \in DOMAIN f.rows |-> JoinSolved(f.rows[r], others[r])]
           before == RowResults(f.rows, rows)
           after == RowResults(joins, others)
           over == JoinSolved(f.stack, after)
           g == MatrixSolved(f, others)
<1>1. ASSUME NEW r \in 1..n
      PROVE  /\ ~JoinPanics(f.rows[r], others[r])
             /\ RowMade(joins[r], others[r], Len(others[r]))
             /\ Alike(before[r], after[r])
             /\ f.rows[r] # NoJoin => after[r] \in AnyValue
             /\ joins[r] = NoJoin <=> f.rows[r] = NoJoin
  <2> DEFINE row == rows[r]
             other == others[r]
             m == Len(row)
             h == f.rows[r]
  <2>1. /\ row \in Seq(AnyValue) /\ row # << >> /\ other \in Seq(AnyValue) /\ other # << >>
        /\ Len(other) = m /\ \A k \in 1..m : Alike(row[k], other[k])
    BY DEF Grid, GridsAlike
  <2>2. m \in Nat /\ m > 0 /\ Parts(row, m) /\ Parts(other, m)
    BY <2>1, PartsOf
  <2>3. RowMade(h, row, m) /\ r \in DOMAIN f.rows
    BY DEF MatrixFits
  <2>4. joins[r] = JoinSolved(h, other) /\ DOMAIN joins = DOMAIN f.rows
    BY <2>3
  <2> HIDE DEF joins
  <2>5. before[r] = RowResult(h, row) /\ after[r] = RowResult(joins[r], other)
    BY <2>3, <2>4 DEF RowResults
  <2> HIDE DEF row, other, m, h, before, after
  <2>6. LET j == JoinSolved(h, other)
        IN  /\ ~JoinPanics(h, other) /\ Retains(h, j) /\ RowMade(j, other, m)
            /\ Alike(RowResult(h, row), RowResult(j, other))
            /\ h # NoJoin => RowResult(j, other) \in AnyValue
            /\ j = NoJoin <=> h = NoJoin
    BY <2>1, <2>2, <2>3, RowStays
  <2> QED BY <2>1, <2>4, <2>5, <2>6 DEF row, other, m, h
<1>2. /\ f = [name |-> f.name, rows |-> f.rows, stack |-> f.stack, ok |-> f.ok]
      /\ DOMAIN f.rows = 1..n /\ DOMAIN joins = 1..n
      /\ \/ NeedsNoSolve(f.stack)
         \/ IsJoin(f.stack) /\ JoinFits(f.stack, before, n) /\ \A r \in 1..n : f.rows[r] # NoJoin
  BY DEF MatrixFits
<1>3. DOMAIN after = 1..n
  BY <1>2 DEF RowResults
<1>4. MatrixPanics(f, others) <=> \/ \E r \in DOMAIN f.rows : JoinPanics(f.rows[r], others[r])
                                  \/ JoinPanics(f.stack, after)
  BY DEF MatrixPanics
<1>5. g = [f EXCEPT !.rows = joins, !.stack = over]
  BY DEF MatrixSolved
<1> HIDE DEF joins, before, over, g
<1>6. g = [name |-> f.name, rows |-> joins, stack |-> over, ok |-> f.ok]
  BY <1>2, <1>5
<1>7. g.rows = joins /\ g.stack = over /\ g = [name |-> g.name, rows |-> g.rows, stack |-> g.stack, ok |-> g.ok]
  BY <1>6
<1>8. CASE NeedsNoSolve(f.stack)
  <2>1. ~JoinPanics(f.stack, after) /\ over = f.stack
    BY <1>8 DEF JoinPanics, JoinSolved, over
  <2> QED BY <1>1, <1>2, <1>4, <1>7, <1>8, <2>1 DEF MatrixFits, g
<1>9. CASE ~NeedsNoSolve(f.stack)
  <2>1. Parts(after, n) /\ \A r \in 1..n : joins[r] # NoJoin
    BY <1>1, <1>2, <1>3, <1>9 DEF Parts
  <2>2. IsJoin(f.stack) /\ JoinFits(f.stack, before, n)
    BY <1>2, <1>9
  <2>3. f.stack.out \in AnyResult /\ Retains(f.stack, f.stack)
    BY <1>9, <2>2 DEF JoinFits, Spaced, Retains, KeepsForm
  <2>4. \A r \in 1..n : Alike(before[r], after[r])
    BY <1>1
  <2>5. JoinFits(f.stack, after, n)
    BY <2>2, <2>3, <2>4, FitStays
  <2>6. ~JoinPanics(f.stack, after) /\ Retains(f.stack, over)
    BY <2>1, <2>5, JoinRuns DEF over
  <2>7. \A r \in 1..n : Alike(after[r], after[r])
    BY DEF Alike
  <2>8. JoinFits(over, after, n) /\ IsJoin(over)
    <3>1. JoinFits(over, after, n)
      BY <2>5, <2>6, <2>7, FitStays
    <3> QED BY <1>9, <2>6, <3>1 DEF Retains
  <2>9. after = RowResults(g.rows, others)
    BY <1>7
  <2> HIDE DEF after
  <2> QED BY <1>1, <1>2, <1>4, <1>7, <2>1, <2>6, <2>8, <2>9 DEF MatrixFits, g
<1> QED BY <1>8, <1>9

LEMMA MatrixIsMade ==
  ASSUME NEW rows \in Seq(Seq(AnyValue) \ {<< >>}), rows # << >>
  PROVE  \E n \in 0..Len(rows) : MatrixFits(matrix(rows), rows, n)
<1> DEFINE joins == [r \in DOMAIN rows |-> matrix_row(rows[r])]
           results == RowResults(joins, rows)
           failed == {r \in DOMAIN rows : joins[r] = NoJoin}
           uneven == {r \in DOMAIN rows : results[r].cols # results[1].cols}
           bad == failed \cup uneven
           first == Min(bad)
           built == IF bad = {} THEN joins
                    ELSE SubSeq(joins, 1, IF first \in failed THEN first - 1 ELSE first)
           over == IF bad # {} \/ Len(rows) = 1 THEN NoJoin ELSE JoinSolved(VertCat(results), results)
           f == matrix(rows)
           N == Len(rows)
<1>1. N \in Nat /\ N > 0 /\ DOMAIN rows = 1..N /\ Grid(rows, N)
  <2>1. \A A : \A q \in Seq(A) : /\ Len(q) \in Nat /\ DOMAIN q = 1..Len(q) /\ (q # << >> => Len(q) > 0)
                                 /\ \A k \in 1..Len(q) : q[k] \in A
    OBVIOUS
  <2>2. /\ N \in Nat /\ DOMAIN rows = 1..N /\ N > 0
        /\ \A k \in 1..N : rows[k] \in Seq(AnyValue) \ {<< >>}
    BY <2>1, Zenon
  <2> QED BY <2>2 DEF Grid
<1>2. f = [name |-> "matrix", rows |-> built, stack |-> over, ok |-> bad = {}]
  BY DEF matrix
<1>3. DOMAIN joins = 1..N /\ \A r \in 1..N : joins[r] = matrix_row(rows[r])
  BY <1>1
<1> HIDE DEF joins
<1>4. DOMAIN results = 1..N /\ \A r \in 1..N : results[r] = RowResult(joins[r], rows[r])
  BY <1>3 DEF RowResults
<1>5. ASSUME NEW r \in 1..N
      PROVE  RowMade(joins[r], rows[r], Len(rows[r])) /\ (joins[r] # NoJoin => results[r] \in AnyValue)
  <2>1. rows[r] \in Seq(AnyValue) /\ rows[r] # << >>
    BY <1>1 DEF Grid
  <2>2. /\ RowMade(matrix_row(rows[r]), rows[r], Len(rows[r]))
        /\ matrix_row(rows[r]) # NoJoin => RowResult(matrix_row(rows[r]), rows[r]) \in AnyValue
    BY <2>1, RowIsMade
  <2> QED BY <1>3, <1>4, <2>2
<1>6. f.rows = built /\ f.stack = over /\ f = [name |-> f.name, rows |-> f.rows, stack |-> f.stack, ok |-> f.ok]
  BY <1>2
<1> HIDE DEF results, f, N
<1>7. CASE bad # {}
  <2>1. bad \in SUBSET (1..N)
    BY <1>1
  <2> HIDE DEF bad
  <2>2. first \in 1..N
    BY <1>1, <1>7, <2>1, MinExists
  <2> HIDE DEF first
  <2> DEFINE k == IF first \in failed THEN first - 1 ELSE first
  <2>3. k \in 0..N
    BY <1>1, <2>2
  <2>4. built = SubSeq(joins, 1, k)
    BY <1>7
  <2> HIDE DEF k, built
  <2>5. DOMAIN built = 1..k /\ \A r \in 1..k : built[r] = joins[r] /\ r \in 1..N
    BY <1>1, <1>3, <2>3, <2>4
  <2>6. NeedsNoSolve(over)
    BY <1>7 DEF NeedsNoSolve
  <2> HIDE DEF over
  <2>7. MatrixFits(f, rows, k)
    BY <1>5, <1>6, <2>5, <2>6 DEF MatrixFits
  <2> QED BY <2>3, <2>7 DEF N, f
<1>8. CASE bad = {}
  <2>1. built = joins
    BY <1>8
  <2>2. \A r \in 1..N : joins[r] # NoJoin /\ results[r].cols = results[1].cols
    BY <1>1, <1>8
  <2> HIDE DEF built
  <2>3. results \in Seq(AnyValue) /\ results # << >> /\ Len(results) = N /\ Parts(results, N)
    <3>1. \A r \in 1..N : results[r] \in AnyValue
      BY <1>5, <2>2
    <3>2. \A A : \A m \in Nat : \A q \in [1..m -> A] : q \in Seq(A) /\ Len(q) = m
      OBVIOUS
    <3>3. results = [r \in 1..N |-> results[r]]
      BY <1>4, <1>3 DEF results, RowResults
    <3>4. results \in Seq(AnyValue) /\ Len(results) = N
      <4>1. results \in [1..N -> AnyValue]
        BY <3>1, <3>3
      <4> QED BY <1>1, <3>2, <4>1, Zenon
    <3>5. results # << >>
      BY <1>1, <3>4
    <3> QED BY <1>4, <3>1, <3>4, <3>5 DEF Parts
  <2>4. CASE N = 1
    <3>1. NeedsNoSolve(over)
      BY <2>4 DEF NeedsNoSolve, N
    <3> HIDE DEF over
    <3>2. MatrixFits(f, rows, N)
      BY <1>3, <1>5, <1>6, <2>1, <3>1 DEF MatrixFits
    <3> QED BY <1>1, <3>2 DEF N, f
  <2>5. CASE N # 1
    <3>1. over = JoinSolved(VertCat(results), results)
      BY <1>8, <2>5 DEF N
    <3> HIDE DEF over
    <3>2. IsJoin(VertCat(results)) /\ JoinFits(VertCat(results), results, N)
      BY <1>4, <2>2, <2>3, VertCatFits
    <3>3. Retains(VertCat(results), over)
      BY <1>1, <2>3, <3>1, <3>2, JoinRuns
    <3>4. \A r \in 1..N : Alike(results[r], results[r])
      BY DEF Alike
    <3>5. JoinFits(over, results, N)
      BY <1>1, <3>2, <3>3, <3>4, FitStays
    <3>6. IsJoin(over)
      BY <3>2, <3>3, JoinsAreSolved DEF Retains
    <3>7. results = RowResults(f.rows, rows)
      BY <1>6, <2>1 DEF results
    <3>8. MatrixFits(f, rows, N)
      BY <1>3, <1>5, <1>6, <2>1, <2>2, <3>5, <3>6, <3>7 DEF MatrixFits
    <3> QED BY <1>1, <3>8 DEF N, f
  <2> QED BY <2>4, <2>5
<1> QED BY <1>7, <1>8

-----------------------------------------------------------------------------
(* The plan solved on the variables, entry by entry.                       *)

SolveFold(f, n, base, order) ==
  f = [s \in SUBSET (1..n) |-> IF s = {} THEN base ELSE SolveAt(f[s \ {Max(s)}], order[Max(s)])]

LEMMA SolveExists ==
  ASSUME NEW base, NEW order, NEW n \in Nat
  PROVE \E f : SolveFold(f, n, base, order)
<1> DEFINE G(f, k) == SolveFold(f, k, base, order)
           D == {k \in Nat : \E f : G(f, k)}
<1>1. 0 \in D
  <2>1. G([s \in SUBSET (1..0) |-> base], 0)
    BY DEF SolveFold
  <2> QED BY <2>1
<1>2. ASSUME NEW k \in Nat, k \in D PROVE k + 1 \in D
  <2>1. PICK f : G(f, k)
    BY <1>2
  <2> DEFINE T == SUBSET (1..(k + 1))
             value(s) == IF s = {} THEN base ELSE SolveAt(f[s \ {Max(s)}], order[Max(s)])
             g == [s \in T |-> value(s)]
  <2>2. \A s \in SUBSET (1..k) : s \in T /\ f[s] = value(s)
    <3>1. SUBSET (1..k) \subseteq T
      OBVIOUS
    <3>2. ASSUME NEW s \in SUBSET (1..k) PROVE f[s] = value(s)
      <4>1. f = [t \in SUBSET (1..k) |-> value(t)]
        BY <2>1 DEF SolveFold
      <4> HIDE DEF value
      <4> QED BY <4>1
    <3> HIDE DEF T, value
    <3> QED BY <3>1, <3>2
  <2>3. ASSUME NEW s \in T, s # {} PROVE f[s \ {Max(s)}] = g[s \ {Max(s)}]
    <3>1. s \ {Max(s)} \in SUBSET (1..k)
      BY <2>3, WithoutMax
    <3> HIDE DEF value
    <3> QED BY <2>2, <3>1
  <2>4. \A s \in T : g[s] = IF s = {} THEN base ELSE SolveAt(g[s \ {Max(s)}], order[Max(s)])
    BY <2>3
  <2>5. g = [s \in T |-> g[s]]
    OBVIOUS
  <2>6. G(g, k + 1)
    <3> HIDE DEF g
    <3> QED BY <2>4, <2>5 DEF SolveFold
  <2> HIDE DEF G
  <2> QED BY <2>6
<1>3. n \in D
  <2> HIDE DEF D
  <2> QED BY <1>1, <1>2, NatSetInduction
<1> QED BY <1>3

(* What the plan and the variables are after each entry.                   *)
LEMMA SolvedPlanIs ==
  ASSUME NEW n \in Nat, DOMAIN plan = 1..n
  PROVE  \E r : /\ r[0] = Now
                /\ \A k \in 1..n : r[k] = SolveAt(r[k - 1], k)
                /\ SolvedPlan = r[n]
<1> DEFINE order == [k \in DOMAIN plan |-> k]
           G(f) == SolveFold(f, n, Now, order)
           g == CHOOSE f : G(f)
<1>1. G(g)
  <2>1. \E f : G(f)
    BY SolveExists
  <2> QED BY <2>1, Zenon
<1>2. SolvedPlan = g[1..n]
  BY DEF SolvedPlan, FoldLeft, MapThenFoldSet, SolveFold
<1>3. \A k \in 1..n : order[k] = k
  OBVIOUS
<1> HIDE DEF g, order
<1> DEFINE r == [k \in 0..n |-> g[1..k]]
<1>4. r[0] = Now
  BY <1>1 DEF SolveFold
<1>5. ASSUME NEW k \in 1..n PROVE r[k] = SolveAt(r[k - 1], k)
  <2>1. /\ 1..k \in SUBSET (1..n) /\ 1..k # {} /\ (1..k) \ {k} = 1..(k - 1)
        /\ Max(1..k) = k /\ k - 1 \in 0..n
    BY FirstNumbers
  <2>2. g[1..k] = SolveAt(g[(1..k) \ {Max(1..k)}], order[Max(1..k)])
    BY <1>1, <2>1 DEF SolveFold
  <2>3. g[1..k] = SolveAt(g[1..(k - 1)], k)
    BY <1>3, <2>1, <2>2
  <2> QED BY <2>1, <2>3
<1>6. r[n] = g[1..n]
  OBVIOUS
<1> HIDE DEF r
<1> QED BY <1>2, <1>4, <1>5, <1>6

IsPlan(p) == \E F : p \in Seq([s : AnyStatement, f : F])

LEMMA PlanGrows ==
  ASSUME NEW p, IsPlan(p), NEW s \in AnyStatement, NEW f
  PROVE  LET q == Append(p, Item(s, f))
         IN  /\ IsPlan(q) /\ Len(q) = Len(p) + 1 /\ Len(p) \in Nat
             /\ \A k \in 1..Len(p) : q[k] = p[k]
             /\ q[Len(p) + 1].s = s /\ q[Len(p) + 1].f = f
<1>1. PICK F : p \in Seq([s : AnyStatement, f : F])
  BY DEF IsPlan
<1> DEFINE E == [s : AnyStatement, f : F \cup {f}]
           e == Item(s, f)
<1>2. [s : AnyStatement, f : F] \subseteq E /\ e \in E /\ e.s = s /\ e.f = f
  BY DEF Item
<1> HIDE DEF e
<1>3. E = [s : AnyStatement, f : F \cup {f}]
  OBVIOUS
<1> HIDE DEF E
<1>4. p \in Seq(E)
  <2>1. \A A, B : A \subseteq B => \A q \in Seq(A) : q \in Seq(B)
    OBVIOUS
  <2> QED BY <1>1, <1>2, <2>1, Zenon
<1>5. /\ Append(p, e) \in Seq(E) /\ Len(Append(p, e)) = Len(p) + 1 /\ Len(p) \in Nat
      /\ \A k \in 1..Len(p) : Append(p, e)[k] = p[k]
      /\ Append(p, e)[Len(p) + 1] = e
  BY <1>2, <1>4
<1>6. IsPlan(Append(p, e))
  BY <1>3, <1>5 DEF IsPlan
<1> QED BY <1>2, <1>5, <1>6 DEF e

Renews(q, p, k, a) == q = [p EXCEPT ![k].f = a]

LEMMA EntryChanges ==
  ASSUME NEW p, IsPlan(p), NEW k \in 1..Len(p), NEW a, NEW q, Renews(q, p, k, a)
  PROVE  /\ IsPlan(q) /\ Len(q) = Len(p) /\ Len(p) \in Nat
         /\ \A j \in 1..Len(p) : q[j].s = p[j].s /\ (j = k => q[j].f = a) /\ (j # k => q[j].f = p[j].f)
<1>1. PICK F : p \in Seq([s : AnyStatement, f : F])
  BY DEF IsPlan
<1> DEFINE E == [s : AnyStatement, f : F \cup {a}]
           n == Len(p)
<1>2. n \in Nat /\ DOMAIN p = 1..n /\ \A j \in 1..n : p[j] \in [s : AnyStatement, f : F]
  <2>1. \A A : \A w \in Seq(A) : Len(w) \in Nat /\ DOMAIN w = 1..Len(w) /\ \A j \in 1..Len(w) : w[j] \in A
    OBVIOUS
  <2> QED BY <1>1, <2>1, Zenon
<1>3. q = [j \in 1..n |-> IF j = k THEN [p[k] EXCEPT !.f = a] ELSE p[j]]
  BY <1>2 DEF Renews
<1> HIDE DEF n
<1>4. ASSUME NEW j \in 1..n
      PROVE  q[j] \in E /\ q[j].s = p[j].s /\ (j = k => q[j].f = a) /\ (j # k => q[j].f = p[j].f)
  <2>1. p[j] \in [s : AnyStatement, f : F]
    BY <1>2
  <2>2. CASE j = k
    BY <1>3, <2>1, <2>2
  <2>3. CASE j # k
    BY <1>3, <2>1, <2>3
  <2> QED BY <2>2, <2>3
<1>5. E = [s : AnyStatement, f : F \cup {a}]
  OBVIOUS
<1> HIDE DEF E
<1>6. q \in [1..n -> E]
  BY <1>3, <1>4
<1>7. q \in Seq(E) /\ Len(q) = n
  <2>1. \A m \in Nat : \A w \in [1..m -> E] : w \in Seq(E) /\ Len(w) = m
    OBVIOUS
  <2> QED BY <1>2, <1>6, <2>1, Zenon
<1>8. IsPlan(q)
  BY <1>5, <1>7 DEF IsPlan
<1> QED BY <1>2, <1>4, <1>7, <1>8 DEF n

-----------------------------------------------------------------------------
(* The invariant: what the variables hold and what the plan was built for. *)

Fitted(s, f) ==
  /\ s.do \in {"set", "op"} => Built(f, s.subs)
  /\ s.do = "read" => ReadSound(f, s.subs)

Sound(store, p) ==
  /\ store \in [Cells -> AnyValue]
  /\ IsPlan(p)
  /\ \A k \in 1..Len(p) : Fitted(p[k].s, p[k].f)

LEMMA StatementIs ==
  ASSUME NEW s \in AnyStatement
  PROVE  /\ s.do \in {"read", "set", "op", "build"}
         /\ s.do # "build" => s.cell \in Cells /\ s.subs \in AnySubscripts
         /\ s.do = "read" => s.subs # << >>
         /\ s.do \in {"set", "op"} => s.from \in AnySource
         /\ s.do = "op" => s.op \in Operators
         /\ s.do = "build" => s.rows \in Seq(Seq(AnySource) \ {<< >>}) \ {<< >>}
BY DEF AnyStatement

LEMMA SourceIs ==
  ASSUME NEW store \in [Cells -> AnyValue], NEW from \in AnySource
  PROVE  ValueIn(store, from) \in AnyValue
BY DEF AnySource, ValueIn

LEMMA ItselfIs ==
  ASSUME NEW item, NEW store
  PROVE  /\ IsItself(item) \in BOOLEAN
         /\ IsItself(item) => ValueIn(store, item.s.from) = store[item.s.cell]
BY DEF IsItself, ValueIn

LEMMA SolvingKeepsSound ==
  ASSUME NEW store, NEW p, NEW panicked \in BOOLEAN, Sound(store, p), NEW k \in 1..Len(p)
  PROVE  LET to == SolveAt([cells |-> store, plan |-> p, panicked |-> panicked], k)
         IN  /\ to = [cells |-> to.cells, plan |-> to.plan, panicked |-> to.panicked]
             /\ to.panicked \in BOOLEAN /\ Len(to.plan) = Len(p)
             /\ Sound(to.cells, to.plan)
             /\ \A j \in 1..Len(p) : to.plan[j].s = p[j].s
<1> DEFINE state == [cells |-> store, plan |-> p, panicked |-> panicked]
           item == p[k]
           s == item.s
           f == item.f
           x == store[s.cell]
           v == ValueIn(store, s.from)
           parts == PartsIn(store, s)
           to == SolveAt(state, k)
           y == AssignSolved(f, x, v, IsItself(item))
<1> DEFINE Goal(t) == /\ t = [cells |-> t.cells, plan |-> t.plan, panicked |-> t.panicked]
                      /\ t.panicked \in BOOLEAN /\ Len(t.plan) = Len(p)
                      /\ Sound(t.cells, t.plan)
                      /\ \A j \in 1..Len(p) : t.plan[j].s = p[j].s
<1>1. store \in [Cells -> AnyValue] /\ IsPlan(p) /\ Len(p) \in Nat /\ s \in AnyStatement
  <2>1. PICK F : p \in Seq([s : AnyStatement, f : F])
    BY DEF Sound, IsPlan
  <2>2. \A A : \A q \in Seq(A) : Len(q) \in Nat /\ \A j \in 1..Len(q) : q[j] \in A
    OBVIOUS
  <2>3. p[k] \in [s : AnyStatement, f : F] /\ Len(p) \in Nat
    BY <2>1, <2>2
  <2> QED BY <2>3 DEF Sound
<1>2. s.do \in {"read", "set", "op", "build"}
  BY <1>1, StatementIs
<1> HIDE DEF s
<1>3. Goal(state)
  <2> HIDE DEF x, v, y, f, parts
  <2> QED OBVIOUS
<1>4. Goal([state EXCEPT !.panicked = TRUE])
  <2> HIDE DEF x, v, y, f, parts
  <2>1. \A a, b, c, d : [[cells |-> a, plan |-> b, panicked |-> c] EXCEPT !.panicked = d]
                            = [cells |-> a, plan |-> b, panicked |-> d]
    OBVIOUS
  <2>2. [state EXCEPT !.panicked = TRUE] = [cells |-> store, plan |-> p, panicked |-> TRUE]
    BY <2>1, Zenon
  <2> QED BY <2>2
<1>5. ASSUME NEW a, Fitted(s, a) PROVE Goal([state EXCEPT !.plan[k].f = a])
  <2> DEFINE q == [p EXCEPT ![k].f = a]
  <2>1. [state EXCEPT !.plan[k].f = a] = [cells |-> store, plan |-> q, panicked |-> panicked]
    <3> HIDE DEF x, v, y, f, parts
    <3> QED OBVIOUS
  <2>2. /\ IsPlan(q) /\ Len(q) = Len(p)
        /\ \A j \in 1..Len(p) : q[j].s = p[j].s /\ (j = k => q[j].f = a) /\ (j # k => q[j].f = p[j].f)
    <3>1. IsPlan(p) /\ k \in 1..Len(p) /\ Renews(q, p, k, a)
      BY <1>1, Zenon DEF Renews
    <3> HIDE DEF q, state, item, f, x, v, parts, to, y, Goal
    <3> QED BY <3>1, EntryChanges
  <2> HIDE DEF q
  <2>3. Sound(store, q)
    BY <1>1, <1>5, <2>2 DEF Sound, s
  <2> QED BY <2>1, <2>2, <2>3
<1>6. ASSUME s.do \in {"set", "op"}, ~AssignPanics(f, x, v)
      PROVE  Goal([state EXCEPT !.cells[s.cell] = y])
  <2>1. s.cell \in Cells /\ s.subs \in AnySubscripts /\ s.from \in AnySource
    BY <1>1, <1>6, StatementIs
  <2>2. x \in AnyValue /\ v \in AnyValue
    BY <1>1, <2>1, SourceIs
  <2>3. Built(f, s.subs)
    BY <1>6 DEF Sound, Fitted, s
  <2>4. IsItself(item) \in BOOLEAN /\ (IsItself(item) => v = x)
    BY ItselfIs DEF s
  <2>5. y \in AnyValue
    <3> HIDE DEF f, x, v
    <3> QED BY <1>6, <2>1, <2>2, <2>3, <2>4, AssignSolvedIs
  <2> HIDE DEF x, v, y, f, parts
  <2>6. [state EXCEPT !.cells[s.cell] = y] = [cells |-> [store EXCEPT ![s.cell] = y], plan |-> p, panicked |-> panicked]
    OBVIOUS
  <2>7. [store EXCEPT ![s.cell] = y] \in [Cells -> AnyValue]
    BY <1>1, <2>5
  <2>8. Sound([store EXCEPT ![s.cell] = y], p)
    BY <2>7 DEF Sound
  <2> QED BY <2>6, <2>8
<1>9. ASSUME s.do = "read", ~AccessPanics(f, x) PROVE ReadSound(AccessSolved(f, x), s.subs)
  <2>1. s.cell \in Cells /\ s.subs \in AnySubscripts
    BY <1>1, <1>9, StatementIs
  <2>2. x \in AnyValue
    BY <1>1, <2>1
  <2>3. ReadSound(f, s.subs)
    BY <1>9 DEF Sound, Fitted, s
  <2> HIDE DEF x, f
  <2>4. AccessSink(f) = f.out
    BY <2>3, SinkStays DEF ReadSound
  <2> QED BY <1>9, <2>1, <2>2, <2>3, <2>4, SolvedReadIs DEF ReadSound
<1> HIDE DEF Goal
<1>7. CASE panicked
  <2>1. to = state
    BY <1>7 DEF SolveAt
  <2> QED BY <1>3, <2>1 DEF Goal
<1>8. CASE ~panicked
  <2>1. s.do = "build" => to = IF MatrixPanics(f, parts) THEN [state EXCEPT !.panicked = TRUE]
                               ELSE [state EXCEPT !.plan[k].f = MatrixSolved(@, parts)]
    BY <1>8 DEF SolveAt, s
  <2>2. s.do = "read" => to = IF AccessPanics(f, x) THEN [state EXCEPT !.panicked = TRUE]
                              ELSE [state EXCEPT !.plan[k].f = AccessSolved(@, x)]
    BY <1>8 DEF SolveAt, s
  <2>3. s.do \in {"set", "op"} => to = IF AssignPanics(f, x, v) THEN [state EXCEPT !.panicked = TRUE]
                                       ELSE [state EXCEPT !.cells[s.cell] = y]
    BY <1>8 DEF SolveAt, s
  <2>4. /\ [state EXCEPT !.plan[k].f = MatrixSolved(@, parts)] = [state EXCEPT !.plan[k].f = MatrixSolved(f, parts)]
        /\ [state EXCEPT !.plan[k].f = AccessSolved(@, x)] = [state EXCEPT !.plan[k].f = AccessSolved(f, x)]
    <3> HIDE DEF parts, x
    <3> QED OBVIOUS
  <2> DEFINE stopped == [state EXCEPT !.panicked = TRUE]
             renewed(a) == [state EXCEPT !.plan[k].f = a]
             written == [state EXCEPT !.cells[s.cell] = y]
  <2>a. s.do = "build" => to = IF MatrixPanics(f, parts) THEN stopped ELSE renewed(MatrixSolved(f, parts))
    BY <2>1, <2>4, Zenon
  <2>b. s.do = "read" => to = IF AccessPanics(f, x) THEN stopped ELSE renewed(AccessSolved(f, x))
    BY <2>2, <2>4, Zenon
  <2>c. s.do \in {"set", "op"} => to = IF AssignPanics(f, x, v) THEN stopped ELSE written
    BY <2>3, Zenon
  <2>d. Goal(stopped)
    BY <1>4, Zenon
  <2>e. \A a : Fitted(s, a) => Goal(renewed(a))
    BY <1>5, Zenon
  <2>f. s.do \in {"set", "op"} /\ ~AssignPanics(f, x, v) => Goal(written)
    BY <1>6, Zenon
  <2> HIDE DEF state, f, x, v, parts, y, to, stopped, renewed, written
  <2>5. ASSUME s.do = "build" PROVE Goal(to)
    <3>1. \A a : Fitted(s, a)
      BY <2>5 DEF Fitted
    <3> QED BY <2>5, <2>a, <2>d, <2>e, <3>1
  <2>6. ASSUME s.do = "read" PROVE Goal(to)
    <3>1. ASSUME ~AccessPanics(f, x) PROVE Fitted(s, AccessSolved(f, x))
      BY <1>9, <2>6, <3>1 DEF Fitted
    <3> QED BY <2>6, <2>b, <2>d, <2>e, <3>1
  <2>7. ASSUME s.do \in {"set", "op"} PROVE Goal(to)
    BY <2>7, <2>c, <2>d, <2>f
  <2>8. Goal(to)
    BY <1>2, <2>5, <2>6, <2>7
  <2> QED BY <2>8 DEF Goal, to, state
<1> QED BY <1>7, <1>8

LEMMA StepKeepsSound ==
  ASSUME Sound(cells, plan)
  PROVE  /\ Sound(SolvedPlan.cells, SolvedPlan.plan) /\ Len(SolvedPlan.plan) = Len(plan)
         /\ SolvedPlan.panicked \in BOOLEAN
         /\ \A j \in 1..Len(plan) : SolvedPlan.plan[j].s = plan[j].s
<1> DEFINE n == Len(plan)
           Good(t) == /\ t = [cells |-> t.cells, plan |-> t.plan, panicked |-> t.panicked]
                      /\ t.panicked \in BOOLEAN /\ Len(t.plan) = n
                      /\ Sound(t.cells, t.plan)
                      /\ \A j \in 1..n : t.plan[j].s = plan[j].s
<1>1. n \in Nat /\ DOMAIN plan = 1..n
  <2>1. \A A : \A q \in Seq(A) : Len(q) \in Nat /\ DOMAIN q = 1..Len(q)
    OBVIOUS
  <2> QED BY <2>1 DEF Sound, IsPlan
<1>2. PICK r : /\ r[0] = Now
               /\ \A k \in 1..n : r[k] = SolveAt(r[k - 1], k)
               /\ SolvedPlan = r[n]
  <2> HIDE DEF n
  <2> QED BY <1>1, SolvedPlanIs
<1> HIDE DEF n
<1>3. Good(r[0])
  <2>1. Now = [cells |-> cells, plan |-> plan, panicked |-> FALSE]
    BY DEF Now
  <2> QED BY <1>2, <2>1 DEF n
<1> DEFINE D == {k \in Nat : k <= n => Good(r[k])}
<1>4. 0 \in D
  BY <1>3
<1>5. ASSUME NEW k \in Nat, k \in D PROVE k + 1 \in D
  <2> SUFFICES ASSUME k + 1 <= n PROVE Good(r[k + 1])
    OBVIOUS
  <2>1. Good(r[k]) /\ k + 1 \in 1..n /\ (k + 1) - 1 = k
    BY <1>1, <1>5
  <2> DEFINE store == r[k].cells
             p == r[k].plan
             pk == r[k].panicked
  <2>2. r[k] = [cells |-> store, plan |-> p, panicked |-> pk] /\ pk \in BOOLEAN /\ Sound(store, p)
        /\ Len(p) = n /\ \A j \in 1..n : p[j].s = plan[j].s
    BY <2>1
  <2>3. r[k + 1] = SolveAt(r[k], k + 1)
    BY <1>2, <2>1
  <2> HIDE DEF store, p, pk
  <2>4. LET t == SolveAt([cells |-> store, plan |-> p, panicked |-> pk], k + 1)
        IN  /\ t = [cells |-> t.cells, plan |-> t.plan, panicked |-> t.panicked]
            /\ t.panicked \in BOOLEAN /\ Len(t.plan) = Len(p)
            /\ Sound(t.cells, t.plan)
            /\ \A j \in 1..Len(p) : t.plan[j].s = p[j].s
    BY <2>1, <2>2, SolvingKeepsSound
  <2> QED BY <2>2, <2>3, <2>4
<1>6. n \in D
  <2> HIDE DEF D
  <2> QED BY <1>1, <1>4, <1>5, NatSetInduction
<1> QED BY <1>1, <1>2, <1>6 DEF n

-----------------------------------------------------------------------------
(* The statements.                                                         *)

LEMMA InitSound == Init => Sound(cells, plan)
<1> SUFFICES ASSUME Init PROVE Sound(cells, plan)
  OBVIOUS
<1>1. cells \in [Cells -> AnyValue] /\ plan = << >>
  BY StatementsAssumption DEF Init
<1>2. << >> \in Seq([s : AnyStatement, f : {}])
  OBVIOUS
<1>3. IsPlan(<< >>)
  BY <1>2 DEF IsPlan
<1>4. Len(<< >>) = 0
  OBVIOUS
<1> QED BY <1>1, <1>3, <1>4 DEF Sound

(* A function is built by a statement that the script allows, for what its *)
(* subscripts say.                                                         *)
BuiltFor(s, f) ==
  \/ s.do = "set" /\ Family(s.subs) # <<"all", "all">>
     /\ f = AssignFunction(cells[s.cell], s.subs, ValueIn(cells, s.from))
  \/ s.do = "op" /\ OpAssignable(s.subs)
     /\ f = OpAssignFunction(s.op, cells[s.cell], s.subs, ValueIn(cells, s.from))

(* The plan has one entry more, for s.                                     *)
Adds(s, f) == plan' = Append(plan, Item(s, f))

(* What an assignment that runs leaves.                                    *)
Writing(s, f) ==
  LET x == cells[s.cell]
      v == ValueIn(cells, s.from)
  IN  /\ f # NoAssigns /\ ~AssignPanics(f, x, v) /\ Adds(s, f)
      /\ cells' = [cells EXCEPT ![s.cell] = AssignSolved(f, x, v, IsItself(Item(s, f)))]

LEMMA RunDoes ==
  ASSUME NEW s, NEW f, Run(s, f)
  PROVE  Writing(s, f) \/ UNCHANGED <<cells, plan>>
BY DEF Run, Writing, Adds, Ends

LEMMA StatementsDo ==
  ASSUME Sound(cells, plan), Statement
  PROVE  \E s \in AnyStatement :
           \/ UNCHANGED <<cells, plan>>
           \/ s.do \in {"read", "build"} /\ UNCHANGED cells /\ \E f : Adds(s, f) /\ Fitted(s, f)
           \/ \E f : BuiltFor(s, f) /\ Writing(s, f)
<1>1. PICK s : /\ s \in Script[Len(plan) + 1] /\ Len(plan) < Len(Script)
               /\ \/ s.do = "read" /\ Read(s)
                  \/ s.do = "set" /\ Set(s)
                  \/ s.do = "op" /\ OpSet(s)
                  \/ s.do = "build" /\ Build(s)
  BY DEF Statement
<1>2. s \in AnyStatement
  <2>1. \A A : \A q \in Seq(A) : Len(q) \in Nat
    OBVIOUS
  <2>2. Len(plan) \in Nat
    BY <2>1 DEF Sound, IsPlan
  <2>3. \A A : \A q \in Seq(A) : \A n \in Nat : n < Len(q) => q[n + 1] \in A
    OBVIOUS
  <2>4. Script[Len(plan) + 1] \in SUBSET AnyStatement
    BY <1>1, <2>2, <2>3, StatementsAssumption, Zenon
  <2> QED BY <1>1, <2>4
<1>3. CASE s.do = "read" /\ Read(s)
  <2> DEFINE x == cells[s.cell]
             f == AccessFunction(x, s.subs)
  <2>1. s.cell \in Cells /\ s.subs \in AnySubscripts \ {<< >>} /\ cells \in [Cells -> AnyValue]
    BY <1>2, <1>3, StatementIs DEF Sound
  <2>2. x \in AnyValue
    BY <2>1
  <2>3. \/ \E how : Ends(s, how)
        \/ /\ Family(s.subs) # <<"all", "all">> /\ f # NoFunction /\ ~AccessPanics(f, x)
           /\ Adds(s, AccessSolved(f, x)) /\ UNCHANGED cells
    BY <1>3 DEF Read, Adds
  <2> HIDE DEF x
  <2>4. ASSUME Family(s.subs) # <<"all", "all">>, f # NoFunction, ~AccessPanics(f, x)
        PROVE  Fitted(s, AccessSolved(f, x))
    <3>1. ReadsFrom(f, x, s.subs) /\ IsFunction(f)
      BY <2>1, <2>2, <2>4, AccessesRead, AccessIsFunction
    <3> HIDE DEF f
    <3>2. ReadSound(AccessSolved(f, x), s.subs)
      BY <2>1, <2>2, <2>4, <3>1, SolvedReadIs DEF ReadsFrom
    <3> QED BY <1>3, <3>2 DEF Fitted
  <2> HIDE DEF f
  <2> QED BY <1>2, <1>3, <2>3, <2>4 DEF Ends
<1>4. CASE s.do = "build" /\ Build(s)
  <2> DEFINE f == matrix(PartsIn(cells, s))
  <2>1. \/ Ends(s, "panic")
        \/ plan' = plan /\ UNCHANGED cells
        \/ plan' = Append(plan, Item(s, f)) /\ UNCHANGED cells
    BY <1>4 DEF Build
  <2> HIDE DEF f
  <2>2. Fitted(s, f)
    BY <1>4 DEF Fitted
  <2> QED BY <1>2, <1>4, <2>1, <2>2 DEF Ends, Adds
<1>5. CASE s.do = "set" /\ Set(s)
  <2> DEFINE f == AssignFunction(cells[s.cell], s.subs, ValueIn(cells, s.from))
  <2>1. Ends(s, "panic") \/ (Family(s.subs) # <<"all", "all">> /\ Run(s, f))
    BY <1>5 DEF Set
  <2>2. Family(s.subs) # <<"all", "all">> => BuiltFor(s, f)
    BY <1>5 DEF BuiltFor
  <2> HIDE DEF f
  <2> QED BY <1>2, <2>1, <2>2, RunDoes DEF Ends
<1>6. CASE s.do = "op" /\ OpSet(s)
  <2> DEFINE f == OpAssignFunction(s.op, cells[s.cell], s.subs, ValueIn(cells, s.from))
  <2>1. Ends(s, "panic") \/ (OpAssignable(s.subs) /\ Run(s, f))
    BY <1>6 DEF OpSet
  <2>2. OpAssignable(s.subs) => BuiltFor(s, f)
    BY <1>6 DEF BuiltFor
  <2> HIDE DEF f
  <2> QED BY <1>2, <2>1, <2>2, RunDoes DEF Ends
<1> QED BY <1>1, <1>3, <1>4, <1>5, <1>6

(* What an assignment does to the variable it assigns.                     *)
LEMMA WritingIs ==
  ASSUME Sound(cells, plan), NEW s \in AnyStatement, NEW f, BuiltFor(s, f), Writing(s, f)
  PROVE  LET x == cells[s.cell]
             v == ValueIn(cells, s.from)
             y == cells'[s.cell]
         IN  /\ s.do \in {"set", "op"} /\ s.cell \in Cells /\ s.subs \in AnySubscripts
             /\ x \in AnyValue /\ v \in AnyValue /\ y \in AnyValue
             /\ Built(f, s.subs)
             /\ cells' = [cells EXCEPT ![s.cell] = y] /\ cells' \in [Cells -> AnyValue]
             /\ f.name = "assign_value" => y = v
             /\ f.name # "assign_value" => WritesOnly(x, y, AssignMoves(f, x, v))
             /\ s.subs # << >> /\ f.name \notin Strays => AssignsTo(f, x, s.subs, v)
<1> DEFINE x == cells[s.cell]
           v == ValueIn(cells, s.from)
           item == Item(s, f)
           z == AssignSolved(f, x, v, IsItself(item))
<1>1. s.do \in {"set", "op"}
  BY DEF BuiltFor
<1>2. /\ s.cell \in Cells /\ s.subs \in AnySubscripts /\ s.from \in AnySource
      /\ s.do = "op" => s.op \in Operators
  BY <1>1, StatementIs
<1>3. cells \in [Cells -> AnyValue] /\ x \in AnyValue /\ v \in AnyValue
  BY <1>2, SourceIs DEF Sound
<1>4. f # NoAssigns /\ ~AssignPanics(f, x, v) /\ cells' = [cells EXCEPT ![s.cell] = z]
  BY DEF Writing
<1>5. IsItself(item) \in BOOLEAN /\ (IsItself(item) => v = x)
  <2>1. item.s = s
    BY DEF Item
  <2> HIDE DEF item
  <2> QED BY <2>1, ItselfIs
<1>6. \/ s.do = "set" /\ Family(s.subs) # <<"all", "all">> /\ f = AssignFunction(x, s.subs, v)
      \/ s.do = "op" /\ OpAssignable(s.subs) /\ f = OpAssignFunction(s.op, x, s.subs, v)
  BY DEF BuiltFor
<1> HIDE DEF x, v, item
<1>7. Built(f, s.subs)
  BY <1>2, <1>4, <1>6, BuiltBy
<1>8. ASSUME s.subs # << >>, f.name \notin Strays PROVE AssignsTo(f, x, s.subs, v)
  <2>1. s.subs \in AnySubscripts \ {<< >>}
    BY <1>2, <1>8
  <2>2. CASE s.do = "set"
    BY <1>3, <1>4, <1>6, <1>8, <2>1, <2>2, AssignsServe
  <2>3. CASE s.do = "op"
    BY <1>2, <1>3, <1>4, <1>6, <1>8, <2>1, <2>3, OpAssignsServe
  <2> QED BY <1>1, <2>2, <2>3
<1>9. /\ z \in AnyValue
      /\ f.name = "assign_value" => z = v
      /\ f.name # "assign_value" => WritesOnly(x, z, AssignMoves(f, x, v))
  BY <1>2, <1>3, <1>4, <1>5, <1>7, AssignSolvedIs
<1> HIDE DEF z
<1>10. cells'[s.cell] = z /\ cells' \in [Cells -> AnyValue]
  BY <1>2, <1>3, <1>4, <1>9
<1> QED BY <1>1, <1>2, <1>3, <1>4, <1>7, <1>8, <1>9, <1>10 DEF x, v

LEMMA NextSound ==
  ASSUME Sound(cells, plan), [Next]_vars
  PROVE  Sound(cells', plan')
<1>1. cells \in [Cells -> AnyValue] /\ IsPlan(plan)
      /\ \A k \in 1..Len(plan) : Fitted(plan[k].s, plan[k].f)
  BY DEF Sound
<1>2. CASE UNCHANGED <<cells, plan>>
  BY <1>2 DEF Sound
<1>3. ASSUME NEW s \in AnyStatement, NEW f, Adds(s, f), cells' \in [Cells -> AnyValue], Fitted(s, f)
      PROVE  Sound(cells', plan')
  <2> DEFINE q == Append(plan, Item(s, f))
             n == Len(plan)
  <2>1. /\ IsPlan(q) /\ Len(q) = n + 1 /\ n \in Nat
        /\ \A k \in 1..n : q[k] = plan[k]
        /\ q[n + 1].s = s /\ q[n + 1].f = f
    BY <1>1, PlanGrows
  <2>2. plan' = q
    BY <1>3 DEF Adds
  <2> HIDE DEF q, n
  <2>3. ASSUME NEW k \in 1..(n + 1) PROVE Fitted(q[k].s, q[k].f)
    <3>1. CASE k = n + 1
      BY <1>3, <2>1, <3>1
    <3>2. CASE k # n + 1
      <4>1. k \in 1..n
        BY <2>1, <3>2
      <4> QED BY <1>1, <2>1, <4>1 DEF n
    <3> QED BY <3>1, <3>2
  <2> QED BY <1>3, <2>1, <2>2, <2>3 DEF Sound
<1>4. CASE Statement
  <2>1. PICK s \in AnyStatement :
           \/ UNCHANGED <<cells, plan>>
           \/ s.do \in {"read", "build"} /\ UNCHANGED cells /\ \E f : Adds(s, f) /\ Fitted(s, f)
           \/ \E f : BuiltFor(s, f) /\ Writing(s, f)
    BY <1>4, StatementsDo
  <2>2. CASE s.do \in {"read", "build"} /\ UNCHANGED cells /\ \E f : Adds(s, f) /\ Fitted(s, f)
    <3>1. cells' \in [Cells -> AnyValue]
      BY <1>1, <2>2
    <3> QED BY <1>3, <2>2, <3>1
  <2>3. CASE \E f : BuiltFor(s, f) /\ Writing(s, f)
    <3>1. PICK f : BuiltFor(s, f) /\ Writing(s, f)
      BY <2>3
    <3>2. Adds(s, f) /\ cells' \in [Cells -> AnyValue] /\ Built(f, s.subs) /\ s.do \in {"set", "op"}
      BY <3>1, WritingIs DEF Writing
    <3>3. Fitted(s, f)
      BY <3>2 DEF Fitted
    <3> QED BY <1>3, <3>2, <3>3
  <2> QED BY <1>2, <2>1, <2>2, <2>3
<1>5. CASE Step
  <2>1. UNCHANGED <<cells, plan>> \/ (cells' = SolvedPlan.cells /\ plan' = SolvedPlan.plan)
    BY <1>5 DEF Step
  <2> QED BY <1>2, <2>1, StepKeepsSound
<1> QED BY <1>2, <1>4, <1>5 DEF Next, vars

(* Variables keep being values, and every assignment in the plan is one    *)
(* that its statement may have built.                                      *)
THEOREM ProgramsAreSound == Spec => []Sound(cells, plan)
<1>1. Init => Sound(cells, plan)
  BY InitSound
<1>2. Sound(cells, plan) /\ [Next]_vars => Sound(cells, plan)'
  BY NextSound
<1> QED BY <1>1, <1>2, PTL DEF Spec

(* What the last entry of the plan is, when a statement added it.          *)
LEMMA LatestIs ==
  ASSUME Sound(cells, plan), NEW s \in AnyStatement, NEW f, Adds(s, f)
  PROVE  Latest.s = s /\ Latest.f = f
<1> DEFINE q == Append(plan, Item(s, f))
<1>1. IsPlan(q) /\ Len(q) = Len(plan) + 1 /\ q[Len(plan) + 1].s = s /\ q[Len(plan) + 1].f = f
  BY PlanGrows DEF Sound
<1>2. plan' = q
  BY DEF Adds
<1> HIDE DEF q
<1> QED BY <1>1, <1>2 DEF Latest

LEMMA StepSelects ==
  ASSUME Sound(cells, plan), [Next]_vars, Assigned, Latest.s.subs # << >>, Latest.f.name \notin Strays
  PROVE  LET s == Latest.s
             x == cells[s.cell]
             y == cells'[s.cell]
         IN  /\ \A c \in Cells \ {s.cell} : cells'[c] = cells[c]
             /\ SameForm(x, y) /\ SameShape(x, y)
             /\ \A i \in 1..Size(x) : y.elems[i] # x.elems[i] => i \in SelectedBy(x, s.subs)
<1>1. Len(plan) \in Nat /\ Len(plan') = Len(plan) + 1
  <2>1. \A A : \A q \in Seq(A) : Len(q) \in Nat
    OBVIOUS
  <2> QED BY <2>1 DEF Sound, IsPlan, Assigned
<1>2. plan' # plan
  BY <1>1
<1>3. ~Step
  BY <1>1, <1>2, StepKeepsSound DEF Step
<1>4. Statement
  BY <1>2, <1>3 DEF Next, vars
<1>5. PICK s, f : s \in AnyStatement /\ BuiltFor(s, f) /\ Writing(s, f)
  <2>1. PICK s \in AnyStatement :
           \/ UNCHANGED <<cells, plan>>
           \/ s.do \in {"read", "build"} /\ UNCHANGED cells /\ \E f : Adds(s, f) /\ Fitted(s, f)
           \/ \E f : BuiltFor(s, f) /\ Writing(s, f)
    BY <1>4, StatementsDo
  <2>2. ASSUME NEW f, Adds(s, f) PROVE s.do \in {"set", "op"}
    BY <2>2, LatestIs DEF Assigned, Latest
  <2> QED BY <1>2, <2>1, <2>2
<1>6. Latest.s = s /\ Latest.f = f
  BY <1>5, LatestIs DEF Writing
<1> DEFINE x == cells[s.cell]
           v == ValueIn(cells, s.from)
           y == cells'[s.cell]
           moves == AssignMoves(f, x, v)
<1>7. /\ s.cell \in Cells /\ cells \in [Cells -> AnyValue] /\ cells' = [cells EXCEPT ![s.cell] = y]
      /\ f.name # "assign_value" => WritesOnly(x, y, moves)
      /\ AssignsTo(f, x, s.subs, v)
  BY <1>5, <1>6, WritingIs DEF Sound
<1>8. WritesOnly(x, y, moves) /\ Serves(moves, x, s.subs, v)
  BY <1>7 DEF AssignsTo
<1>9. \A c \in Cells \ {s.cell} : cells'[c] = cells[c]
  BY <1>7
<1> HIDE DEF x, y, v, moves
<1>10. ASSUME NEW i \in 1..Size(x), y.elems[i] # x.elems[i] PROVE i \in SelectedBy(x, s.subs)
  <2>1. PICK k \in DOMAIN moves : moves[k].to = i
    BY <1>8, <1>10 DEF WritesOnly
  <2>2. PICK r \in 1..Len(RowsOf(x, s.subs)), c \in 1..Len(ColsOf(x, s.subs)) : i = Place(x, s.subs, r, c)
    BY <1>8, <2>1 DEF Serves, ServesAt
  <2> QED BY <2>2 DEF Place, SelectedBy, ToSet
<1> QED BY <1>6, <1>8, <1>9, <1>10 DEF x, y, WritesOnly, KeepsForm, SameForm, SameShape

(* An assignment to a part of a variable changes no other variable, no     *)
(* shape and no element that its subscripts do not select.                 *)
THEOREM AssignmentsAreSelective == Spec => AssignsOnlySelected
<1>1. Sound(cells, plan) /\ [Next]_vars =>
        (Assigned /\ Latest.s.subs # << >> /\ Latest.f.name \notin Strays =>
           LET s == Latest.s
               x == cells[s.cell]
               y == cells'[s.cell]
           IN  /\ \A c \in Cells \ {s.cell} : cells'[c] = cells[c]
               /\ SameForm(x, y) /\ SameShape(x, y)
               /\ \A i \in 1..Size(x) : y.elems[i] # x.elems[i] => i \in SelectedBy(x, s.subs))
  BY StepSelects
<1> QED BY <1>1, ProgramsAreSound, PTL DEF Spec, AssignsOnlySelected

(* How often the plan was stepped, and how the program ended.              *)
Counted == steps \in 0..MaxSteps /\ outcome \in {"ok", "error", "panic"}

LEMMA NextCounts ==
  ASSUME Counted, [Next]_vars
  PROVE  Counted'
<1>1. MaxSteps \in Nat
  BY StatementsAssumption
<1>2. CASE Statement
  <2>1. ASSUME NEW s, NEW how, how \in {"panic", "error"}, Ends(s, how) PROVE Counted'
    BY <2>1 DEF Ends, Counted
  <2>2. ASSUME NEW s, NEW f, Run(s, f) PROVE Counted'
    BY <2>1, <2>2 DEF Run, Counted
  <2>3. ASSUME NEW s, Read(s) PROVE Counted'
    BY <2>1, <2>3 DEF Read, Counted
  <2>4. ASSUME NEW s, Build(s) PROVE Counted'
    BY <2>1, <2>4 DEF Build, Counted
  <2>5. ASSUME NEW s, Set(s) PROVE Counted'
    BY <2>1, <2>2, <2>5 DEF Set
  <2>6. ASSUME NEW s, OpSet(s) PROVE Counted'
    BY <2>1, <2>2, <2>6 DEF OpSet
  <2> QED BY <1>2, <2>3, <2>4, <2>5, <2>6 DEF Statement
<1>3. CASE Step
  BY <1>1, <1>3 DEF Step, Counted
<1>4. CASE UNCHANGED vars
  BY <1>4 DEF Counted, vars
<1> QED BY <1>2, <1>3, <1>4 DEF Next

(* Every variable keeps as many elements as its shape has, and so does the *)
(* result of every read in the plan.                                       *)
THEOREM ProgramsAreTyped == Spec => []TypeOK
<1>1. Init => Counted
  BY StatementsAssumption DEF Init, Counted
<1>2. Spec => []Counted
  BY <1>1, NextCounts, PTL DEF Spec
<1>3. Sound(cells, plan) /\ Counted => TypeOK
  <2> SUFFICES ASSUME Sound(cells, plan), Counted PROVE TypeOK
    OBVIOUS
  <2>1. \A c \in Cells : Size(cells[c]) = cells[c].rows * cells[c].cols
    BY DEF Sound, AnyValue, AnyResult
  <2>2. ASSUME NEW k \in DOMAIN plan, plan[k].s.do = "read"
        PROVE  Size(plan[k].f.out) = plan[k].f.out.rows * plan[k].f.out.cols
    <3>1. k \in 1..Len(plan)
      <4>1. \A A : \A q \in Seq(A) : DOMAIN q = 1..Len(q)
        OBVIOUS
      <4> QED BY <4>1 DEF Sound, IsPlan
    <3>2. plan[k].f.out \in AnyResult
      BY <2>2, <3>1 DEF Sound, Fitted, ReadSound
    <3> QED BY <3>2 DEF AnyResult
  <2> QED BY <2>1, <2>2 DEF TypeOK, Counted
<1> QED BY <1>2, <1>3, ProgramsAreSound, PTL

-----------------------------------------------------------------------------
(* Which statements run.                                                   *)

(* The parts of a literal.                                                 *)
LEMMA PartsAre ==
  ASSUME NEW store \in [Cells -> AnyValue], NEW s \in AnyStatement, s.do = "build"
  PROVE  LET rows == PartsIn(store, s)
         IN  /\ rows \in Seq(Seq(AnyValue) \ {<< >>}) /\ rows # << >> /\ Len(rows) = Len(s.rows)
             /\ \A r \in 1..Len(rows) :
                  /\ Len(rows[r]) = Len(s.rows[r])
                  /\ \A k \in 1..Len(rows[r]) : rows[r][k] = ValueIn(store, s.rows[r][k])
                                                 /\ s.rows[r][k] \in AnySource
<1> DEFINE rows == PartsIn(store, s)
           n == Len(s.rows)
<1>1. s.rows \in Seq(Seq(AnySource) \ {<< >>}) /\ s.rows # << >>
  BY StatementIs
<1>2. \A A : \A q \in Seq(A) : /\ Len(q) \in Nat /\ DOMAIN q = 1..Len(q) /\ (q # << >> => Len(q) > 0)
                               /\ \A k \in 1..Len(q) : q[k] \in A
  OBVIOUS
<1>3. /\ n \in Nat /\ DOMAIN s.rows = 1..n /\ n > 0
      /\ \A r \in 1..n : s.rows[r] \in Seq(AnySource) \ {<< >>}
  BY <1>1, <1>2, Zenon
<1>4. \A A : \A m \in Nat : \A q \in [1..m -> A] : q \in Seq(A) /\ Len(q) = m
  OBVIOUS
<1>5. rows = [r \in 1..n |-> [k \in DOMAIN s.rows[r] |-> ValueIn(store, s.rows[r][k])]]
  BY <1>3 DEF PartsIn
<1> HIDE DEF rows, n
<1>6. ASSUME NEW r \in 1..n
      PROVE  /\ rows[r] \in Seq(AnyValue) \ {<< >>} /\ Len(rows[r]) = Len(s.rows[r])
             /\ \A k \in 1..Len(rows[r]) : rows[r][k] = ValueIn(store, s.rows[r][k])
                                            /\ s.rows[r][k] \in AnySource
  <2> DEFINE q == s.rows[r]
             m == Len(q)
             row == rows[r]
  <2>1. m \in Nat /\ m > 0 /\ DOMAIN q = 1..m /\ \A k \in 1..m : q[k] \in AnySource
    <3>1. q \in Seq(AnySource) /\ q # << >>
      BY <1>3
    <3> QED BY <1>2, <3>1, Zenon
  <2>2. row = [k \in 1..m |-> ValueIn(store, q[k])]
    BY <1>5, <2>1
  <2> HIDE DEF q, m, row
  <2>3. \A k \in 1..m : row[k] = ValueIn(store, q[k]) /\ row[k] \in AnyValue
    BY <2>1, <2>2, SourceIs
  <2>4. row \in [1..m -> AnyValue]
    BY <2>2, <2>3
  <2>5. row \in Seq(AnyValue) /\ Len(row) = m
    BY <1>4, <2>1, <2>4, Zenon
  <2>6. row # << >>
    BY <2>1, <2>5
  <2> QED BY <2>1, <2>3, <2>5, <2>6 DEF q, m, row
<1>7. rows \in Seq(Seq(AnyValue) \ {<< >>}) /\ Len(rows) = n
  <2>1. rows \in [1..n -> Seq(AnyValue) \ {<< >>}]
    <3>1. DOMAIN rows = 1..n /\ rows = [r \in 1..n |-> rows[r]]
      BY <1>5
    <3> QED BY <1>6, <3>1
  <2> QED BY <1>3, <1>4, <2>1, Zenon
<1>8. rows # << >>
  BY <1>3, <1>7
<1> QED BY <1>6, <1>7, <1>8 DEF rows, n

(* A literal that is built of values does not panic, and fits.             *)
LEMMA BuildsRun ==
  ASSUME NEW rows \in Seq(Seq(AnyValue) \ {<< >>}), rows # << >>
  PROVE  /\ ~MatrixPanics(matrix(rows), rows)
         /\ \E n \in 0..Len(rows) : MatrixFits(matrix(rows), rows, n)
<1>1. PICK n \in 0..Len(rows) : MatrixFits(matrix(rows), rows, n)
  BY MatrixIsMade
<1>2. n \in Nat /\ Grid(rows, n)
  <2>1. \A A : \A q \in Seq(A) : Len(q) \in Nat /\ \A k \in 1..Len(q) : q[k] \in A
    OBVIOUS
  <2>2. Len(rows) \in Nat /\ \A k \in 1..Len(rows) : rows[k] \in Seq(AnyValue) \ {<< >>}
    BY <2>1, Zenon
  <2>3. n \in Nat /\ 1..n \subseteq 1..Len(rows)
    BY <2>2
  <2> QED BY <2>2, <2>3 DEF Grid
<1>3. GridsAlike(rows, rows, n)
  BY DEF GridsAlike, Alike
<1>4. ~MatrixPanics(matrix(rows), rows)
  BY <1>1, <1>2, <1>3, MatrixRuns
<1> QED BY <1>1, <1>4

(* An assignment of a whole variable never panics.                         *)
LEMMA WholeAssignsRun ==
  ASSUME NEW x \in AnyValue, NEW v \in AnyValue, NEW f, f.name \in WholeNames
  PROVE  ~AssignPanics(f, x, v)
<1>1. CASE f.name = "assign_value"
  <2>1. AssignMoves(f, x, v) = << >>
    BY <1>1 DEF AssignMoves
  <2>2. DOMAIN << >> = {}
    OBVIOUS
  <2> QED BY <2>1, <2>2 DEF AssignPanics, Panics
<1>2. CASE f.name \in {"op_assign_vs", "op_assign_vv"}
  <2> DEFINE N == IF IsMatrix(v) THEN Min({Size(x), Size(v)}) ELSE Size(x)
             moves == AssignMoves(f, x, v)
  <2>1. Size(x) \in Nat /\ Size(v) \in Nat /\ Size(v) > 0
    BY ValueIsResult
  <2>2. N \in Nat /\ N <= Size(x) /\ (IsMatrix(v) => N <= Size(v))
    BY <2>1, MinIs
  <2>3. moves = [i \in 1..N |-> Move(i, ValueAt(v, i))]
    <3>1. moves = op_assign_whole(x, v)
      BY <1>2, MovesAre
    <3> QED BY <3>1 DEF op_assign_whole, Loop
  <2> HIDE DEF N, moves
  <2>4. ASSUME NEW i \in 1..N PROVE moves[i].to \in 1..Size(x) /\ moves[i].from \in 1..Size(v)
    <3>1. moves[i].to = i /\ moves[i].from = ValueAt(v, i)
      BY <2>3 DEF Move
    <3>2. ValueAt(v, i) \in 1..Size(v)
      BY <2>1, <2>2 DEF ValueAt, Index1d
    <3> QED BY <2>1, <2>2, <3>1, <3>2
  <2>5. DOMAIN moves = 1..N
    BY <2>3
  <2> QED BY <2>4, <2>5 DEF AssignPanics, Panics, moves
<1> QED BY <1>1, <1>2 DEF WholeNames

(* An assignment of a value that fits to elements that exist neither.      *)
LEMMA FittingAssignsRun ==
  ASSUME NEW x \in AnyValue, NEW v \in AnyValue, NEW subs \in AnySubscripts \ {<< >>}, NEW f,
         AssignsTo(f, x, subs, v), InBounds(x, subs), Fits(x, subs, v)
  PROVE  ~AssignPanics(f, x, v)
<1> DEFINE moves == AssignMoves(f, x, v)
<1>1. \A r \in 1..Len(RowsOf(x, subs)), c \in 1..Len(ColsOf(x, subs)) :
        Place(x, subs, r, c) # Outside /\ Place(x, subs, r, c) \in 1..Size(x)
  BY InBoundsIs
<1>2. \A k \in DOMAIN moves : ServesAt(moves[k], x, subs, v)
  BY DEF AssignsTo, Serves
<1> HIDE DEF moves
<1>3. ASSUME NEW k \in DOMAIN moves PROVE moves[k].to \in 1..Size(x) /\ moves[k].from \in 1..Size(v)
  <2>1. PICK r \in 1..Len(RowsOf(x, subs)), c \in 1..Len(ColsOf(x, subs)) :
          /\ moves[k].to = Place(x, subs, r, c)
          /\ Fits(x, subs, v) /\ moves[k].to # Outside => moves[k].from \in 1..Size(v)
    BY <1>2 DEF ServesAt
  <2> QED BY <1>1, <2>1
<1> QED BY <1>3 DEF AssignPanics, Panics, moves

LEMMA OperatorsKeepTheirPlace ==
  ASSUME NEW x \in AnyValue, NEW v \in AnyValue, NEW subs \in AnySubscripts \ {<< >>},
         OpAssignable(subs), NEW op \in Operators
  PROVE  OpAssignFunction(op, x, subs, v).name \notin Strays
<1> DEFINE ix == [i \in DOMAIN subs |-> Prepared(subs[i])]
           family == Family(subs)
           f == OpAssignFunction(op, x, subs, v)
<1>1. family \in {<<"scalar">>, <<"range">>, <<"scalar", "all">>, <<"range", "all">>}
  <2>1. family = <<Part(subs[1])>> \/ family = <<Part(subs[1]), Part(subs[2])>>
    BY SubscriptsAre, FamilyIs
  <2>2. \A a, b : <<a>> # << >> /\ <<a, b>> # << >>
    OBVIOUS
  <2>3. family # << >>
    BY <2>1, <2>2, Zenon
  <2> QED BY <2>3 DEF OpAssignable
<1>2. \/ f = NoAssigns
      \/ f = AssignScalar(x, ix, v)
      \/ f = AssignScalarAll(x, ix, v)
      \/ f = OpAssignRange(op, x, ix, v)
      \/ f = OpAssignRangeAll(op, x, ix, v)
  BY <1>1 DEF OpAssignFunction
<1> HIDE DEF f, ix
<1>3. NoAssigns.name \notin Strays
  BY DEF NoAssigns, Assigns, Strays
<1>4. AssignScalar(x, ix, v).name \notin Strays
  BY DEF AssignScalar, Assigns, NoAssigns, Strays
<1>5. AssignScalarAll(x, ix, v).name \notin Strays
  BY DEF AssignScalarAll, Assigns, NoAssigns, Strays
<1>6. OpAssignRange(op, x, ix, v).name \notin Strays
  BY DEF OpAssignRange, Assigns, NoAssigns, Strays
<1>7. OpAssignRangeAll(op, x, ix, v).name \notin Strays
  BY DEF OpAssignRangeAll, Assigns, NoAssigns, Strays
<1> QED BY <1>2, <1>3, <1>4, <1>5, <1>6, <1>7 DEF f

(* Why a statement may stop the program.                                   *)
Excused(store, s) ==
  s.do # "build" /\
    LET x == store[s.cell]
    IN  \/ Family(s.subs) = <<"all", "all">>
        \/ s.do = "op" /\ ~OpAssignable(s.subs)
        \/ s.subs # << >> /\ ~InBounds(x, s.subs)
        \/ s.do # "read" /\ ~Fits(x, s.subs, ValueIn(store, s.from))
        \/ s.do = "set" /\ AssignFunction(x, s.subs, ValueIn(store, s.from)).name \in Strays

LEMMA AssignsAreExcused ==
  ASSUME Sound(cells, plan), NEW s \in AnyStatement, NEW f, BuiltFor(s, f), f # NoAssigns,
         AssignPanics(f, cells[s.cell], ValueIn(cells, s.from))
  PROVE  Excused(cells, s)
<1> DEFINE x == cells[s.cell]
           v == ValueIn(cells, s.from)
<1>1. s.do \in {"set", "op"}
  BY DEF BuiltFor
<1>2. /\ s.cell \in Cells /\ s.subs \in AnySubscripts /\ s.from \in AnySource
      /\ s.do = "op" => s.op \in Operators
  BY <1>1, StatementIs
<1>3. cells \in [Cells -> AnyValue] /\ x \in AnyValue /\ v \in AnyValue
  BY <1>2, SourceIs DEF Sound
<1>4. \/ s.do = "set" /\ Family(s.subs) # <<"all", "all">> /\ f = AssignFunction(x, s.subs, v)
      \/ s.do = "op" /\ OpAssignable(s.subs) /\ f = OpAssignFunction(s.op, x, s.subs, v)
  BY DEF BuiltFor
<1>5. Excused(cells, s) <=> \/ Family(s.subs) = <<"all", "all">>
                            \/ s.do = "op" /\ ~OpAssignable(s.subs)
                            \/ s.subs # << >> /\ ~InBounds(x, s.subs)
                            \/ s.do # "read" /\ ~Fits(x, s.subs, v)
                            \/ s.do = "set" /\ AssignFunction(x, s.subs, v).name \in Strays
  BY <1>1 DEF Excused
<1>6. AssignPanics(f, x, v)
  OBVIOUS
<1> HIDE DEF x, v
<1>7. CASE s.subs = << >>
  <2>1. Built(f, s.subs)
    BY <1>2, <1>4, BuiltBy
  <2>2. f.name \in WholeNames
    BY <1>7, <2>1 DEF Built
  <2> QED BY <1>3, <1>6, <2>2, WholeAssignsRun
<1>8. CASE s.subs # << >>
  <2>1. s.subs \in AnySubscripts \ {<< >>}
    BY <1>2, <1>8
  <2>2. ASSUME f.name \notin Strays, InBounds(x, s.subs), Fits(x, s.subs, v) PROVE FALSE
    <3>1. AssignsTo(f, x, s.subs, v)
      <4>1. CASE s.do = "set"
        BY <1>3, <1>4, <2>1, <2>2, <4>1, AssignsServe
      <4>2. CASE s.do = "op"
        BY <1>2, <1>3, <1>4, <2>1, <2>2, <4>2, OpAssignsServe
      <4> QED BY <1>1, <4>1, <4>2
    <3> QED BY <1>3, <1>6, <2>1, <2>2, <3>1, FittingAssignsRun
  <2>3. CASE s.do = "set"
    BY <1>4, <1>5, <1>8, <2>2, <2>3
  <2>4. CASE s.do = "op"
    <3>1. f.name \notin Strays
      BY <1>2, <1>3, <1>4, <2>1, <2>4, OperatorsKeepTheirPlace
    <3> QED BY <1>5, <1>8, <2>2, <2>4, <3>1
  <2> QED BY <1>1, <2>3, <2>4
<1> QED BY <1>7, <1>8

LEMMA StatementsAreExcused ==
  ASSUME Sound(cells, plan), Statement, outcome' = "panic"
  PROVE  cells' = cells /\ Excused(cells', last')
<1>1. PICK s : /\ s \in Script[Len(plan) + 1] /\ Len(plan) < Len(Script)
               /\ \/ s.do = "read" /\ Read(s)
                  \/ s.do = "set" /\ Set(s)
                  \/ s.do = "op" /\ OpSet(s)
                  \/ s.do = "build" /\ Build(s)
  BY DEF Statement
<1>2. s \in AnyStatement
  <2>1. \A A : \A q \in Seq(A) : Len(q) \in Nat
    OBVIOUS
  <2>2. Len(plan) \in Nat
    BY <2>1 DEF Sound, IsPlan
  <2>3. \A A : \A q \in Seq(A) : \A n \in Nat : n < Len(q) => q[n + 1] \in A
    OBVIOUS
  <2>4. Script[Len(plan) + 1] \in SUBSET AnyStatement
    BY <1>1, <2>2, <2>3, StatementsAssumption, Zenon
  <2> QED BY <1>1, <2>4
<1>3. ASSUME Ends(s, "panic"), Excused(cells, s) PROVE cells' = cells /\ Excused(cells', last')
  BY <1>3 DEF Ends
<1>4. ASSUME NEW f, BuiltFor(s, f), Run(s, f) PROVE cells' = cells /\ Excused(cells', last')
  <2>1. f # NoAssigns /\ AssignPanics(f, cells[s.cell], ValueIn(cells, s.from)) /\ Ends(s, "panic")
    BY <1>4 DEF Run, Ends
  <2>2. Excused(cells, s)
    BY <1>2, <1>4, <2>1, AssignsAreExcused
  <2> QED BY <1>3, <2>1, <2>2
<1>5. CASE s.do = "read" /\ Read(s)
  <2> DEFINE x == cells[s.cell]
             f == AccessFunction(x, s.subs)
  <2>1. s.cell \in Cells /\ s.subs \in AnySubscripts \ {<< >>} /\ cells \in [Cells -> AnyValue]
    BY <1>2, <1>5, StatementIs DEF Sound
  <2>2. x \in AnyValue
    BY <2>1
  <2>3. /\ Ends(s, "panic")
        /\ \/ Family(s.subs) = <<"all", "all">>
           \/ Family(s.subs) # <<"all", "all">> /\ f # NoFunction /\ AccessPanics(f, x)
    BY <1>5 DEF Read, Ends
  <2>4. ASSUME Family(s.subs) # <<"all", "all">>, f # NoFunction, AccessPanics(f, x)
        PROVE  ~InBounds(x, s.subs)
    <3> HIDE DEF x
    <3>1. ReadsFrom(f, x, s.subs)
      BY <2>1, <2>2, <2>4, AccessesRead
    <3> HIDE DEF f
    <3> QED BY <2>4, <3>1 DEF ReadsFrom, AccessPanics, Panics
  <2> HIDE DEF f
  <2>5. Excused(cells, s)
    BY <1>5, <2>1, <2>3, <2>4 DEF Excused
  <2> QED BY <1>3, <2>3, <2>5
<1>6. CASE s.do = "build" /\ Build(s)
  <2> DEFINE rows == PartsIn(cells, s)
             f == matrix(rows)
  <2>1. rows \in Seq(Seq(AnyValue) \ {<< >>}) /\ rows # << >>
    BY <1>2, <1>6, PartsAre DEF Sound
  <2>2. ~MatrixPanics(f, rows)
    <3> HIDE DEF rows
    <3> QED BY <2>1, BuildsRun
  <2>3. outcome' \in {"ok", "error"}
    BY <1>6, <2>2 DEF Build
  <2> QED BY <2>3
<1>7. CASE s.do = "set" /\ Set(s)
  <2> DEFINE f == AssignFunction(cells[s.cell], s.subs, ValueIn(cells, s.from))
  <2>1. \/ Family(s.subs) = <<"all", "all">> /\ Ends(s, "panic")
        \/ Family(s.subs) # <<"all", "all">> /\ Run(s, f)
    BY <1>7 DEF Set
  <2>2. Family(s.subs) # <<"all", "all">> => BuiltFor(s, f)
    BY <1>7 DEF BuiltFor
  <2> HIDE DEF f
  <2>3. Family(s.subs) = <<"all", "all">> => Excused(cells, s)
    BY <1>7 DEF Excused
  <2> QED BY <1>3, <1>4, <2>1, <2>2, <2>3
<1>8. CASE s.do = "op" /\ OpSet(s)
  <2> DEFINE f == OpAssignFunction(s.op, cells[s.cell], s.subs, ValueIn(cells, s.from))
  <2>1. \/ ~OpAssignable(s.subs) /\ Ends(s, "panic")
        \/ OpAssignable(s.subs) /\ Run(s, f)
    BY <1>8 DEF OpSet
  <2>2. OpAssignable(s.subs) => BuiltFor(s, f)
    BY <1>8 DEF BuiltFor
  <2> HIDE DEF f
  <2>3. ~OpAssignable(s.subs) => Excused(cells, s)
    BY <1>8 DEF Excused
  <2> QED BY <1>3, <1>4, <2>1, <2>2, <2>3
<1> QED BY <1>1, <1>5, <1>6, <1>7, <1>8

(* A statement that names elements of the variable and gives a value that  *)
(* fits never stops the program, and a matrix literal never does.          *)
THEOREM FittingStatementsDoRun == Spec => []FittingStatementsRun
<1>1. Init => FittingStatementsRun
  BY DEF Init, FittingStatementsRun
<1>2. FittingStatementsRun <=> (outcome = "panic" /\ last # Stepped => Excused(cells, last))
  BY DEF FittingStatementsRun, Excused
<1>3. FittingStatementsRun' <=> (outcome' = "panic" /\ last' # Stepped => Excused(cells', last'))
  BY DEF FittingStatementsRun, Excused
<1>4. Sound(cells, plan) /\ FittingStatementsRun /\ [Next]_vars => FittingStatementsRun'
  <2> SUFFICES ASSUME Sound(cells, plan), FittingStatementsRun, [Next]_vars,
                      outcome' = "panic", last' # Stepped
               PROVE  Excused(cells', last')
    BY <1>3
  <2>1. CASE Statement
    BY <2>1, StatementsAreExcused
  <2>2. CASE Step
    BY <2>2 DEF Step
  <2>3. CASE UNCHANGED vars
    BY <1>2, <2>3 DEF vars
  <2> QED BY <2>1, <2>2, <2>3 DEF Next
<1> QED BY <1>1, <1>4, ProgramsAreSound, PTL DEF Spec

-----------------------------------------------------------------------------
(* Which steps run: where a loop moves depends on the shapes only.         *)

LEMMA AlikePositions ==
  ASSUME NEW x, NEW y, Alike(x, y)
  PROVE  /\ Size(y) = Size(x) /\ y.rows = x.rows /\ y.cols = x.cols /\ IsMatrix(y) = IsMatrix(x)
         /\ \A i : Index1d(y, i) = Index1d(x, i) /\ ValueAt(y, i) = ValueAt(x, i)
         /\ \A r, c : Index2d(y, r, c) = Index2d(x, r, c)
BY DEF Alike, IsMatrix, Index1d, Index2d, ValueAt

LEMMA LoopsAreAlike ==
  ASSUME NEW x, NEW y, Alike(x, y), NEW v, NEW w, Alike(v, w), NEW ix
  PROVE  /\ assign_1d_scalar(y, ix, w) = assign_1d_scalar(x, ix, v)
         /\ assign_1d_scalar_b(y, ix, w) = assign_1d_scalar_b(x, ix, v)
         /\ assign_1d_scalar_vb(y, ix, w) = assign_1d_scalar_vb(x, ix, v)
         /\ set_1d_range(y, ix, w) = set_1d_range(x, ix, v)
         /\ set_1d_range_b(y, ix, w) = set_1d_range_b(x, ix, v)
         /\ assign_2d_scalar_scalar(y, ix, w) = assign_2d_scalar_scalar(x, ix, v)
         /\ assign_2d_all_scalar(y, ix, w) = assign_2d_all_scalar(x, ix, v)
         /\ assign_2d_scalar_all(y, ix, w) = assign_2d_scalar_all(x, ix, v)
         /\ assign_2d_range_scalar(y, ix, w) = assign_2d_range_scalar(x, ix, v)
         /\ assign_2d_range_scalar_b(y, ix, w) = assign_2d_range_scalar_b(x, ix, v)
         /\ assign_2d_scalar_range(y, ix, w) = assign_2d_scalar_range(x, ix, v)
         /\ assign_2d_scalar_range_b(y, ix, w) = assign_2d_scalar_range_b(x, ix, v)
         /\ assign_2d_range_range(y, ix, w) = assign_2d_range_range(x, ix, v)
         /\ assign_2d_range_range_b(y, ix, w) = assign_2d_range_range_b(x, ix, v)
         /\ assign_2d_range_range_bu(y, ix, w) = assign_2d_range_range_bu(x, ix, v)
         /\ assign_2d_range_range_vbu(y, ix, w) = assign_2d_range_range_vbu(x, ix, v)
         /\ assign_2d_range_range_ub(y, ix, w) = assign_2d_range_range_ub(x, ix, v)
         /\ assign_2d_range_range_vub(y, ix, w) = assign_2d_range_range_vub(x, ix, v)
         /\ assign_2d_all_range(y, ix, w) = assign_2d_all_range(x, ix, v)
         /\ assign_2d_all_range_v(y, ix, w) = assign_2d_all_range_v(x, ix, v)
         /\ assign_2d_all_range_vb(y, ix, w) = assign_2d_all_range_vb(x, ix, v)
         /\ assign_2d_range_all(y, ix, w) = assign_2d_range_all(x, ix, v)
         /\ assign_2d_range_all_b(y, ix, w) = assign_2d_range_all_b(x, ix, v)
         /\ assign_2d_range_all_v(y, ix, w) = assign_2d_range_all_v(x, ix, v)
         /\ assign_2d_range_all_vb(y, ix, w) = assign_2d_range_all_vb(x, ix, v)
         /\ assign_1d_all(y, w) = assign_1d_all(x, v)
         /\ op_assign_whole(y, w) = op_assign_whole(x, v)
<1>1. /\ Size(y) = Size(x) /\ y.rows = x.rows /\ y.cols = x.cols
      /\ \A i : Index1d(y, i) = Index1d(x, i)
      /\ \A r, c : Index2d(y, r, c) = Index2d(x, r, c)
  BY AlikePositions
<1>2. /\ Size(w) = Size(v) /\ w.rows = v.rows /\ w.cols = v.cols /\ IsMatrix(w) = IsMatrix(v)
      /\ \A i : Index1d(w, i) = Index1d(v, i) /\ ValueAt(w, i) = ValueAt(v, i)
      /\ \A r, c : Index2d(w, r, c) = Index2d(v, r, c)
  BY AlikePositions
<1>3. assign_1d_scalar(y, ix, w) = assign_1d_scalar(x, ix, v)
  BY <1>1, <1>2 DEF assign_1d_scalar
<1>4. assign_1d_scalar_b(y, ix, w) = assign_1d_scalar_b(x, ix, v)
  BY <1>1, <1>2 DEF assign_1d_scalar_b, Loop
<1>5. assign_1d_scalar_vb(y, ix, w) = assign_1d_scalar_vb(x, ix, v)
  BY <1>1, <1>2 DEF assign_1d_scalar_vb, Loop
<1>6. set_1d_range(y, ix, w) = set_1d_range(x, ix, v)
  BY <1>1, <1>2 DEF set_1d_range, Loop
<1>7. set_1d_range_b(y, ix, w) = set_1d_range_b(x, ix, v)
  BY <1>1, <1>2 DEF set_1d_range_b, Loop
<1>8. assign_2d_scalar_scalar(y, ix, w) = assign_2d_scalar_scalar(x, ix, v)
  BY <1>1, <1>2 DEF assign_2d_scalar_scalar
<1>9. assign_2d_all_scalar(y, ix, w) = assign_2d_all_scalar(x, ix, v)
  BY <1>1, <1>2 DEF assign_2d_all_scalar, Loop
<1>10. assign_2d_scalar_all(y, ix, w) = assign_2d_scalar_all(x, ix, v)
  BY <1>1, <1>2 DEF assign_2d_scalar_all, Loop
<1>11. assign_2d_range_scalar(y, ix, w) = assign_2d_range_scalar(x, ix, v)
  BY <1>1, <1>2 DEF assign_2d_range_scalar, Loop
<1>12. assign_2d_range_scalar_b(y, ix, w) = assign_2d_range_scalar_b(x, ix, v)
  BY <1>1, <1>2 DEF assign_2d_range_scalar_b, Loop
<1>13. assign_2d_scalar_range(y, ix, w) = assign_2d_scalar_range(x, ix, v)
  BY <1>1, <1>2 DEF assign_2d_scalar_range, Loop
<1>14. assign_2d_scalar_range_b(y, ix, w) = assign_2d_scalar_range_b(x, ix, v)
  BY <1>1, <1>2 DEF assign_2d_scalar_range_b, Loop
<1>15. assign_2d_range_range(y, ix, w) = assign_2d_range_range(x, ix, v)
  BY <1>1, <1>2 DEF assign_2d_range_range, Loops
<1>16. assign_2d_range_range_b(y, ix, w) = assign_2d_range_range_b(x, ix, v)
  BY <1>1, <1>2 DEF assign_2d_range_range_b, Loops
<1>17. assign_2d_range_range_bu(y, ix, w) = assign_2d_range_range_bu(x, ix, v)
  BY <1>1, <1>2 DEF assign_2d_range_range_bu, Loops
<1>18. assign_2d_range_range_vbu(y, ix, w) = assign_2d_range_range_vbu(x, ix, v)
  BY <1>1, <1>2 DEF assign_2d_range_range_vbu, Loops
<1>19. assign_2d_range_range_ub(y, ix, w) = assign_2d_range_range_ub(x, ix, v)
  BY <1>1, <1>2 DEF assign_2d_range_range_ub, Loops
<1>20. assign_2d_range_range_vub(y, ix, w) = assign_2d_range_range_vub(x, ix, v)
  BY <1>1, <1>2 DEF assign_2d_range_range_vub, Loops
<1>21. assign_2d_all_range(y, ix, w) = assign_2d_all_range(x, ix, v)
  BY <1>1, <1>2 DEF assign_2d_all_range, Loops
<1>22. assign_2d_all_range_v(y, ix, w) = assign_2d_all_range_v(x, ix, v)
  BY <1>1, <1>2 DEF assign_2d_all_range_v, Loops
<1>23. assign_2d_all_range_vb(y, ix, w) = assign_2d_all_range_vb(x, ix, v)
  BY <1>1, <1>2 DEF assign_2d_all_range_vb, Loops
<1>24. assign_2d_range_all(y, ix, w) = assign_2d_range_all(x, ix, v)
  BY <1>1, <1>2 DEF assign_2d_range_all, Loops
<1>25. assign_2d_range_all_b(y, ix, w) = assign_2d_range_all_b(x, ix, v)
  BY <1>1, <1>2 DEF assign_2d_range_all_b, Loops
<1>26. assign_2d_range_all_v(y, ix, w) = assign_2d_range_all_v(x, ix, v)
  BY <1>1, <1>2 DEF assign_2d_range_all_v, Loops
<1>27. assign_2d_range_all_vb(y, ix, w) = assign_2d_range_all_vb(x, ix, v)
  BY <1>1, <1>2 DEF assign_2d_range_all_vb, Loops
<1>28. assign_1d_all(y, w) = assign_1d_all(x, v)
  BY <1>1, <1>2 DEF assign_1d_all, Loop
<1>29. op_assign_whole(y, w) = op_assign_whole(x, v)
  BY <1>1, <1>2 DEF op_assign_whole, Loop
<1> QED BY <1>3, <1>4, <1>5, <1>6, <1>7, <1>8, <1>9, <1>10, <1>11, <1>12, <1>13, <1>14, <1>15, <1>16, <1>17, <1>18, <1>19, <1>20, <1>21, <1>22, <1>23, <1>24, <1>25, <1>26, <1>27, <1>28, <1>29

AssignNames == WholeNames \cup OneNames \cup TwoNames

LEMMA AlikeAssigns ==
  ASSUME NEW x, NEW y, Alike(x, y), NEW v, NEW w, Alike(v, w), NEW f, f.name \in AssignNames
  PROVE  /\ AssignMoves(f, y, w) = AssignMoves(f, x, v)
         /\ AssignPanics(f, y, w) = AssignPanics(f, x, v)
<1>1. AssignMoves(f, y, w) = AssignMoves(f, x, v)
  <2>1. CASE f.name \in WholeNames
    <3>1. f.name = "assign_value" => AssignMoves(f, y, w) = << >> /\ AssignMoves(f, x, v) = << >>
      BY DEF AssignMoves
    <3>2. f.name \in {"op_assign_vs", "op_assign_vv"}
          => AssignMoves(f, y, w) = op_assign_whole(y, w) /\ AssignMoves(f, x, v) = op_assign_whole(x, v)
      BY MovesAre
    <3> QED BY <2>1, <3>1, <3>2, LoopsAreAlike DEF WholeNames
  <2>2. CASE f.name \in OneNames
    BY <2>2, MovesAre, LoopsAreAlike DEF OneNames
  <2>3. CASE f.name \in TwoNames
    <3>1. f.name = "assign_2d_range_range_ub"
          => /\ AssignMoves(f, y, w) = assign_2d_range_range_ub(y, f.ix, w)
             /\ AssignMoves(f, x, v) = assign_2d_range_range_ub(x, f.ix, v)
      BY DEF AssignMoves
    <3>2. f.name = "assign_2d_range_all_b"
          => /\ AssignMoves(f, y, w) = assign_2d_range_all_b(y, f.ix, w)
             /\ AssignMoves(f, x, v) = assign_2d_range_all_b(x, f.ix, v)
      BY DEF AssignMoves
    <3>3. CASE f.name \in {"assign_2d_range_range_ub", "assign_2d_range_all_b"}
      BY <3>1, <3>2, <3>3, LoopsAreAlike
    <3>4. CASE f.name \notin {"assign_2d_range_range_ub", "assign_2d_range_all_b"}
      BY <2>3, <3>4, MovesAre, LoopsAreAlike DEF TwoNames
    <3> QED BY <3>3, <3>4
  <2> QED BY <2>1, <2>2, <2>3 DEF AssignNames
<1>2. Size(y) = Size(x) /\ Size(w) = Size(v)
  BY DEF Alike
<1> QED BY <1>1, <1>2 DEF AssignPanics, Panics

(* A read solved again, on a variable of the same shape.                   *)
LEMMA AlikeReads ==
  ASSUME NEW x, NEW y, Alike(x, y), NEW f, NEW g, g.name = f.name, g.ix = f.ix,
         f.name \in OneReads \cup TwoReads,
         f.name \in {"Access2DRR", "Access2DAR"} => Alike(f.out, g.out)
  PROVE  AccessMoves(g, y) = AccessMoves(f, x)
<1>1. /\ Size(y) = Size(x) /\ y.rows = x.rows /\ y.cols = x.cols
      /\ \A i : Index1d(y, i) = Index1d(x, i)
      /\ \A r, c : Index2d(y, r, c) = Index2d(x, r, c)
  BY AlikePositions
<1>2. ASSUME f.name \in {"Access2DRR", "Access2DAR"}
      PROVE  /\ g.out.rows = f.out.rows /\ g.out.cols = f.out.cols
             /\ \A r, c : Index2d(g.out, r, c) = Index2d(f.out, r, c)
  BY <1>2, AlikePositions
<1>3. /\ access_1d(y, f.ix) = access_1d(x, f.ix)
      /\ access_2d(y, f.ix) = access_2d(x, f.ix)
      /\ access_1d_slice(y, f.ix) = access_1d_slice(x, f.ix)
      /\ access_1d_slice_bool_v(y, f.ix) = access_1d_slice_bool_v(x, f.ix)
      /\ access_1d_all(y, f.ix) = access_1d_all(x, f.ix)
  BY <1>1 DEF access_1d, access_2d, access_1d_slice, access_1d_slice_bool_v, access_1d_all, Loop
<1>4. /\ access_col(y, f.ix) = access_col(x, f.ix)
      /\ access_row(y, f.ix) = access_row(x, f.ix)
      /\ access_2d_row_slice(y, f.ix) = access_2d_row_slice(x, f.ix)
      /\ access_2d_col_slice(y, f.ix) = access_2d_col_slice(x, f.ix)
  BY <1>1 DEF access_col, access_row, access_2d_row_slice, access_2d_col_slice, Loop
<1>5. access_2d_slice_all(y, f.ix) = access_2d_slice_all(x, f.ix)
  BY <1>1 DEF access_2d_slice_all, Loops
<1>6. access_2d_slice_all_bool(y, f.ix) = access_2d_slice_all_bool(x, f.ix)
  BY <1>1 DEF access_2d_slice_all_bool, Loops
<1>7. f.name = "Access2DRR" => access_2d_range_range(y, f.ix, g.out) = access_2d_range_range(x, f.ix, f.out)
  BY <1>1, <1>2 DEF access_2d_range_range, Loops
<1>8. f.name = "Access2DAR" => access_2d_all_range(y, f.ix, g.out) = access_2d_all_range(x, f.ix, f.out)
  <2> SUFFICES ASSUME f.name = "Access2DAR"
               PROVE  access_2d_all_range(y, f.ix, g.out) = access_2d_all_range(x, f.ix, f.out)
    OBVIOUS
  <2> DEFINE cols == IF f.ix[2].kind = "many" THEN f.ix[2].at ELSE MaskWithin(f.ix[2].on, x.cols)
             from(c) == IF f.ix[2].kind = "many" \/ c \in DOMAIN f.ix[2].on THEN c ELSE Outside
             m == Min({x.rows, f.out.rows})
  <2>1. g.out.rows = f.out.rows /\ \A r, c : Index2d(g.out, r, c) = Index2d(f.out, r, c)
    BY <1>2
  <2>2. access_2d_all_range(x, f.ix, f.out)
          = Loops(Len(cols), m, LAMBDA c, r : Move(Index2d(f.out, r, c), Index2d(x, r, from(cols[c]))))
    BY DEF access_2d_all_range
  <2>3. access_2d_all_range(y, f.ix, g.out)
          = Loops(Len(cols), m, LAMBDA c, r : Move(Index2d(g.out, r, c), Index2d(y, r, from(cols[c]))))
    BY <1>1, <2>1 DEF access_2d_all_range
  <2> HIDE DEF cols, from, m
  <2> QED BY <1>1, <2>1, <2>2, <2>3 DEF Loops
<1>9. CASE f.name \in OneReads
  BY <1>3, <1>9, AccessMovesAre DEF OneReads
<1>10. CASE f.name \in TwoReads
  BY <1>3, <1>4, <1>5, <1>6, <1>7, <1>8, <1>10, AccessMovesAre DEF TwoReads
<1> QED BY <1>9, <1>10

LEMMA ReadRunsAgain ==
  ASSUME NEW x \in AnyValue, NEW subs \in AnySubscripts, NEW f, IsFunction(f), ReadBuilt(f, subs),
         AccessSink(f) \in AnyResult, SinkIs(f, AccessSink(f)), ~AccessPanics(f, x),
         NEW y, Alike(x, y)
  PROVE  ~AccessPanics(AccessSolved(f, x), y)
<1> DEFINE g == AccessSolved(f, x)
           z == AccessSink(f)
<1>1. ReadSound(g, subs) /\ g.name = f.name /\ g.ix = f.ix /\ KeepsForm(z, g.out)
  BY SolvedReadIs
<1> HIDE DEF g, z
<1>2. AccessSink(g) = g.out
  BY <1>1, SinkStays DEF ReadSound
<1>3. f.name \in {"Access2DRR", "Access2DAR"} => z = f.out
  BY DEF AccessSink, z
<1>4. f.name \in {"Access2DRR", "Access2DAR"} => Alike(f.out, g.out)
  BY <1>1, <1>3 DEF KeepsForm, Alike
<1>5. f.name \in OneReads \cup TwoReads
  BY DEF ReadBuilt
<1>6. AccessMoves(g, y) = AccessMoves(f, x)
  BY <1>1, <1>4, <1>5, AlikeReads
<1>7. Size(g.out) = Size(z) /\ Size(y) = Size(x)
  BY <1>1 DEF KeepsForm, Alike
<1> QED BY <1>2, <1>6, <1>7 DEF AccessPanics, Panics, g, z

(* A store whose variables have the shapes of another's.                   *)
AlikeStores(a, b) == \A c \in Cells : Alike(a[c], b[c])

LEMMA AlikeSources ==
  ASSUME NEW a, NEW b, AlikeStores(a, b), NEW from \in AnySource
  PROVE  Alike(ValueIn(a, from), ValueIn(b, from))
BY DEF AnySource, ValueIn, AlikeStores, Alike

(* The functions of entry [s, f] run on the shapes that the variables have. *)
BuildRuns(s, f, store) ==
  \E n \in 0..Len(s.rows) : \E rows :
    /\ Grid(rows, n) /\ MatrixFits(f, rows, n)
    /\ GridsAlike(rows, PartsIn(store, s), n)

Runs(s, f, store) ==
  /\ s.do = "read" => ~AccessPanics(f, store[s.cell])
  /\ s.do \in {"set", "op"} => ~AssignPanics(f, store[s.cell], ValueIn(store, s.from))
  /\ s.do = "build" => BuildRuns(s, f, store)

LEMMA PartsAreGrid ==
  ASSUME NEW store \in [Cells -> AnyValue], NEW s \in AnyStatement, s.do = "build",
         NEW n \in 0..Len(s.rows)
  PROVE  n \in Nat /\ Grid(PartsIn(store, s), n)
<1> DEFINE rows == PartsIn(store, s)
<1>1. rows \in Seq(Seq(AnyValue) \ {<< >>}) /\ Len(rows) = Len(s.rows)
  BY PartsAre
<1> HIDE DEF rows
<1>2. \A A : \A q \in Seq(A) : Len(q) \in Nat /\ \A k \in 1..Len(q) : q[k] \in A
  OBVIOUS
<1>3. Len(rows) \in Nat /\ \A k \in 1..Len(rows) : rows[k] \in Seq(AnyValue) \ {<< >>}
  BY <1>1, <1>2, Zenon
<1>4. n \in Nat /\ 1..n \subseteq 1..Len(rows)
  BY <1>1, <1>3
<1> QED BY <1>3, <1>4 DEF Grid, rows

LEMMA PartsAreAlike ==
  ASSUME NEW a \in [Cells -> AnyValue], NEW b \in [Cells -> AnyValue], AlikeStores(a, b),
         NEW s \in AnyStatement, s.do = "build", NEW n \in 0..Len(s.rows)
  PROVE  GridsAlike(PartsIn(a, s), PartsIn(b, s), n)
<1> DEFINE rows == PartsIn(a, s)
           others == PartsIn(b, s)
<1>1. /\ Len(rows) = Len(s.rows)
      /\ \A r \in 1..Len(rows) :
           /\ Len(rows[r]) = Len(s.rows[r])
           /\ \A k \in 1..Len(rows[r]) : rows[r][k] = ValueIn(a, s.rows[r][k]) /\ s.rows[r][k] \in AnySource
  BY PartsAre
<1>2. /\ Len(others) = Len(s.rows)
      /\ \A r \in 1..Len(others) :
           /\ Len(others[r]) = Len(s.rows[r])
           /\ \A k \in 1..Len(others[r]) : others[r][k] = ValueIn(b, s.rows[r][k])
  BY PartsAre
<1>3. Len(s.rows) \in Nat
  <2>1. \A A : \A q \in Seq(A) : Len(q) \in Nat
    OBVIOUS
  <2>2. s.rows \in Seq(Seq(AnySource) \ {<< >>})
    BY StatementIs
  <2> QED BY <2>1, <2>2, Zenon
<1> HIDE DEF rows, others
<1>4. ASSUME NEW r \in 1..n
      PROVE  Len(others[r]) = Len(rows[r]) /\ \A k \in 1..Len(rows[r]) : Alike(rows[r][k], others[r][k])
  <2>1. r \in 1..Len(s.rows)
    BY <1>3
  <2>2. Len(others[r]) = Len(rows[r])
    BY <1>1, <1>2, <2>1
  <2>3. ASSUME NEW k \in 1..Len(rows[r]) PROVE Alike(rows[r][k], others[r][k])
    <3>1. /\ rows[r][k] = ValueIn(a, s.rows[r][k]) /\ s.rows[r][k] \in AnySource
          /\ others[r][k] = ValueIn(b, s.rows[r][k])
      BY <1>1, <1>2, <2>1, <2>2, <2>3
    <3> QED BY <3>1, AlikeSources
  <2> QED BY <2>2, <2>3
<1> QED BY <1>4 DEF GridsAlike, rows, others

LEMMA GridsAreTransitive ==
  ASSUME NEW n \in Nat, NEW p, NEW q, NEW r, GridsAlike(p, q, n), GridsAlike(q, r, n)
  PROVE  GridsAlike(p, r, n)
<1>1. ASSUME NEW i \in 1..n
      PROVE  Len(r[i]) = Len(p[i]) /\ \A k \in 1..Len(p[i]) : Alike(p[i][k], r[i][k])
  <2>1. /\ Len(q[i]) = Len(p[i]) /\ Len(r[i]) = Len(q[i])
        /\ \A k \in 1..Len(p[i]) : Alike(p[i][k], q[i][k])
        /\ \A k \in 1..Len(q[i]) : Alike(q[i][k], r[i][k])
    BY DEF GridsAlike
  <2> QED BY <2>1 DEF Alike
<1> QED BY <1>1 DEF GridsAlike

(* What runs on some shapes runs on any variables that have them.          *)
LEMMA RunsOnAlike ==
  ASSUME NEW a \in [Cells -> AnyValue], NEW b \in [Cells -> AnyValue], AlikeStores(a, b),
         NEW s \in AnyStatement, NEW f, Fitted(s, f), Runs(s, f, a)
  PROVE  Runs(s, f, b)
<1>1. CASE s.do = "read"
  <2>1. s.cell \in Cells
    BY <1>1, StatementIs
  <2>2. Alike(a[s.cell], b[s.cell])
    BY <2>1 DEF AlikeStores
  <2>3. ReadSound(f, s.subs)
    BY <1>1 DEF Fitted
  <2>4. f.name \in OneReads \cup TwoReads
    BY <2>3 DEF ReadSound, ReadBuilt
  <2>5. Alike(f.out, f.out)
    BY DEF Alike
  <2>6. AccessMoves(f, b[s.cell]) = AccessMoves(f, a[s.cell])
    BY <2>2, <2>4, <2>5, AlikeReads
  <2>7. ~AccessPanics(f, a[s.cell]) /\ Size(b[s.cell]) = Size(a[s.cell])
    BY <1>1, <2>2 DEF Runs, Alike
  <2>8. ~AccessPanics(f, b[s.cell])
    BY <2>6, <2>7 DEF AccessPanics, Panics
  <2> QED BY <1>1, <2>8 DEF Runs
<1>2. CASE s.do \in {"set", "op"}
  <2>1. s.cell \in Cells /\ s.from \in AnySource
    BY <1>2, StatementIs
  <2>2. Alike(a[s.cell], b[s.cell]) /\ Alike(ValueIn(a, s.from), ValueIn(b, s.from))
    BY <2>1, AlikeSources DEF AlikeStores
  <2>3. f.name \in AssignNames
    BY <1>2 DEF Fitted, Built, AssignNames
  <2>4. AssignPanics(f, b[s.cell], ValueIn(b, s.from)) = AssignPanics(f, a[s.cell], ValueIn(a, s.from))
    BY <2>2, <2>3, AlikeAssigns
  <2>5. ~AssignPanics(f, b[s.cell], ValueIn(b, s.from))
    BY <1>2, <2>4 DEF Runs
  <2> QED BY <1>2, <2>5 DEF Runs
<1>3. CASE s.do = "build"
  <2>1. PICK n, rows :
          n \in 0..Len(s.rows) /\ Grid(rows, n) /\ MatrixFits(f, rows, n) /\ GridsAlike(rows, PartsIn(a, s), n)
    BY <1>3 DEF Runs, BuildRuns
  <2>2. n \in Nat /\ GridsAlike(PartsIn(a, s), PartsIn(b, s), n)
    BY <1>3, <2>1, PartsAreGrid, PartsAreAlike
  <2>3. GridsAlike(rows, PartsIn(b, s), n)
    BY <2>1, <2>2, GridsAreTransitive
  <2>4. BuildRuns(s, f, b)
    BY <2>1, <2>3 DEF BuildRuns
  <2> QED BY <1>3, <2>4 DEF Runs
<1> QED BY <1>1, <1>2, <1>3, StatementIs

(* A whole variable keeps its storage form, though not its shape.          *)
SameForms(a, b) == \A c \in Cells : b[c].form = a[c].form

FormsFit(store, p) ==
  \A k \in 1..Len(p) : p[k].s.do \in {"set", "op"} /\ p[k].f.name = "assign_value"
    => ValueIn(store, p[k].s.from).form = store[p[k].s.cell].form

(* Some statement replaces a whole matrix.                                 *)
ReplacesAt(store, p, k) ==
  p[k].s.do \in {"set", "op"} /\ p[k].f.name = "assign_value" /\ IsMatrix(store[p[k].s.cell])

Replaced(store, p) == \E k \in 1..Len(p) : ReplacesAt(store, p, k)

AllRun(store, p) == \A k \in 1..Len(p) : Runs(p[k].s, p[k].f, store)

(* The plan keeps running, unless a statement replaces a whole matrix.     *)
Runnable(store, p) == FormsFit(store, p) /\ (Replaced(store, p) \/ AllRun(store, p))

LEMMA FormsStay ==
  ASSUME NEW a, NEW b, SameForms(a, b), NEW p, IsPlan(p)
  PROVE  /\ FormsFit(a, p) => FormsFit(b, p)
         /\ Replaced(b, p) = Replaced(a, p)
<1>1. \A k \in 1..Len(p) : p[k].s \in AnyStatement
  <2>1. PICK F : p \in Seq([s : AnyStatement, f : F])
    BY DEF IsPlan
  <2>2. \A A : \A q \in Seq(A) : \A j \in 1..Len(q) : q[j] \in A
    OBVIOUS
  <2>3. \A k \in 1..Len(p) : p[k] \in [s : AnyStatement, f : F]
    BY <2>1, <2>2, Zenon
  <2> QED BY <2>3
<1>2. ASSUME NEW k \in 1..Len(p), p[k].s.do \in {"set", "op"}
      PROVE  /\ b[p[k].s.cell].form = a[p[k].s.cell].form
             /\ ValueIn(b, p[k].s.from).form = ValueIn(a, p[k].s.from).form
  <2>1. p[k].s.cell \in Cells /\ p[k].s.from \in AnySource
    BY <1>1, <1>2, StatementIs
  <2> QED BY <2>1 DEF SameForms, AnySource, ValueIn
<1>3. FormsFit(a, p) => FormsFit(b, p)
  BY <1>2 DEF FormsFit
<1>4. ASSUME NEW k \in 1..Len(p) PROVE ReplacesAt(b, p, k) = ReplacesAt(a, p, k)
  BY <1>2 DEF ReplacesAt, IsMatrix
<1> QED BY <1>3, <1>4 DEF Replaced

LEMMA AllRunOnAlike ==
  ASSUME NEW a, NEW b, NEW p, Sound(a, p), Sound(b, p), AlikeStores(a, b), AllRun(a, p)
  PROVE  AllRun(b, p)
<1>1. IsPlan(p) /\ a \in [Cells -> AnyValue] /\ b \in [Cells -> AnyValue]
      /\ \A k \in 1..Len(p) : Fitted(p[k].s, p[k].f)
  BY DEF Sound
<1>2. \A k \in 1..Len(p) : p[k].s \in AnyStatement
  <2>1. PICK F : p \in Seq([s : AnyStatement, f : F])
    BY <1>1 DEF IsPlan
  <2>2. \A A : \A q \in Seq(A) : \A j \in 1..Len(q) : q[j] \in A
    OBVIOUS
  <2>3. \A k \in 1..Len(p) : p[k] \in [s : AnyStatement, f : F]
    BY <2>1, <2>2, Zenon
  <2> QED BY <2>3
<1> QED BY <1>1, <1>2, RunsOnAlike DEF AllRun

(* What an assignment that runs makes of the shapes.                       *)
LEMMA AssignedShapes ==
  ASSUME NEW store \in [Cells -> AnyValue], NEW s \in AnyStatement, s.do \in {"set", "op"},
         NEW f, Built(f, s.subs),
         f.name = "assign_value" => ValueIn(store, s.from).form = store[s.cell].form,
         ~AssignPanics(f, store[s.cell], ValueIn(store, s.from)),
         NEW itself \in BOOLEAN, itself => ValueIn(store, s.from) = store[s.cell],
         NEW to, to = [store EXCEPT ![s.cell] = AssignSolved(f, store[s.cell], ValueIn(store, s.from), itself)]
  PROVE  /\ to \in [Cells -> AnyValue] /\ SameForms(store, to)
         /\ (f.name = "assign_value" /\ IsMatrix(store[s.cell])) \/ AlikeStores(store, to)
<1> DEFINE x == store[s.cell]
           v == ValueIn(store, s.from)
           y == AssignSolved(f, x, v, itself)
<1>1. s.cell \in Cells /\ s.subs \in AnySubscripts /\ s.from \in AnySource
  BY StatementIs
<1>2. x \in AnyValue /\ v \in AnyValue
  BY <1>1, SourceIs
<1>3. to = [store EXCEPT ![s.cell] = y]
  OBVIOUS
<1>4. /\ y \in AnyValue
      /\ f.name = "assign_value" => y = v
      /\ f.name # "assign_value" => WritesOnly(x, y, AssignMoves(f, x, v))
  <2> HIDE DEF x, v
  <2>1. ~AssignPanics(f, x, v) /\ (itself => v = x)
    BY DEF x, v
  <2> QED BY <1>1, <1>2, <2>1, AssignSolvedIs
<1>5. f.name = "assign_value" => v.form = x.form
  OBVIOUS
<1> HIDE DEF x, v, y
<1>6. y.form = x.form
  BY <1>4, <1>5 DEF WritesOnly, KeepsForm
<1>7. (f.name = "assign_value" /\ IsMatrix(x)) \/ Alike(x, y)
  <2>1. CASE f.name # "assign_value"
    BY <1>4, <2>1 DEF WritesOnly, KeepsForm, Alike
  <2>2. CASE f.name = "assign_value" /\ x.form = "scalar"
    <3>1. x.rows = 1 /\ x.cols = 1 /\ y.rows = 1 /\ y.cols = 1
      BY <1>2, <1>4, <1>6, <2>2 DEF AnyValue, AnyResult
    <3>2. Size(x) = x.rows * x.cols /\ Size(y) = y.rows * y.cols
      BY <1>2, <1>4 DEF AnyValue, AnyResult
    <3> QED BY <1>6, <3>1, <3>2 DEF Alike
  <2> QED BY <2>1, <2>2 DEF IsMatrix
<1>8. \A c \in Cells : to[c] = IF c = s.cell THEN y ELSE store[c]
  BY <1>3
<1>9. to \in [Cells -> AnyValue]
  BY <1>3, <1>4
<1>10. SameForms(store, to)
  BY <1>6, <1>8 DEF SameForms, x
<1>11. Alike(x, y) => AlikeStores(store, to)
  BY <1>8 DEF AlikeStores, Alike, x
<1> QED BY <1>7, <1>9, <1>10, <1>11 DEF x

LEMMA EntryIs ==
  ASSUME NEW p, IsPlan(p)
  PROVE  Len(p) \in Nat /\ DOMAIN p = 1..Len(p) /\ \A k \in 1..Len(p) : p[k].s \in AnyStatement
<1>1. PICK F : p \in Seq([s : AnyStatement, f : F])
  BY DEF IsPlan
<1>2. \A A : \A q \in Seq(A) : Len(q) \in Nat /\ DOMAIN q = 1..Len(q) /\ \A j \in 1..Len(q) : q[j] \in A
  OBVIOUS
<1>3. Len(p) \in Nat /\ DOMAIN p = 1..Len(p) /\ \A k \in 1..Len(p) : p[k] \in [s : AnyStatement, f : F]
  BY <1>1, <1>2, Zenon
<1> QED BY <1>3

(* One entry has another function, which does not replace a variable.      *)
LEMMA RenewedRuns ==
  ASSUME NEW store, NEW p, IsPlan(p), Runnable(store, p), NEW k \in 1..Len(p),
         p[k].s.do \in {"read", "build"}, NEW a, Replaced(store, p) \/ Runs(p[k].s, a, store),
         NEW q, Renews(q, p, k, a)
  PROVE  Runnable(store, q) /\ Replaced(store, q) = Replaced(store, p)
<1>1. /\ Len(q) = Len(p)
      /\ \A j \in 1..Len(p) : q[j].s = p[j].s /\ (j = k => q[j].f = a) /\ (j # k => q[j].f = p[j].f)
  BY EntryChanges
<1>2. \A j \in 1..Len(p) : p[j].s.do \in {"set", "op"} => q[j].f = p[j].f
  BY <1>1
<1>3. FormsFit(store, q)
  BY <1>1, <1>2 DEF FormsFit, Runnable
<1>4. \A j \in 1..Len(p) : ReplacesAt(store, q, j) = ReplacesAt(store, p, j)
  BY <1>1, <1>2 DEF ReplacesAt
<1>5. Replaced(store, q) = Replaced(store, p)
  BY <1>1, <1>4 DEF Replaced
<1>6. Runs(p[k].s, a, store) /\ AllRun(store, p) => AllRun(store, q)
  BY <1>1 DEF AllRun
<1> QED BY <1>3, <1>5, <1>6 DEF Runnable

(* Solving an entry keeps the plan running, and stops only where some      *)
(* statement replaces a whole matrix.                                      *)
SolvesWell(store, p, to) ==
  /\ Runnable(to.cells, to.plan)
  /\ Replaced(to.cells, to.plan) = Replaced(store, p)
  /\ to.panicked => Replaced(store, p)

LEMMA SolvingKeepsRunning ==
  ASSUME NEW store, NEW p, NEW panicked \in BOOLEAN, Sound(store, p), Runnable(store, p),
         panicked => Replaced(store, p), NEW k \in 1..Len(p)
  PROVE  SolvesWell(store, p, SolveAt([cells |-> store, plan |-> p, panicked |-> panicked], k))
<1> DEFINE state == [cells |-> store, plan |-> p, panicked |-> panicked]
           item == p[k]
           s == item.s
           f == item.f
           x == store[s.cell]
           v == ValueIn(store, s.from)
           parts == PartsIn(store, s)
           to == SolveAt(state, k)
           y == AssignSolved(f, x, v, IsItself(item))
<1>1. store \in [Cells -> AnyValue] /\ IsPlan(p) /\ s \in AnyStatement /\ Fitted(s, f)
  BY EntryIs DEF Sound
<1>2. s.do \in {"read", "set", "op", "build"}
  BY <1>1, StatementIs
<1>3. Replaced(store, p) \/ Runs(s, f, store)
  BY DEF Runnable, AllRun
<1> DEFINE Goal(t) == SolvesWell(store, p, t)
           stopped == [cells |-> store, plan |-> p, panicked |-> TRUE]
           renewed(a) == [cells |-> store, plan |-> [p EXCEPT ![k].f = a], panicked |-> panicked]
           written == [cells |-> [store EXCEPT ![s.cell] = y], plan |-> p, panicked |-> panicked]
<1>4. Goal(state) /\ (Replaced(store, p) => Goal(stopped))
  <2> HIDE DEF s, f, x, v, parts, y
  <2> QED BY DEF SolvesWell
<1>5. ASSUME NEW a, s.do \in {"read", "build"}, Replaced(store, p) \/ Runs(s, a, store)
      PROVE  Goal(renewed(a))
  <2> DEFINE q == [p EXCEPT ![k].f = a]
  <2>1. Renews(q, p, k, a)
    BY Zenon DEF Renews
  <2> HIDE DEF q, f, x, v, parts, y
  <2>2. Runnable(store, q) /\ Replaced(store, q) = Replaced(store, p)
    BY <1>1, <1>5, <2>1, RenewedRuns DEF s
  <2>3. renewed(a) = [cells |-> store, plan |-> q, panicked |-> panicked]
    BY DEF q
  <2> HIDE DEF renewed
  <2> QED BY <2>2, <2>3 DEF SolvesWell
<1>6. ASSUME s.do \in {"set", "op"}, ~AssignPanics(f, x, v) PROVE Goal(written)
  <2> DEFINE b == [store EXCEPT ![s.cell] = y]
  <2>1. /\ b \in [Cells -> AnyValue] /\ SameForms(store, b)
        /\ (f.name = "assign_value" /\ IsMatrix(x)) \/ AlikeStores(store, b)
    <3>1. Built(f, s.subs)
      BY <1>1, <1>6 DEF Fitted
    <3>2. f.name = "assign_value" => v.form = x.form
      BY <1>6 DEF Runnable, FormsFit
    <3>3. IsItself(item) \in BOOLEAN /\ (IsItself(item) => v = x)
      BY ItselfIs
    <3> HIDE DEF s, f
    <3> QED BY <1>1, <1>6, <3>1, <3>2, <3>3, AssignedShapes
  <2>2. Sound(b, p)
    BY <2>1 DEF Sound
  <2>3. f.name = "assign_value" /\ IsMatrix(x) => Replaced(store, p)
    BY <1>6 DEF Replaced, ReplacesAt
  <2> HIDE DEF b, f, x, v, parts, y, s
  <2>4. FormsFit(b, p) /\ Replaced(b, p) = Replaced(store, p)
    BY <1>1, <2>1, FormsStay DEF Runnable
  <2>5. AlikeStores(store, b) /\ AllRun(store, p) => AllRun(b, p)
    BY <2>2, AllRunOnAlike
  <2>6. Runnable(b, p)
    BY <2>1, <2>3, <2>4, <2>5 DEF Runnable
  <2>7. written = [cells |-> b, plan |-> p, panicked |-> panicked]
    BY DEF b
  <2> HIDE DEF written
  <2> QED BY <2>4, <2>6, <2>7 DEF SolvesWell
<1>7. ASSUME s.do = "read", ~AccessPanics(f, x)
      PROVE  Replaced(store, p) \/ Runs(s, AccessSolved(f, x), store)
  <2>1. s.cell \in Cells /\ s.subs \in AnySubscripts
    BY <1>1, <1>7, StatementIs
  <2>2. x \in AnyValue /\ Alike(x, x)
    BY <1>1, <2>1 DEF Alike
  <2>3. ReadSound(f, s.subs)
    BY <1>1, <1>7 DEF Fitted
  <2> HIDE DEF x, f, s
  <2>4. AccessSink(f) = f.out
    BY <2>3, SinkStays DEF ReadSound
  <2>5. ~AccessPanics(AccessSolved(f, x), x)
    BY <1>7, <2>1, <2>2, <2>3, <2>4, ReadRunsAgain DEF ReadSound
  <2> QED BY <1>7, <2>5 DEF Runs, x
<1>8. ASSUME s.do = "build", Runs(s, f, store)
      PROVE  ~MatrixPanics(f, parts) /\ Runs(s, MatrixSolved(f, parts), store)
  <2>1. PICK n, rows : /\ n \in 0..Len(s.rows) /\ Grid(rows, n) /\ MatrixFits(f, rows, n)
                       /\ GridsAlike(rows, parts, n)
    BY <1>8 DEF Runs, BuildRuns
  <2>2. n \in Nat /\ Grid(parts, n)
    BY <1>1, <1>8, <2>1, PartsAreGrid
  <2> HIDE DEF parts, f, s
  <2>3. ~MatrixPanics(f, parts) /\ MatrixFits(MatrixSolved(f, parts), parts, n)
    BY <2>1, <2>2, MatrixRuns
  <2>4. GridsAlike(parts, parts, n)
    BY DEF GridsAlike, Alike
  <2>5. BuildRuns(s, MatrixSolved(f, parts), store)
    BY <2>1, <2>2, <2>3, <2>4 DEF BuildRuns, parts
  <2> QED BY <1>8, <2>3, <2>5 DEF Runs
<1>9. s.do = "read" /\ Runs(s, f, store) => ~AccessPanics(f, x)
  BY DEF Runs
<1>10. s.do \in {"set", "op"} /\ Runs(s, f, store) => ~AssignPanics(f, x, v)
  BY DEF Runs
<1>11. CASE panicked
  <2>1. to = state
    BY <1>11 DEF SolveAt
  <2> QED BY <1>4, <2>1
<1>12. CASE ~panicked
  <2>1. s.do = "build" => to = IF MatrixPanics(f, parts) THEN [state EXCEPT !.panicked = TRUE]
                               ELSE [state EXCEPT !.plan[k].f = MatrixSolved(@, parts)]
    BY <1>12 DEF SolveAt
  <2>2. s.do = "read" => to = IF AccessPanics(f, x) THEN [state EXCEPT !.panicked = TRUE]
                              ELSE [state EXCEPT !.plan[k].f = AccessSolved(@, x)]
    BY <1>12 DEF SolveAt
  <2>3. s.do \in {"set", "op"} => to = IF AssignPanics(f, x, v) THEN [state EXCEPT !.panicked = TRUE]
                                       ELSE [state EXCEPT !.cells[s.cell] = y]
    BY <1>12 DEF SolveAt
  <2>i. [state EXCEPT !.panicked = TRUE] = stopped
    <3>1. \A a, b, c, d : [[cells |-> a, plan |-> b, panicked |-> c] EXCEPT !.panicked = d]
                            = [cells |-> a, plan |-> b, panicked |-> d]
      OBVIOUS
    <3> QED BY <3>1, Zenon
  <2>l. [state EXCEPT !.cells[s.cell] = y] = written
    <3> HIDE DEF parts, x, y, v, f
    <3> QED BY SMTT(40)
  <2>j. [state EXCEPT !.plan[k].f = MatrixSolved(@, parts)] = renewed(MatrixSolved(f, parts))
    <3> HIDE DEF parts, x, y, v, s
    <3> QED BY SMTT(40)
  <2>k. [state EXCEPT !.plan[k].f = AccessSolved(@, x)] = renewed(AccessSolved(f, x))
    <3> HIDE DEF parts, x, y, v, s
    <3> QED BY SMTT(40)
  <2>4. /\ [state EXCEPT !.panicked = TRUE] = stopped
        /\ [state EXCEPT !.plan[k].f = MatrixSolved(@, parts)] = renewed(MatrixSolved(f, parts))
        /\ [state EXCEPT !.plan[k].f = AccessSolved(@, x)] = renewed(AccessSolved(f, x))
        /\ [state EXCEPT !.cells[s.cell] = y] = written
    BY <2>i, <2>j, <2>k, <2>l, Zenon
  <2>a. s.do = "build" => to = IF MatrixPanics(f, parts) THEN stopped ELSE renewed(MatrixSolved(f, parts))
    BY <2>1, <2>4, Zenon
  <2>b. s.do = "read" => to = IF AccessPanics(f, x) THEN stopped ELSE renewed(AccessSolved(f, x))
    BY <2>2, <2>4, Zenon
  <2>c. s.do \in {"set", "op"} => to = IF AssignPanics(f, x, v) THEN stopped ELSE written
    BY <2>3, <2>4, Zenon
  <2>d. \A a : s.do \in {"read", "build"} /\ (Replaced(store, p) \/ Runs(s, a, store)) => Goal(renewed(a))
    <3> HIDE DEF state, s, f, x, v, parts, y, to, stopped, renewed, written, Goal
    <3> QED BY <1>5
  <2>e. s.do \in {"set", "op"} /\ ~AssignPanics(f, x, v) => Goal(written)
    BY <1>6, Zenon
  <2>f. Replaced(store, p) => Goal(stopped)
    BY <1>4, Zenon
  <2>g. s.do = "build" /\ Runs(s, f, store) => ~MatrixPanics(f, parts) /\ Runs(s, MatrixSolved(f, parts), store)
    BY <1>8, Zenon
  <2>h. s.do = "read" /\ ~AccessPanics(f, x) => Replaced(store, p) \/ Runs(s, AccessSolved(f, x), store)
    BY <1>7, Zenon
  <2> HIDE DEF state, s, f, x, v, parts, y, to, stopped, renewed, written, Goal
  <2>5. ASSUME s.do = "build" PROVE Goal(to)
    BY <1>3, <2>5, <2>a, <2>d, <2>f, <2>g
  <2>6. ASSUME s.do = "read" PROVE Goal(to)
    BY <1>3, <1>9, <2>6, <2>b, <2>d, <2>f, <2>h
  <2>7. ASSUME s.do \in {"set", "op"} PROVE Goal(to)
    BY <1>3, <1>10, <2>7, <2>c, <2>e, <2>f
  <2>8. Goal(to)
    BY <1>2, <2>5, <2>6, <2>7
  <2> QED BY <2>8 DEF Goal, to, state
<1> QED BY <1>11, <1>12

LEMMA StepKeepsRunning ==
  ASSUME Sound(cells, plan), Runnable(cells, plan)
  PROVE  SolvesWell(cells, plan, SolvedPlan)
<1> DEFINE n == Len(plan)
           Good(t) == /\ t = [cells |-> t.cells, plan |-> t.plan, panicked |-> t.panicked]
                      /\ t.panicked \in BOOLEAN /\ Len(t.plan) = n
                      /\ Sound(t.cells, t.plan)
                      /\ SolvesWell(cells, plan, t)
<1>1. n \in Nat /\ DOMAIN plan = 1..n
  BY EntryIs DEF Sound
<1>2. PICK r : /\ r[0] = Now
               /\ \A k \in 1..n : r[k] = SolveAt(r[k - 1], k)
               /\ SolvedPlan = r[n]
  <2> HIDE DEF n
  <2> QED BY <1>1, SolvedPlanIs
<1> HIDE DEF n
<1>3. Good(r[0])
  <2>1. Now = [cells |-> cells, plan |-> plan, panicked |-> FALSE]
    BY DEF Now
  <2> QED BY <1>2, <2>1 DEF n, SolvesWell
<1> DEFINE D == {k \in Nat : k <= n => Good(r[k])}
<1>4. 0 \in D
  BY <1>3
<1>5. ASSUME NEW k \in Nat, k \in D PROVE k + 1 \in D
  <2> SUFFICES ASSUME k + 1 <= n PROVE Good(r[k + 1])
    OBVIOUS
  <2>1. Good(r[k]) /\ k + 1 \in 1..n /\ (k + 1) - 1 = k
    BY <1>1, <1>5
  <2> DEFINE store == r[k].cells
             p == r[k].plan
             pk == r[k].panicked
             t == SolveAt([cells |-> store, plan |-> p, panicked |-> pk], k + 1)
  <2>2. /\ r[k] = [cells |-> store, plan |-> p, panicked |-> pk] /\ pk \in BOOLEAN
        /\ Sound(store, p) /\ Len(p) = n
        /\ Runnable(store, p) /\ Replaced(store, p) = Replaced(cells, plan)
        /\ pk => Replaced(cells, plan)
    BY <2>1 DEF SolvesWell
  <2>3. r[k + 1] = t
    BY <1>2, <2>1, <2>2
  <2> HIDE DEF store, p, pk, Good
  <2>4. /\ t = [cells |-> t.cells, plan |-> t.plan, panicked |-> t.panicked]
        /\ t.panicked \in BOOLEAN /\ Len(t.plan) = Len(p)
        /\ Sound(t.cells, t.plan)
    BY <2>1, <2>2, SolvingKeepsSound
  <2>5. SolvesWell(store, p, t)
    BY <2>1, <2>2, SolvingKeepsRunning
  <2> HIDE DEF t
  <2>6. SolvesWell(cells, plan, t)
    BY <2>2, <2>5 DEF SolvesWell
  <2> QED BY <2>2, <2>3, <2>4, <2>6 DEF Good
<1>6. n \in D
  <2> HIDE DEF D
  <2> QED BY <1>1, <1>4, <1>5, NatSetInduction
<1> QED BY <1>1, <1>2, <1>6

(* A statement adds an entry that runs, as it did just now.                *)
LEMMA AddedRuns ==
  ASSUME NEW store, NEW p, IsPlan(p), Runnable(store, p), NEW s \in AnyStatement, NEW f,
         s.do \in {"set", "op"} /\ f.name = "assign_value"
           => ValueIn(store, s.from).form = store[s.cell].form,
         \/ Runs(s, f, store)
         \/ s.do \in {"set", "op"} /\ f.name = "assign_value" /\ IsMatrix(store[s.cell])
  PROVE  Runnable(store, Append(p, Item(s, f)))
<1> DEFINE q == Append(p, Item(s, f))
           n == Len(p)
<1>1. /\ Len(q) = n + 1 /\ n \in Nat
      /\ \A k \in 1..n : q[k] = p[k]
      /\ q[n + 1].s = s /\ q[n + 1].f = f
  BY PlanGrows
<1>2. \A k \in 1..Len(q) : k \in 1..n \/ k = n + 1
  BY <1>1
<1> HIDE DEF q
<1>3. FormsFit(store, q)
  <2>1. ASSUME NEW k \in 1..Len(q), q[k].s.do \in {"set", "op"}, q[k].f.name = "assign_value"
        PROVE  ValueIn(store, q[k].s.from).form = store[q[k].s.cell].form
    <3>1. CASE k \in 1..n
      BY <1>1, <2>1, <3>1 DEF Runnable, FormsFit
    <3>2. CASE k = n + 1
      BY <1>1, <2>1, <3>2
    <3> QED BY <1>2, <3>1, <3>2
  <2> QED BY <2>1 DEF FormsFit
<1>4. Replaced(store, p) => Replaced(store, q)
  BY <1>1 DEF Replaced, ReplacesAt
<1>5. s.do \in {"set", "op"} /\ f.name = "assign_value" /\ IsMatrix(store[s.cell]) => Replaced(store, q)
  BY <1>1 DEF Replaced, ReplacesAt
<1>6. AllRun(store, p) /\ Runs(s, f, store) => AllRun(store, q)
  BY <1>1, <1>2 DEF AllRun
<1> QED BY <1>3, <1>4, <1>5, <1>6 DEF Runnable, q

(* x = v asks for the storage form that x has.                             *)
LEMMA ReplacingKeepsForm ==
  ASSUME NEW x, NEW v, NEW subs \in AnySubscripts, NEW f, f # NoAssigns, f.name = "assign_value"
  PROVE  /\ Family(subs) # <<"all", "all">> /\ f = AssignFunction(x, subs, v) => v.form = x.form
         /\ \A op \in Operators : ~(OpAssignable(subs) /\ f = OpAssignFunction(op, x, subs, v))
<1>1. CASE subs = << >>
  <2>1. Family(subs) = << >>
    <3>1. Len(subs) = 0
      BY <1>1
    <3> QED BY <3>1, FamilyIs
  <2>2. f = AssignFunction(x, subs, v) => f = AssignValue(x, v)
    BY <2>1 DEF AssignFunction
  <2>3. f = AssignValue(x, v) => v.form = x.form
    BY DEF AssignValue, SameForm
  <2>4. ASSUME NEW op \in Operators, f = OpAssignFunction(op, x, subs, v) PROVE FALSE
    <3>1. f = OpAssignValue(op, x, v)
      BY <2>1, <2>4 DEF OpAssignFunction
    <3> QED BY <3>1 DEF OpAssignValue, Assigns
  <2> QED BY <2>2, <2>3, <2>4
<1>2. CASE subs # << >>
  <2>1. Built(f, subs) => f.name # "assign_value"
    <3>1. Len(subs) \in {1, 2}
      BY <1>2, SubscriptsAre
    <3> QED BY <3>1 DEF Built, OneNames, TwoNames
  <2> QED BY <2>1, BuiltBy
<1> QED BY <1>1, <1>2

LEMMA BuiltKeepsForm ==
  ASSUME NEW s \in AnyStatement, s.do \in {"set", "op"}, s.subs \in AnySubscripts,
         NEW f, BuiltFor(s, f), f # NoAssigns, f.name = "assign_value"
  PROVE  ValueIn(cells, s.from).form = cells[s.cell].form
<1> DEFINE x == cells[s.cell]
           v == ValueIn(cells, s.from)
<1>1. CASE s.do = "set"
  <2>1. Family(s.subs) # <<"all", "all">> /\ f = AssignFunction(x, s.subs, v)
    BY <1>1 DEF BuiltFor
  <2> HIDE DEF x, v
  <2>2. v.form = x.form
    BY <2>1, ReplacingKeepsForm
  <2> QED BY <2>2 DEF x, v
<1>2. CASE s.do = "op"
  <2>1. OpAssignable(s.subs) /\ f = OpAssignFunction(s.op, x, s.subs, v) /\ s.op \in Operators
    BY <1>2, StatementIs DEF BuiltFor
  <2> HIDE DEF x, v
  <2>2. \A op \in Operators : ~(OpAssignable(s.subs) /\ f = OpAssignFunction(op, x, s.subs, v))
    BY ReplacingKeepsForm
  <2> QED BY <2>1, <2>2
<1> QED BY <1>1, <1>2

LEMMA WritingRuns ==
  ASSUME Sound(cells, plan), Runnable(cells, plan), NEW s \in AnyStatement, NEW f,
         BuiltFor(s, f), Writing(s, f)
  PROVE  Runnable(cells', plan')
<1> DEFINE x == cells[s.cell]
           v == ValueIn(cells, s.from)
           y == cells'[s.cell]
           itself == IsItself(Item(s, f))
<1>1. /\ s.do \in {"set", "op"} /\ s.cell \in Cells /\ s.subs \in AnySubscripts
      /\ Built(f, s.subs) /\ cells' \in [Cells -> AnyValue]
  BY WritingIs
<1>2. f # NoAssigns /\ ~AssignPanics(f, x, v) /\ plan' = Append(plan, Item(s, f))
      /\ cells' = [cells EXCEPT ![s.cell] = AssignSolved(f, x, v, itself)]
  BY DEF Writing, Adds
<1>3. f.name = "assign_value" => v.form = x.form
  BY <1>1, <1>2, BuiltKeepsForm
<1>4. itself \in BOOLEAN /\ (itself => v = x)
  <2>1. Item(s, f).s = s
    BY DEF Item
  <2> QED BY <2>1, ItselfIs
<1> HIDE DEF itself
<1>5. cells \in [Cells -> AnyValue] /\ IsPlan(plan)
  BY DEF Sound
<1>6. SameForms(cells, cells') /\ ((f.name = "assign_value" /\ IsMatrix(x)) \/ AlikeStores(cells, cells'))
  BY <1>1, <1>2, <1>3, <1>4, <1>5, AssignedShapes
<1>7. Sound(cells', plan)
  BY <1>1 DEF Sound
<1>8. Runs(s, f, cells)
  BY <1>1, <1>2 DEF Runs
<1>9. Fitted(s, f)
  BY <1>1 DEF Fitted
<1>10. /\ ValueIn(cells', s.from).form = ValueIn(cells, s.from).form
       /\ cells'[s.cell].form = cells[s.cell].form
  <2>1. s.from \in AnySource
    BY <1>1, StatementIs
  <2> QED BY <1>1, <1>6, <2>1 DEF SameForms, AnySource, ValueIn
<1>11. FormsFit(cells', plan) /\ Replaced(cells', plan) = Replaced(cells, plan)
  BY <1>5, <1>6, FormsStay DEF Runnable
<1>12. CASE AlikeStores(cells, cells')
  <2>1. AllRun(cells, plan) => AllRun(cells', plan)
    BY <1>7, <1>12, AllRunOnAlike
  <2>2. Runnable(cells', plan)
    BY <1>11, <2>1 DEF Runnable
  <2>3. Runs(s, f, cells')
    BY <1>1, <1>5, <1>8, <1>9, <1>12, RunsOnAlike
  <2> HIDE DEF x, v
  <2>4. Runnable(cells', Append(plan, Item(s, f)))
    BY <1>3, <1>5, <1>10, <2>2, <2>3, AddedRuns DEF x, v
  <2> QED BY <1>2, <2>4
<1>13. CASE f.name = "assign_value" /\ IsMatrix(x)
  <2> DEFINE q == Append(plan, Item(s, f))
             n == Len(plan)
  <2>1. /\ Len(q) = n + 1 /\ n \in Nat
        /\ \A k \in 1..n : q[k] = plan[k]
        /\ q[n + 1].s = s /\ q[n + 1].f = f
    BY <1>5, PlanGrows
  <2>2. \A k \in 1..Len(q) : k \in 1..n \/ k = n + 1
    BY <2>1
  <2> HIDE DEF q
  <2>3. ASSUME NEW k \in 1..Len(q), q[k].s.do \in {"set", "op"}, q[k].f.name = "assign_value"
        PROVE  ValueIn(cells', q[k].s.from).form = cells'[q[k].s.cell].form
    <3>1. CASE k \in 1..n
      BY <1>11, <2>1, <2>3, <3>1 DEF FormsFit
    <3>2. CASE k = n + 1
      BY <1>3, <1>10, <1>13, <2>1, <3>2
    <3> QED BY <2>2, <3>1, <3>2
  <2>4. FormsFit(cells', q)
    BY <2>3 DEF FormsFit
  <2>5. IsMatrix(cells'[s.cell])
    BY <1>10, <1>13 DEF IsMatrix
  <2>6. Replaced(cells', q)
    BY <1>1, <1>13, <2>1, <2>5 DEF Replaced, ReplacesAt
  <2>7. Runnable(cells', q)
    BY <2>4, <2>6 DEF Runnable
  <2> QED BY <1>2, <2>7 DEF q
<1> QED BY <1>6, <1>12, <1>13

LEMMA StatementsKeepRunning ==
  ASSUME Sound(cells, plan), Runnable(cells, plan), Statement
  PROVE  Runnable(cells', plan')
<1>1. PICK s : /\ s \in Script[Len(plan) + 1] /\ Len(plan) < Len(Script)
               /\ \/ s.do = "read" /\ Read(s)
                  \/ s.do = "set" /\ Set(s)
                  \/ s.do = "op" /\ OpSet(s)
                  \/ s.do = "build" /\ Build(s)
  BY DEF Statement
<1>2. s \in AnyStatement
  <2>1. Len(plan) \in Nat
    BY EntryIs DEF Sound
  <2>2. \A A : \A q \in Seq(A) : \A n \in Nat : n < Len(q) => q[n + 1] \in A
    OBVIOUS
  <2>3. Script[Len(plan) + 1] \in SUBSET AnyStatement
    BY <1>1, <2>1, <2>2, StatementsAssumption, Zenon
  <2> QED BY <1>1, <2>3
<1>3. cells \in [Cells -> AnyValue] /\ IsPlan(plan)
  BY DEF Sound
<1>4. UNCHANGED <<cells, plan>> => Runnable(cells', plan')
  OBVIOUS
<1>5. ASSUME NEW f, s.do \in {"read", "build"}, Runs(s, f, cells), Adds(s, f), cells' = cells
      PROVE  Runnable(cells', plan')
  BY <1>2, <1>3, <1>5, AddedRuns DEF Adds
<1>6. ASSUME NEW f, BuiltFor(s, f), Run(s, f) PROVE Runnable(cells', plan')
  <2>1. Writing(s, f) \/ UNCHANGED <<cells, plan>>
    BY <1>6, RunDoes
  <2> QED BY <1>2, <1>4, <1>6, <2>1, WritingRuns
<1>7. CASE s.do = "read" /\ Read(s)
  <2> DEFINE x == cells[s.cell]
             f == AccessFunction(x, s.subs)
  <2>1. s.cell \in Cells /\ s.subs \in AnySubscripts \ {<< >>}
    BY <1>2, <1>7, StatementIs
  <2>2. x \in AnyValue /\ Alike(x, x)
    BY <1>3, <2>1 DEF Alike
  <2>3. \/ UNCHANGED <<cells, plan>>
        \/ /\ Family(s.subs) # <<"all", "all">> /\ f # NoFunction /\ ~AccessPanics(f, x)
           /\ Adds(s, AccessSolved(f, x)) /\ cells' = cells
    BY <1>7 DEF Read, Adds, Ends
  <2> HIDE DEF x
  <2>4. ASSUME Family(s.subs) # <<"all", "all">>, f # NoFunction, ~AccessPanics(f, x)
        PROVE  ~AccessPanics(AccessSolved(f, x), x)
    <3>1. ReadsFrom(f, x, s.subs) /\ IsFunction(f)
      BY <2>1, <2>2, <2>4, AccessesRead, AccessIsFunction
    <3> HIDE DEF f
    <3> QED BY <2>1, <2>2, <2>4, <3>1, ReadRunsAgain DEF ReadsFrom
  <2> HIDE DEF f
  <2>5. ~AccessPanics(AccessSolved(f, x), x) => Runs(s, AccessSolved(f, x), cells)
    BY <1>7 DEF Runs, x
  <2> QED BY <1>4, <1>5, <1>7, <2>3, <2>4, <2>5
<1>8. CASE s.do = "build" /\ Build(s)
  <2> DEFINE rows == PartsIn(cells, s)
             f == matrix(rows)
  <2>1. UNCHANGED <<cells, plan>> \/ (Adds(s, f) /\ cells' = cells)
    BY <1>8 DEF Build, Ends, Adds
  <2>2. rows \in Seq(Seq(AnyValue) \ {<< >>}) /\ rows # << >> /\ Len(rows) = Len(s.rows)
    BY <1>2, <1>3, <1>8, PartsAre
  <2>3. \E n \in 0..Len(rows) : MatrixFits(f, rows, n)
    <3> HIDE DEF rows
    <3> QED BY <2>2, BuildsRun
  <2> HIDE DEF f
  <2>4. PICK n \in 0..Len(s.rows) : MatrixFits(f, rows, n)
    BY <2>2, <2>3
  <2>5. Grid(rows, n)
    BY <1>2, <1>3, <1>8, PartsAreGrid
  <2>6. GridsAlike(rows, rows, n)
    BY DEF GridsAlike, Alike
  <2>7. BuildRuns(s, f, cells)
    BY <2>4, <2>5, <2>6 DEF BuildRuns
  <2>8. Runs(s, f, cells)
    BY <1>8, <2>7 DEF Runs
  <2> QED BY <1>4, <1>5, <1>8, <2>1, <2>8
<1>9. CASE s.do = "set" /\ Set(s)
  <2> DEFINE f == AssignFunction(cells[s.cell], s.subs, ValueIn(cells, s.from))
  <2>1. \/ UNCHANGED <<cells, plan>>
        \/ Family(s.subs) # <<"all", "all">> /\ Run(s, f)
    BY <1>9 DEF Set, Ends
  <2>2. Family(s.subs) # <<"all", "all">> => BuiltFor(s, f)
    BY <1>9 DEF BuiltFor
  <2> HIDE DEF f
  <2> QED BY <1>4, <1>6, <2>1, <2>2
<1>10. CASE s.do = "op" /\ OpSet(s)
  <2> DEFINE f == OpAssignFunction(s.op, cells[s.cell], s.subs, ValueIn(cells, s.from))
  <2>1. \/ UNCHANGED <<cells, plan>>
        \/ OpAssignable(s.subs) /\ Run(s, f)
    BY <1>10 DEF OpSet, Ends
  <2>2. OpAssignable(s.subs) => BuiltFor(s, f)
    BY <1>10 DEF BuiltFor
  <2> HIDE DEF f
  <2> QED BY <1>4, <1>6, <2>1, <2>2
<1> QED BY <1>1, <1>7, <1>8, <1>9, <1>10

(* In any plan each function runs on the shapes that the variables have,   *)
(* unless a statement of the plan replaces a whole matrix.                 *)
THEOREM PlansKeepRunning == Spec => []Runnable(cells, plan)
<1>1. Init => Runnable(cells, plan)
  <2> SUFFICES ASSUME Init PROVE Runnable(cells, plan)
    OBVIOUS
  <2>1. plan = << >>
    BY DEF Init
  <2>2. \A k \in 1..Len(plan) : FALSE
    BY <2>1
  <2> QED BY <2>2 DEF Runnable, FormsFit, AllRun
<1>2. Sound(cells, plan) /\ Runnable(cells, plan) /\ [Next]_vars => Runnable(cells, plan)'
  <2> SUFFICES ASSUME Sound(cells, plan), Runnable(cells, plan), [Next]_vars
               PROVE  Runnable(cells', plan')
    OBVIOUS
  <2>1. CASE Statement
    BY <2>1, StatementsKeepRunning
  <2>2. CASE Step
    BY <2>2, StepKeepsRunning DEF Step, SolvesWell
  <2>3. CASE UNCHANGED vars
    BY <2>3 DEF vars
  <2> QED BY <2>1, <2>2, <2>3 DEF Next
<1> QED BY <1>1, <1>2, ProgramsAreSound, PTL DEF Spec

(* A step stops the program only after a statement replaced a whole        *)
(* variable: otherwise no shape the plan was built for has changed.        *)
THEOREM StepsRunOn == Spec => []StepsRunUnlessReplaced
<1> DEFINE Fine(how, what, store, p) == how = "panic" /\ what = Stepped => Replaced(store, p)
<1>1. Init => Fine(outcome, last, cells, plan)
  BY DEF Init
<1>2. /\ Sound(cells, plan) /\ Runnable(cells, plan) /\ Fine(outcome, last, cells, plan) /\ [Next]_vars
      => Fine(outcome', last', cells', plan')
  <2> SUFFICES ASSUME Sound(cells, plan), Runnable(cells, plan), Fine(outcome, last, cells, plan),
                      [Next]_vars, outcome' = "panic", last' = Stepped
               PROVE  Replaced(cells', plan')
    OBVIOUS
  <2>1. CASE Statement
    <3>1. PICK s : s \in Script[Len(plan) + 1] /\ Len(plan) < Len(Script) /\ s = last'
      BY <2>1 DEF Statement, Read, Set, OpSet, Build, Run, Ends
    <3>2. s \in AnyStatement
      <4>1. Len(plan) \in Nat
        BY EntryIs DEF Sound
      <4>2. \A A : \A q \in Seq(A) : \A n \in Nat : n < Len(q) => q[n + 1] \in A
        OBVIOUS
      <4>3. Script[Len(plan) + 1] \in SUBSET AnyStatement
        BY <3>1, <4>1, <4>2, StatementsAssumption, Zenon
      <4> QED BY <3>1, <4>3
    <3>3. s.do # "step"
      BY <3>2, StatementIs
    <3> QED BY <3>1, <3>3 DEF Stepped
  <2>2. CASE Step
    <3>1. SolvedPlan.panicked => Replaced(cells, plan)
      BY StepKeepsRunning DEF SolvesWell
    <3>2. SolvedPlan.panicked /\ UNCHANGED <<cells, plan>>
      BY <2>2 DEF Step
    <3> QED BY <3>1, <3>2
  <2>3. CASE UNCHANGED vars
    BY <2>3 DEF vars
  <2> QED BY <2>1, <2>2, <2>3 DEF Next
<1>3. Sound(cells, plan) /\ Fine(outcome, last, cells, plan) => StepsRunUnlessReplaced
  <2>1. Sound(cells, plan) => DOMAIN plan = 1..Len(plan)
    BY EntryIs DEF Sound
  <2> QED BY <2>1 DEF StepsRunUnlessReplaced, Replaced, ReplacesAt, SetsWhole, Writes
<1>4. Spec => []Fine(outcome, last, cells, plan)
  <2>1. Fine(outcome, last, cells, plan)' <=> Fine(outcome', last', cells', plan')
    OBVIOUS
  <2> HIDE DEF Fine
  <2> QED BY <1>1, <1>2, <2>1, ProgramsAreSound, PlansKeepRunning, PTL DEF Spec
<1> HIDE DEF Fine
<1> QED BY <1>3, <1>4, ProgramsAreSound, PTL

-----------------------------------------------------------------------------
(* What the reads of a plan hold.                                          *)

(* The read copies every element of what is selected of x.                 *)
ReadsOn(f, x, subs) ==
  InBounds(x, subs) /\ ~ScramblesRows(f) => ReadsAll(AccessMoves(f, x), x, subs, AccessSink(f))

(* Its result is what is selected of x.                                    *)
Selected(f, x, subs) ==
  InBounds(x, subs) /\ ~ScramblesRows(f) => f.out.elems = Reference(x, subs)

(* Copied in any order, each place of the result gets the element that it  *)
(* stands for: no other move writes it another.                            *)
LEMMA CopiesMakeReference ==
  ASSUME NEW op, op = "=", NEW x \in AnyResult, NEW subs, NEW z \in AnyResult, NEW n \in Nat, NEW moves, DOMAIN moves = 1..n,
         Len(RowsOf(x, subs)) \in Nat, Len(ColsOf(x, subs)) \in Nat,
         InRange(moves, n, z, x), ReadsAll(moves, x, subs, z)
  PROVE  Moved(op, moves, z, x).elems = Reference(x, subs)
<1>a. \E r : /\ r[0] = z.elems
             /\ \A k \in 1..n : r[k] = StepOf(r[k - 1], moves[k], op, x)
             /\ Moved(op, moves, z, x) = [z EXCEPT !.elems = r[n]]
  BY MovedIs
<1> DEFINE R == Len(RowsOf(x, subs))
           C == Len(ColsOf(x, subs))
           N == C * R
           ref == [p \in 1..N |-> x.elems[Place(x, subs, ((p - 1) % R) + 1, ((p - 1) \div R) + 1)]]
           y == Moved(op, moves, z, x)
<1>1. Reference(x, subs) = ref
  BY DEF Reference, Loops, Place
<1>2. PICK r : /\ r[0] = z.elems
               /\ \A k \in 1..n : r[k] = StepOf(r[k - 1], moves[k], op, x)
               /\ Moved(op, moves, z, x) = [z EXCEPT !.elems = r[n]]
  BY <1>a
<1>3. z.elems \in [1..N -> Int] /\ Size(z) = N /\ N \in Nat
  <2>1. N \in Nat
    BY ProductIsNat
  <2>2. Size(z) = N
    BY DEF ReadsAll
  <2> HIDE DEF N
  <2> QED BY <2>1, <2>2, ResultElems
<1>4. ASSUME NEW i \in 1..R, NEW j \in 1..C
      PROVE  LET p == (j - 1) * R + i
             IN  p \in 1..N /\ ref[p] = x.elems[Place(x, subs, i, j)]
  <2> DEFINE p == (j - 1) * R + i
  <2>1. p \in 1..N
    BY BlockIndex
  <2>2. ((p - 1) % R) + 1 = i /\ ((p - 1) \div R) + 1 = j
    <3>1. i \in 1..R /\ j \in Nat \ {0} /\ R \in Nat
      OBVIOUS
    <3> HIDE DEF R
    <3> QED BY <3>1, PlaceIsUnique
  <2>3. ref[p] = x.elems[Place(x, subs, ((p - 1) % R) + 1, ((p - 1) \div R) + 1)]
    <3> HIDE DEF p, N
    <3> QED BY <2>1
  <2> HIDE DEF p, ref, N
  <2> QED BY <2>1, <2>2, <2>3 DEF p
<1>5. ASSUME NEW k \in 1..n
      PROVE  moves[k].to \in 1..N /\ x.elems[moves[k].from] = ref[moves[k].to]
  <2>1. PICK i \in 1..R, j \in 1..C : moves[k].to = (j - 1) * R + i /\ moves[k].from = Place(x, subs, i, j)
    BY DEF ReadsAll
  <2> HIDE DEF R, C, N, ref
  <2> QED BY <1>4, <2>1
<1> DEFINE Copied(s, k) == \A p \in 1..N : (\E i \in 1..k : moves[i].to = p) => s[p] = ref[p]
           D == {k \in Nat : k <= n => r[k] \in [1..N -> Int] /\ Copied(r[k], k)}
<1>6. 0 \in D
  <2>1. \A i \in 1..0 : FALSE
    OBVIOUS
  <2> HIDE DEF N, ref
  <2> QED BY <1>2, <1>3, <2>1
<1>7. ASSUME NEW k \in Nat, k \in D PROVE k + 1 \in D
  <2> SUFFICES ASSUME k + 1 <= n PROVE r[k + 1] \in [1..N -> Int] /\ Copied(r[k + 1], k + 1)
    OBVIOUS
  <2> DEFINE m == moves[k + 1]
             s == r[k]
             t == r[k + 1]
  <2>1. s \in [1..N -> Int] /\ Copied(s, k) /\ k + 1 \in 1..n /\ (k + 1) - 1 = k
    BY <1>7
  <2>2. t = [s EXCEPT ![m.to] = x.elems[m.from]]
    BY <1>2, <2>1 DEF StepOf, Put
  <2>3. m.to \in 1..N /\ x.elems[m.from] = ref[m.to] /\ m.from \in 1..Size(x)
    BY <1>5, <2>1 DEF InRange
  <2>4. x.elems[m.from] \in Int
    BY <2>3, ResultElems
  <2>5. \A i \in 1..(k + 1) : i \in 1..k \/ i = k + 1
    OBVIOUS
  <2> HIDE DEF N, ref, s, t
  <2>6. t \in [1..N -> Int]
    BY <2>1, <2>2, <2>4
  <2>7. ASSUME NEW p \in 1..N, NEW i \in 1..(k + 1), moves[i].to = p PROVE t[p] = ref[p]
    <3>1. CASE p = m.to
      BY <2>1, <2>2, <2>3, <3>1
    <3>2. CASE p # m.to
      <4>1. i \in 1..k
        BY <2>5, <2>7, <3>2
      <4>2. s[p] = ref[p]
        BY <2>1, <2>7, <4>1
      <4> QED BY <2>1, <2>2, <3>2, <4>2
    <3> QED BY <3>1, <3>2
  <2>8. Copied(t, k + 1)
    BY <2>7
  <2> HIDE DEF Copied
  <2> QED BY <2>6, <2>8 DEF t
<1>8. r[n] \in [1..N -> Int] /\ Copied(r[n], n)
  <2>1. n \in D
    <3> HIDE DEF D
    <3> QED BY <1>6, <1>7, NatSetInduction
  <2> HIDE DEF Copied, N
  <2> QED BY <2>1
<1>9. ASSUME NEW p \in 1..N PROVE r[n][p] = ref[p]
  <2> DEFINE i == ((p - 1) % R) + 1
             j == ((p - 1) \div R) + 1
  <2>1. i \in 1..R /\ j \in 1..C
    BY LoopsIndex
  <2>2. p = (j - 1) * R + i
    <3>1. p - 1 \in Nat /\ R \in Nat /\ R > 0
      BY <2>1
    <3>2. p - 1 = R * ((p - 1) \div R) + ((p - 1) % R) /\ (p - 1) \div R \in Nat /\ (p - 1) % R \in Nat
      <4> HIDE DEF R
      <4> QED BY <3>1
    <3> DEFINE d == (p - 1) \div R
               e == (p - 1) % R
    <3>3. d \in Nat /\ e \in Nat /\ p - 1 = R * d + e /\ R * d = d * R /\ R * d \in Nat
      <4>1. d \in Nat /\ e \in Nat /\ p - 1 = R * d + e
        BY <3>2
      <4> HIDE DEF d, e, R
      <4> QED BY <3>1, <4>1
    <3>4. j - 1 = d /\ i = e + 1
      <4>1. j = d + 1 /\ i = e + 1
        OBVIOUS
      <4> HIDE DEF i, j, d, e
      <4> QED BY <3>3, <4>1
    <3> HIDE DEF i, j, d, e, R, N
    <3> QED BY <3>1, <3>3, <3>4
  <2> HIDE DEF i, j
  <2>3. \E k \in DOMAIN moves : moves[k].to = p
    BY <2>1, <2>2 DEF ReadsAll
  <2> HIDE DEF N, ref
  <2> QED BY <1>8, <2>3
<1> HIDE DEF N
<1>10. r[n] = ref
  <2>1. DOMAIN ref = 1..N /\ DOMAIN r[n] = 1..N
    BY <1>8
  <2>2. ref = [p \in 1..N |-> ref[p]] /\ r[n] = [p \in 1..N |-> r[n][p]]
    BY <1>8
  <2> HIDE DEF ref
  <2> QED BY <1>9, <2>2
<1>11. y.elems = r[n]
  BY <1>2 DEF AnyResult
<1> QED BY <1>1, <1>10, <1>11

LEMMA AlikeSelections ==
  ASSUME NEW x, NEW y, Alike(x, y), NEW subs
  PROVE  /\ RowsOf(y, subs) = RowsOf(x, subs) /\ ColsOf(y, subs) = ColsOf(x, subs)
         /\ \A r, c : PositionOf(y, subs, r, c) = PositionOf(x, subs, r, c) /\ Place(y, subs, r, c) = Place(x, subs, r, c)
         /\ InBounds(y, subs) = InBounds(x, subs)
<1>1. /\ Size(y) = Size(x) /\ y.rows = x.rows /\ y.cols = x.cols
      /\ \A i : Index1d(y, i) = Index1d(x, i)
      /\ \A r, c : Index2d(y, r, c) = Index2d(x, r, c)
  BY AlikePositions
<1>2. RowsOf(y, subs) = RowsOf(x, subs) /\ ColsOf(y, subs) = ColsOf(x, subs)
  BY <1>1 DEF RowsOf, ColsOf
<1>3. \A r, c : PositionOf(y, subs, r, c) = PositionOf(x, subs, r, c)
  BY <1>1 DEF PositionOf
<1>4. InBounds(y, subs) = InBounds(x, subs)
  BY <1>1, <1>2, <1>3 DEF InBounds
<1> QED BY <1>2, <1>3, <1>4 DEF Place

(* A read of a variable that got other elements, and of one solved again.  *)
LEMMA AlikeReadsAll ==
  ASSUME NEW x, NEW y, Alike(x, y), NEW subs, NEW moves, NEW z, NEW w, Size(w) = Size(z),
         ReadsAll(moves, x, subs, z)
  PROVE  ReadsAll(moves, y, subs, w)
<1>1. /\ RowsOf(y, subs) = RowsOf(x, subs) /\ ColsOf(y, subs) = ColsOf(x, subs)
      /\ \A r, c : Place(y, subs, r, c) = Place(x, subs, r, c)
  BY AlikeSelections
<1> DEFINE R == Len(RowsOf(x, subs))
           C == Len(ColsOf(x, subs))
<1>2. \A k \in DOMAIN moves : \E r \in 1..R, c \in 1..C :
        moves[k].to = (c - 1) * R + r /\ moves[k].from = Place(y, subs, r, c)
  <2>1. \A k \in DOMAIN moves : \E r \in 1..R, c \in 1..C :
          moves[k].to = (c - 1) * R + r /\ moves[k].from = Place(x, subs, r, c)
    BY DEF ReadsAll
  <2> HIDE DEF R, C
  <2> QED BY <1>1, <2>1
<1>3. /\ Size(w) = C * R
      /\ \A r \in 1..R, c \in 1..C : \E k \in DOMAIN moves : moves[k].to = (c - 1) * R + r
  BY DEF ReadsAll
<1>4. R = Len(RowsOf(y, subs)) /\ C = Len(ColsOf(y, subs))
  BY <1>1
<1> HIDE DEF R, C
<1> QED BY <1>2, <1>3, <1>4, Zenon DEF ReadsAll

LEMMA ReadsOnAlike ==
  ASSUME NEW x, NEW y, Alike(x, y), NEW subs, NEW f, NEW g, g.name = f.name, g.ix = f.ix,
         f.name \in OneReads \cup TwoReads, KeepsForm(AccessSink(f), AccessSink(g)),
         f.name \in {"Access2DRR", "Access2DAR"} => Alike(f.out, g.out),
         ReadsOn(f, x, subs)
  PROVE  ReadsOn(g, y, subs)
<1>1. AccessMoves(g, y) = AccessMoves(f, x)
  BY AlikeReads
<1>2. InBounds(y, subs) = InBounds(x, subs) /\ ScramblesRows(g) = ScramblesRows(f)
  BY AlikeSelections DEF ScramblesRows
<1>3. Size(AccessSink(g)) = Size(AccessSink(f))
  BY DEF KeepsForm
<1> QED BY <1>1, <1>2, <1>3, AlikeReadsAll DEF ReadsOn

LEMMA SolvedReads ==
  ASSUME NEW x \in AnyValue, NEW subs \in AnySubscripts \ {<< >>}, NEW f, IsFunction(f), ReadBuilt(f, subs),
         AccessSink(f) \in AnyResult, SinkIs(f, AccessSink(f)), ~AccessPanics(f, x), ReadsOn(f, x, subs)
  PROVE  LET g == AccessSolved(f, x) IN ReadsOn(g, x, subs) /\ Selected(g, x, subs)
<1> DEFINE g == AccessSolved(f, x)
           z == AccessSink(f)
           moves == AccessMoves(f, x)
<1>1. ReadSound(g, subs) /\ g.name = f.name /\ g.ix = f.ix /\ KeepsForm(z, g.out)
  BY SolvedReadIs
<1>2. g.out = Moved("=", moves, z, x)
  BY DEF AccessSolved, IsFunction, Function
<1>3. PICK n \in Nat : DOMAIN moves = 1..n
  BY AccessLoops DEF IsLoop
<1>4. InRange(moves, n, z, x)
  BY <1>3 DEF AccessPanics, Panics, InRange
<1>5. x \in AnyResult
  BY ValueIsResult
<1>6. Len(RowsOf(x, subs)) \in Nat /\ Len(ColsOf(x, subs)) \in Nat
  <2>1. Len(subs) \in {1, 2}
    BY SubscriptsAre
  <2>2. CASE Len(subs) = 1
    BY <2>2, OneSelects
  <2>3. CASE Len(subs) = 2
    BY <2>3, TwoSelects
  <2> QED BY <2>1, <2>2, <2>3
<1> HIDE DEF g, z, moves
<1>7. AccessSink(g) = g.out
  BY <1>1, SinkStays DEF ReadSound
<1>8. ReadsOn(g, x, subs)
  <2>1. f.name \in {"Access2DRR", "Access2DAR"} => z = f.out
    BY DEF AccessSink, z
  <2>2. f.name \in {"Access2DRR", "Access2DAR"} => Alike(f.out, g.out)
    BY <1>1, <2>1 DEF KeepsForm, Alike
  <2>3. f.name \in OneReads \cup TwoReads
    BY DEF ReadBuilt
  <2>4. Alike(x, x)
    BY DEF Alike
  <2> QED BY <1>1, <1>7, <2>2, <2>3, <2>4, ReadsOnAlike DEF z
<1>9. Selected(g, x, subs)
  <2> SUFFICES ASSUME InBounds(x, subs), ~ScramblesRows(g) PROVE g.out.elems = Reference(x, subs)
    BY DEF Selected
  <2>1. ~ScramblesRows(f)
    BY <1>1 DEF ScramblesRows
  <2>2. ReadsAll(moves, x, subs, z)
    BY <2>1 DEF ReadsOn, moves, z
  <2>3. z \in AnyResult
    BY DEF z
  <2> QED BY <1>2, <1>3, <1>4, <1>5, <1>6, <2>2, <2>3, CopiesMakeReference
<1> QED BY <1>8, <1>9 DEF g

(* No statement replaces the matrix that entry k reads.                    *)
Kept(store, p, k) == \A j \in 1..Len(p) : ReplacesAt(store, p, j) => p[j].s.cell # p[k].s.cell

(* None of the entries from k to n writes what entry k reads.              *)
Unwritten(p, k, n) == \A j \in k..n : p[j].s.do \in {"set", "op"} => p[j].s.cell # p[k].s.cell

(* Each read copies all of what is selected, and of the first n entries    *)
(* those hold it whose variable was not written since.                     *)
ReadHolds(store, p, n, k) ==
  LET s == p[k].s
      f == p[k].f
  IN  /\ ReadsOn(f, store[s.cell], s.subs)
      /\ k <= n /\ Unwritten(p, k, n) => Selected(f, store[s.cell], s.subs)

ReadsHold(store, p, n) ==
  \A k \in 1..Len(p) : p[k].s.do = "read" /\ Kept(store, p, k) => ReadHolds(store, p, n, k)

LEMMA ReadsHoldFrom ==
  ASSUME NEW store, NEW p, NEW n, ReadsHold(store, p, n)
  PROVE  ReadsHold(store, p, 0)
<1>1. \A k \in 1..Len(p) : ~(k <= 0)
  OBVIOUS
<1> QED BY <1>1 DEF ReadsHold, ReadHolds

(* The next entry: one that reads holds what it selects.                   *)
LEMMA NextHolds ==
  ASSUME NEW store, NEW p, Len(p) \in Nat, NEW k \in 1..Len(p), ReadsHold(store, p, k - 1),
         p[k].s.do = "read" /\ Kept(store, p, k) => Selected(p[k].f, store[p[k].s.cell], p[k].s.subs)
  PROVE  ReadsHold(store, p, k)
<1>1. ASSUME NEW j \in 1..Len(p), p[j].s.do = "read", Kept(store, p, j)
      PROVE  ReadHolds(store, p, k, j)
  <2>1. ReadHolds(store, p, k - 1, j)
    BY <1>1 DEF ReadsHold
  <2>2. CASE j = k
    BY <1>1, <2>1, <2>2 DEF ReadHolds
  <2>3. CASE j # k
    <3>1. j <= k => j <= k - 1
      BY <2>3
    <3>2. j..(k - 1) \subseteq j..k
      OBVIOUS
    <3>3. Unwritten(p, j, k) => Unwritten(p, j, k - 1)
      BY <3>2 DEF Unwritten
    <3> QED BY <2>1, <3>1, <3>3 DEF ReadHolds
  <2> QED BY <2>2, <2>3
<1> QED BY <1>1 DEF ReadsHold

(* One entry has another function, which does not replace a variable.      *)
LEMMA RenewedHolds ==
  ASSUME NEW store, NEW p, IsPlan(p), NEW k \in 1..Len(p), ReadsHold(store, p, k - 1),
         p[k].s.do \in {"read", "build"}, NEW a,
         p[k].s.do = "read" /\ Kept(store, p, k) =>
           ReadsOn(a, store[p[k].s.cell], p[k].s.subs) /\ Selected(a, store[p[k].s.cell], p[k].s.subs),
         NEW q, Renews(q, p, k, a)
  PROVE  ReadsHold(store, q, k)
<1>1. /\ Len(q) = Len(p) /\ Len(p) \in Nat
      /\ \A j \in 1..Len(p) : q[j].s = p[j].s /\ (j = k => q[j].f = a) /\ (j # k => q[j].f = p[j].f)
  BY EntryChanges
<1>2. \A j \in 1..Len(p) : ReplacesAt(store, q, j) = ReplacesAt(store, p, j)
  BY <1>1 DEF ReplacesAt
<1>3. \A j \in 1..Len(p) : Kept(store, q, j) = Kept(store, p, j)
  BY <1>1, <1>2 DEF Kept
<1>4. ASSUME NEW j \in 1..Len(p), q[j].s.do = "read", Kept(store, q, j)
      PROVE  ReadHolds(store, q, k - 1, j)
  <2>1. p[j].s.do = "read" /\ Kept(store, p, j) /\ q[j].s = p[j].s
    BY <1>1, <1>3, <1>4
  <2>2. CASE j = k
    <3>1. ~(j <= k - 1)
      BY <2>2
    <3> QED BY <1>1, <2>1, <2>2, <3>1 DEF ReadHolds
  <2>3. CASE j # k
    <3>1. ReadHolds(store, p, k - 1, j) /\ q[j].f = p[j].f
      BY <1>1, <2>1, <2>3 DEF ReadsHold
    <3>2. \A i \in j..(k - 1) : q[i].s = p[i].s
      BY <1>1
    <3>3. Unwritten(q, j, k - 1) => Unwritten(p, j, k - 1)
      BY <2>1, <3>2 DEF Unwritten
    <3> QED BY <2>1, <3>1, <3>3 DEF ReadHolds
  <2> QED BY <2>2, <2>3
<1>5. ReadsHold(store, q, k - 1)
  BY <1>1, <1>4 DEF ReadsHold
<1>6. q[k].s.do = "read" /\ Kept(store, q, k) => Selected(q[k].f, store[q[k].s.cell], q[k].s.subs)
  BY <1>1, <1>3
<1> QED BY <1>1, <1>5, <1>6, NextHolds

(* Entry k writes its variable.                                            *)
LEMMA WrittenHolds ==
  ASSUME NEW store, NEW p, Sound(store, p), NEW k \in 1..Len(p), ReadsHold(store, p, k - 1),
         p[k].s.do \in {"set", "op"}, NEW y, NEW to, to = [store EXCEPT ![p[k].s.cell] = y],
         SameForms(store, to), ReplacesAt(store, p, k) \/ AlikeStores(store, to)
  PROVE  ReadsHold(to, p, k)
<1>1. store \in [Cells -> AnyValue] /\ Len(p) \in Nat /\ \A j \in 1..Len(p) : p[j].s \in AnyStatement
  BY EntryIs DEF Sound
<1>2. \A j \in 1..Len(p) : p[j].s.do # "build" => p[j].s.cell \in Cells /\ p[j].s.subs \in AnySubscripts
  BY <1>1, StatementIs
<1>3. \A c \in Cells : c # p[k].s.cell => to[c] = store[c]
  BY <1>1
<1>4. ASSUME NEW j \in 1..Len(p), NEW i \in 1..Len(p), p[i].s.do \in {"set", "op"}
      PROVE  ReplacesAt(to, p, i) = ReplacesAt(store, p, i)
  BY <1>2, <1>4 DEF ReplacesAt, IsMatrix, SameForms
<1>5. \A j \in 1..Len(p) : Kept(to, p, j) => Kept(store, p, j)
  BY <1>4 DEF Kept, ReplacesAt
<1>6. ASSUME NEW j \in 1..Len(p), p[j].s.do = "read", Kept(to, p, j)
      PROVE  ReadHolds(to, p, k, j)
  <2> DEFINE s == p[j].s
             f == p[j].f
             a == store[s.cell]
             b == to[s.cell]
  <2>1. ReadHolds(store, p, k - 1, j) /\ Kept(store, p, j) /\ s.cell \in Cells
    BY <1>2, <1>5, <1>6 DEF ReadsHold
  <2>2. ReadSound(f, s.subs)
    BY <1>6 DEF Sound, Fitted
  <2>3. ReadsOn(f, a, s.subs)
    BY <2>1 DEF ReadHolds
  <2>4. ReadsOn(f, b, s.subs)
    <3>1. CASE ReplacesAt(store, p, k)
      <4>1. p[k].s.cell # s.cell
        BY <2>1, <3>1 DEF Kept
      <4> QED BY <1>3, <2>1, <2>3, <4>1
    <3>2. CASE AlikeStores(store, to)
      <4>1. Alike(a, b)
        BY <2>1, <3>2 DEF AlikeStores
      <4>2. KeepsForm(AccessSink(f), AccessSink(f)) /\ Alike(f.out, f.out)
        BY DEF KeepsForm, Alike
      <4>3. f.name \in OneReads \cup TwoReads
        BY <2>2 DEF ReadSound, ReadBuilt
      <4> HIDE DEF a, b, f, s
      <4> QED BY <2>3, <4>1, <4>2, <4>3, ReadsOnAlike
    <3> QED BY <3>1, <3>2
  <2>5. ASSUME j <= k, Unwritten(p, j, k) PROVE Selected(f, b, s.subs)
    <3>1. j # k
      BY <1>6
    <3>2. j <= k - 1 /\ k \in j..k /\ j..(k - 1) \subseteq j..k
      BY <2>5, <3>1
    <3>3. Unwritten(p, j, k - 1) /\ p[k].s.cell # s.cell
      BY <2>5, <3>2 DEF Unwritten
    <3>4. Selected(f, a, s.subs)
      BY <2>1, <3>2, <3>3 DEF ReadHolds
    <3>5. b = a
      BY <1>3, <2>1, <3>3
    <3> QED BY <3>4, <3>5
  <2> QED BY <2>4, <2>5 DEF ReadHolds
<1> QED BY <1>6 DEF ReadsHold

(* What solving an entry leaves, where it does not stop.                   *)
Leaves(store, p, k, to) ==
  LET s == p[k].s
      f == p[k].f
      x == store[s.cell]
      v == ValueIn(store, s.from)
  IN  /\ s.do = "build" => to.cells = store /\ \E a : Renews(to.plan, p, k, a)
      /\ s.do = "read" => /\ ~AccessPanics(f, x)
                          /\ to.cells = store /\ Renews(to.plan, p, k, AccessSolved(f, x))
      /\ s.do \in {"set", "op"} =>
           /\ ~AssignPanics(f, x, v) /\ to.plan = p
           /\ to.cells = [store EXCEPT ![s.cell] = AssignSolved(f, x, v, IsItself(p[k]))]

LEMMA SolvingLeaves ==
  ASSUME NEW store, NEW p, NEW panicked \in BOOLEAN, ~panicked,
         NEW k \in 1..Len(p), p[k].s.do \in {"read", "set", "op", "build"}, NEW to,
         to = SolveAt([cells |-> store, plan |-> p, panicked |-> panicked], k), ~to.panicked
  PROVE  Leaves(store, p, k, to)
<1> DEFINE state == [cells |-> store, plan |-> p, panicked |-> panicked]
           s == p[k].s
           f == p[k].f
           x == store[s.cell]
           v == ValueIn(store, s.from)
           parts == PartsIn(store, s)
           y == AssignSolved(f, x, v, IsItself(p[k]))
           stopped == [cells |-> store, plan |-> p, panicked |-> TRUE]
           renewed(a) == [cells |-> store, plan |-> [p EXCEPT ![k].f = a], panicked |-> panicked]
           written == [cells |-> [store EXCEPT ![s.cell] = y], plan |-> p, panicked |-> panicked]
<1>1. s.do = "build" => to = IF MatrixPanics(f, parts) THEN [state EXCEPT !.panicked = TRUE]
                             ELSE [state EXCEPT !.plan[k].f = MatrixSolved(@, parts)]
  BY DEF SolveAt
<1>2. s.do = "read" => to = IF AccessPanics(f, x) THEN [state EXCEPT !.panicked = TRUE]
                            ELSE [state EXCEPT !.plan[k].f = AccessSolved(@, x)]
  BY DEF SolveAt
<1>3. s.do \in {"set", "op"} => to = IF AssignPanics(f, x, v) THEN [state EXCEPT !.panicked = TRUE]
                                     ELSE [state EXCEPT !.cells[s.cell] = y]
  BY DEF SolveAt
<1>4. [state EXCEPT !.panicked = TRUE] = stopped
  <2>1. \A a, b, c, d : [[cells |-> a, plan |-> b, panicked |-> c] EXCEPT !.panicked = d]
                          = [cells |-> a, plan |-> b, panicked |-> d]
    OBVIOUS
  <2> QED BY <2>1, Zenon
<1>5. [state EXCEPT !.cells[s.cell] = y] = written
  <2> HIDE DEF parts, x, y, v, f
  <2> QED BY SMTT(40)
<1>6. [state EXCEPT !.plan[k].f = MatrixSolved(@, parts)] = renewed(MatrixSolved(f, parts))
  <2> HIDE DEF parts, x, y, v, s
  <2> QED BY SMTT(40)
<1>7. [state EXCEPT !.plan[k].f = AccessSolved(@, x)] = renewed(AccessSolved(f, x))
  <2> HIDE DEF parts, x, y, v, s
  <2> QED BY SMTT(40)
<1>8. /\ s.do = "build" => to = IF MatrixPanics(f, parts) THEN stopped ELSE renewed(MatrixSolved(f, parts))
      /\ s.do = "read" => to = IF AccessPanics(f, x) THEN stopped ELSE renewed(AccessSolved(f, x))
      /\ s.do \in {"set", "op"} => to = IF AssignPanics(f, x, v) THEN stopped ELSE written
  <2>1. s.do = "build" => to = IF MatrixPanics(f, parts) THEN stopped ELSE renewed(MatrixSolved(f, parts))
    BY <1>1, <1>4, <1>6, Zenon
  <2>2. s.do = "read" => to = IF AccessPanics(f, x) THEN stopped ELSE renewed(AccessSolved(f, x))
    BY <1>2, <1>4, <1>7, Zenon
  <2>3. s.do \in {"set", "op"} => to = IF AssignPanics(f, x, v) THEN stopped ELSE written
    BY <1>3, <1>4, <1>5, Zenon
  <2> QED BY <2>1, <2>2, <2>3
<1>9. stopped.panicked
  OBVIOUS
<1>10. \A a : renewed(a).cells = store /\ Renews(renewed(a).plan, p, k, a)
  <2>1. ASSUME NEW a PROVE renewed(a).cells = store /\ renewed(a).plan = [p EXCEPT ![k].f = a]
    OBVIOUS
  <2> HIDE DEF renewed
  <2> QED BY <2>1, Zenon DEF Renews
<1>11. written.plan = p /\ written.cells = [store EXCEPT ![s.cell] = y]
  <2> HIDE DEF y, s
  <2> QED OBVIOUS
<1> HIDE DEF state, f, x, v, parts, y, stopped, renewed, written
<1>12. s.do = "build" => to.cells = store /\ \E a : Renews(to.plan, p, k, a)
  BY <1>8, <1>9, <1>10
<1>13. s.do = "read" => ~AccessPanics(f, x) /\ to.cells = store /\ Renews(to.plan, p, k, AccessSolved(f, x))
  BY <1>8, <1>9, <1>10
<1>14. s.do \in {"set", "op"} => ~AssignPanics(f, x, v) /\ to.plan = p /\ to.cells = [store EXCEPT ![s.cell] = y]
  BY <1>8, <1>9, <1>11
<1> QED BY <1>12, <1>13, <1>14, Zenon DEF Leaves, s, f, x, v, y

LEMMA SolvingHolds ==
  ASSUME NEW store, NEW p, Sound(store, p), FormsFit(store, p), NEW k \in 1..Len(p),
         ReadsHold(store, p, k - 1), NEW panicked \in BOOLEAN, ~panicked, NEW to,
         to = SolveAt([cells |-> store, plan |-> p, panicked |-> panicked], k), ~to.panicked
  PROVE  ReadsHold(to.cells, to.plan, k)
<1> DEFINE s == p[k].s
           f == p[k].f
           x == store[s.cell]
           v == ValueIn(store, s.from)
<1>1. store \in [Cells -> AnyValue] /\ IsPlan(p) /\ s \in AnyStatement /\ Fitted(s, f)
  BY EntryIs DEF Sound
<1>2. s.do \in {"read", "set", "op", "build"}
  BY <1>1, StatementIs
<1>l. /\ s.do = "build" => to.cells = store /\ \E a : Renews(to.plan, p, k, a)
      /\ s.do = "read" => /\ ~AccessPanics(f, x)
                          /\ to.cells = store /\ Renews(to.plan, p, k, AccessSolved(f, x))
      /\ s.do \in {"set", "op"} =>
           /\ ~AssignPanics(f, x, v) /\ to.plan = p
           /\ to.cells = [store EXCEPT ![s.cell] = AssignSolved(f, x, v, IsItself(p[k]))]
  <2>1. Leaves(store, p, k, to)
    BY <1>2, SolvingLeaves
  <2> QED BY <2>1 DEF Leaves
<1>3. CASE s.do = "build"
  <2>1. to.cells = store /\ \E a : Renews(to.plan, p, k, a)
    BY <1>3, <1>l
  <2>2. PICK a : Renews(to.plan, p, k, a)
    BY <2>1
  <2> HIDE DEF x, v, f
  <2> QED BY <1>1, <1>3, <2>1, <2>2, RenewedHolds
<1>4. CASE s.do = "read"
  <2> DEFINE g == AccessSolved(f, x)
  <2>1. ~AccessPanics(f, x) /\ to.cells = store /\ Renews(to.plan, p, k, g)
    BY <1>4, <1>l
  <2>2. s.cell \in Cells /\ s.subs \in AnySubscripts \ {<< >>} /\ x \in AnyValue
    <3>1. s.cell \in Cells /\ s.subs \in AnySubscripts /\ s.subs # << >>
      BY <1>1, <1>4, StatementIs
    <3> QED BY <1>1, <3>1
  <2>3. ReadSound(f, s.subs) /\ AccessSink(f) = f.out
    BY <1>1, <1>4, SinkStays DEF Fitted, ReadSound
  <2>4. ASSUME Kept(store, p, k) PROVE ReadsOn(g, x, s.subs) /\ Selected(g, x, s.subs)
    <3>1. ReadsOn(f, x, s.subs)
      BY <1>4, <2>4 DEF ReadsHold, ReadHolds
    <3> HIDE DEF x, f, s
    <3> QED BY <2>1, <2>2, <2>3, <3>1, SolvedReads DEF ReadSound
  <2> HIDE DEF g, v
  <2> QED BY <1>1, <1>4, <2>1, <2>4, RenewedHolds
<1>5. CASE s.do \in {"set", "op"}
  <2> DEFINE y == AssignSolved(f, x, v, IsItself(p[k]))
             b == [store EXCEPT ![s.cell] = y]
  <2>1. ~AssignPanics(f, x, v) /\ to.plan = p /\ to.cells = b
    BY <1>5, <1>l
  <2>2. SameForms(store, b) /\ ((f.name = "assign_value" /\ IsMatrix(x)) \/ AlikeStores(store, b))
    <3>1. Built(f, s.subs)
      BY <1>1, <1>5 DEF Fitted
    <3>2. f.name = "assign_value" => v.form = x.form
      BY <1>5 DEF FormsFit
    <3>3. IsItself(p[k]) \in BOOLEAN /\ (IsItself(p[k]) => v = x)
      BY ItselfIs
    <3> HIDE DEF s, f
    <3> QED BY <1>1, <1>5, <2>1, <3>1, <3>2, <3>3, AssignedShapes
  <2>3. ReplacesAt(store, p, k) \/ AlikeStores(store, b)
    BY <1>5, <2>2 DEF ReplacesAt
  <2>4. to.cells = [store EXCEPT ![p[k].s.cell] = y]
    BY <2>1
  <2> HIDE DEF y, b, f, x, v
  <2>5. ReadsHold(to.cells, p, k)
    BY <1>5, <2>1, <2>2, <2>3, <2>4, WrittenHolds
  <2> QED BY <2>1, <2>5
<1> QED BY <1>2, <1>3, <1>4, <1>5

LEMMA StepHolds ==
  ASSUME Sound(cells, plan), Runnable(cells, plan), ReadsHold(cells, plan, Len(plan)),
         ~SolvedPlan.panicked
  PROVE  ReadsHold(SolvedPlan.cells, SolvedPlan.plan, Len(plan))
<1> DEFINE n == Len(plan)
           Good(t, k) == /\ t = [cells |-> t.cells, plan |-> t.plan, panicked |-> t.panicked]
                         /\ t.panicked \in BOOLEAN /\ Len(t.plan) = n
                         /\ Sound(t.cells, t.plan)
                         /\ SolvesWell(cells, plan, t)
                         /\ ~t.panicked => ReadsHold(t.cells, t.plan, k)
<1>1. n \in Nat /\ DOMAIN plan = 1..n
  BY EntryIs DEF Sound
<1>2. PICK r : /\ r[0] = Now
               /\ \A k \in 1..n : r[k] = SolveAt(r[k - 1], k)
               /\ SolvedPlan = r[n]
  <2> HIDE DEF n
  <2> QED BY <1>1, SolvedPlanIs
<1>3. Good(r[0], 0)
  <2>1. Now = [cells |-> cells, plan |-> plan, panicked |-> FALSE]
    BY DEF Now
  <2>2. ReadsHold(cells, plan, 0)
    BY ReadsHoldFrom
  <2> QED BY <1>2, <2>1, <2>2 DEF SolvesWell
<1> HIDE DEF n
<1> DEFINE D == {k \in Nat : k <= n => Good(r[k], k)}
<1>4. 0 \in D
  <2> HIDE DEF Good
  <2> QED BY <1>3
<1>5. ASSUME NEW k \in Nat, k \in D PROVE k + 1 \in D
  <2> SUFFICES ASSUME k + 1 <= n PROVE Good(r[k + 1], k + 1)
    OBVIOUS
  <2>1. Good(r[k], k) /\ k + 1 \in 1..n /\ (k + 1) - 1 = k
    BY <1>1, <1>5
  <2> DEFINE store == r[k].cells
             p == r[k].plan
             pk == r[k].panicked
             t == SolveAt([cells |-> store, plan |-> p, panicked |-> pk], k + 1)
  <2>2. /\ r[k] = [cells |-> store, plan |-> p, panicked |-> pk] /\ pk \in BOOLEAN
        /\ Sound(store, p) /\ Len(p) = n
        /\ Runnable(store, p) /\ Replaced(store, p) = Replaced(cells, plan)
        /\ pk => Replaced(cells, plan)
        /\ ~pk => ReadsHold(store, p, k)
    BY <2>1 DEF SolvesWell
  <2>3. r[k + 1] = t
    BY <1>2, <2>1, <2>2
  <2> HIDE DEF store, p, pk, Good
  <2>4. /\ t = [cells |-> t.cells, plan |-> t.plan, panicked |-> t.panicked]
        /\ t.panicked \in BOOLEAN /\ Len(t.plan) = Len(p)
        /\ Sound(t.cells, t.plan)
    BY <2>1, <2>2, SolvingKeepsSound
  <2>5. SolvesWell(store, p, t)
    BY <2>1, <2>2, SolvingKeepsRunning
  <2>6. pk => t.panicked
    <3>1. \A a : a.panicked => SolveAt(a, k + 1) = a
      BY DEF SolveAt
    <3>2. pk => [cells |-> store, plan |-> p, panicked |-> pk].panicked
      OBVIOUS
    <3> QED BY <2>2, <3>1, <3>2
  <2>7. ASSUME ~t.panicked PROVE ReadsHold(t.cells, t.plan, k + 1)
    <3>1. ~pk /\ ReadsHold(store, p, (k + 1) - 1) /\ FormsFit(store, p)
      BY <2>1, <2>2, <2>6, <2>7 DEF Runnable
    <3>2. t = SolveAt([cells |-> store, plan |-> p, panicked |-> pk], k + 1)
      OBVIOUS
    <3> HIDE DEF t
    <3> QED BY <2>1, <2>2, <2>7, <3>1, <3>2, SolvingHolds
  <2> HIDE DEF t
  <2>8. SolvesWell(cells, plan, t)
    BY <2>2, <2>5 DEF SolvesWell
  <2> QED BY <2>2, <2>3, <2>4, <2>7, <2>8 DEF Good
<1>6. n \in D
  <2> HIDE DEF D
  <2> QED BY <1>1, <1>4, <1>5, NatSetInduction
<1> QED BY <1>1, <1>2, <1>6 DEF n

(* A statement adds an entry.                                              *)
LEMMA AddedHolds ==
  ASSUME NEW store, NEW p, IsPlan(p), ReadsHold(store, p, Len(p)), NEW s \in AnyStatement, NEW f,
         s.do = "read" => ReadsOn(f, store[s.cell], s.subs),
         NEW q, q = Append(p, Item(s, f))
  PROVE  ReadsHold(store, q, Len(q) - 1)
<1> DEFINE n == Len(p)
<1>1. /\ Len(q) = n + 1 /\ n \in Nat
      /\ \A k \in 1..n : q[k] = p[k]
      /\ q[n + 1].s = s /\ q[n + 1].f = f
  BY PlanGrows
<1>2. \A k \in 1..Len(q) : k \in 1..n \/ k = n + 1
  BY <1>1
<1>3. \A k \in 1..n : ReplacesAt(store, q, k) = ReplacesAt(store, p, k)
  BY <1>1 DEF ReplacesAt
<1>4. \A k \in 1..n : Kept(store, q, k) => Kept(store, p, k)
  BY <1>1, <1>3 DEF Kept
<1>5. ASSUME NEW k \in 1..Len(q), q[k].s.do = "read", Kept(store, q, k)
      PROVE  ReadHolds(store, q, n, k)
  <2>1. CASE k \in 1..n
    <3>1. ReadHolds(store, p, n, k)
      BY <1>1, <1>4, <1>5, <2>1 DEF ReadsHold
    <3>2. \A i \in k..n : q[i] = p[i]
      BY <1>1, <2>1
    <3>3. Unwritten(q, k, n) => Unwritten(p, k, n)
      BY <1>1, <2>1, <3>2 DEF Unwritten
    <3> QED BY <1>1, <2>1, <3>1, <3>3 DEF ReadHolds
  <2>2. CASE k = n + 1
    <3>1. ~(k <= n)
      BY <1>1, <2>2
    <3> QED BY <1>1, <1>5, <2>2, <3>1 DEF ReadHolds
  <2> QED BY <1>2, <2>1, <2>2
<1>6. Len(q) - 1 = n
  BY <1>1
<1> QED BY <1>5, <1>6 DEF ReadsHold

LEMMA AddedNextHolds ==
  ASSUME NEW store, NEW p, IsPlan(p), ReadsHold(store, p, Len(p)), NEW s \in AnyStatement, NEW f,
         s.do \in {"read", "build"},
         s.do = "read" => ReadsOn(f, store[s.cell], s.subs) /\ Selected(f, store[s.cell], s.subs)
  PROVE  ReadsHold(store, Append(p, Item(s, f)), Len(Append(p, Item(s, f))))
<1> DEFINE q == Append(p, Item(s, f))
<1>1. Len(q) = Len(p) + 1 /\ Len(p) \in Nat /\ q[Len(p) + 1].s = s /\ q[Len(p) + 1].f = f
  BY PlanGrows
<1>2. ReadsHold(store, q, Len(q) - 1)
  BY AddedHolds
<1>3. Len(q) \in 1..Len(q) /\ Len(q) \in Nat /\ q[Len(q)].s = s /\ q[Len(q)].f = f
  BY <1>1
<1> HIDE DEF q
<1>4. ReadsHold(store, q, Len(q))
  BY <1>2, <1>3, NextHolds
<1> QED BY <1>4 DEF q

LEMMA WritingHolds ==
  ASSUME Sound(cells, plan), Runnable(cells, plan), ReadsHold(cells, plan, Len(plan)),
         NEW s \in AnyStatement, NEW f, BuiltFor(s, f), Writing(s, f)
  PROVE  ReadsHold(cells', plan', Len(plan'))
<1> DEFINE x == cells[s.cell]
           v == ValueIn(cells, s.from)
           itself == IsItself(Item(s, f))
           y == AssignSolved(f, x, v, itself)
           q == Append(plan, Item(s, f))
<1>1. s.do \in {"set", "op"} /\ s.cell \in Cells /\ s.subs \in AnySubscripts /\ Built(f, s.subs)
  BY WritingIs
<1>2. /\ f # NoAssigns /\ ~AssignPanics(f, x, v) /\ plan' = q
      /\ cells' = [cells EXCEPT ![s.cell] = y]
  BY DEF Writing, Adds
<1>3. f.name = "assign_value" => v.form = x.form
  BY <1>1, <1>2, BuiltKeepsForm
<1>4. itself \in BOOLEAN /\ (itself => v = x)
  <2>1. Item(s, f).s = s
    BY DEF Item
  <2> QED BY <2>1, ItselfIs
<1>5. cells \in [Cells -> AnyValue] /\ IsPlan(plan)
  BY DEF Sound
<1> HIDE DEF itself
<1>6. SameForms(cells, cells') /\ ((f.name = "assign_value" /\ IsMatrix(x)) \/ AlikeStores(cells, cells'))
  BY <1>1, <1>2, <1>3, <1>4, <1>5, AssignedShapes
<1>7. /\ IsPlan(q) /\ Len(q) = Len(plan) + 1 /\ Len(plan) \in Nat
      /\ \A k \in 1..Len(plan) : q[k] = plan[k]
      /\ q[Len(plan) + 1].s = s /\ q[Len(plan) + 1].f = f
  BY <1>5, PlanGrows
<1>8. \A k \in 1..Len(q) : k \in 1..Len(plan) \/ k = Len(q)
  BY <1>7
<1>9. Len(q) \in 1..Len(q) /\ q[Len(q)].s = s /\ q[Len(q)].f = f
  BY <1>7
<1>10. Sound(cells, q)
  <2>1. Fitted(s, f)
    BY <1>1 DEF Fitted
  <2> HIDE DEF q
  <2>2. \A k \in 1..Len(q) : Fitted(q[k].s, q[k].f)
    BY <1>7, <1>8, <1>9, <2>1 DEF Sound
  <2> QED BY <1>5, <1>7, <2>2 DEF Sound
<1>11. ReadsHold(cells, q, Len(q) - 1)
  BY <1>1, <1>5, AddedHolds
<1> HIDE DEF q, y
<1>12. ReplacesAt(cells, q, Len(q)) \/ AlikeStores(cells, cells')
  BY <1>1, <1>6, <1>9 DEF ReplacesAt
<1>13. cells' = [cells EXCEPT ![q[Len(q)].s.cell] = y]
  BY <1>2, <1>9
<1>14. q[Len(q)].s.do \in {"set", "op"}
  BY <1>1, <1>9
<1>15. ReadsHold(cells', q, Len(q))
  BY <1>6, <1>9, <1>10, <1>11, <1>12, <1>13, <1>14, WrittenHolds
<1> QED BY <1>2, <1>15

LEMMA StatementsHold ==
  ASSUME Sound(cells, plan), Runnable(cells, plan), ReadsHold(cells, plan, Len(plan)), Statement
  PROVE  ReadsHold(cells', plan', Len(plan'))
<1>1. PICK s : /\ s \in Script[Len(plan) + 1] /\ Len(plan) < Len(Script)
               /\ \/ s.do = "read" /\ Read(s)
                  \/ s.do = "set" /\ Set(s)
                  \/ s.do = "op" /\ OpSet(s)
                  \/ s.do = "build" /\ Build(s)
  BY DEF Statement
<1>2. s \in AnyStatement
  <2>1. Len(plan) \in Nat
    BY EntryIs DEF Sound
  <2>2. \A A : \A q \in Seq(A) : \A n \in Nat : n < Len(q) => q[n + 1] \in A
    OBVIOUS
  <2>3. Script[Len(plan) + 1] \in SUBSET AnyStatement
    BY <1>1, <2>1, <2>2, StatementsAssumption, Zenon
  <2> QED BY <1>1, <2>3
<1>3. cells \in [Cells -> AnyValue] /\ IsPlan(plan)
  BY DEF Sound
<1>4. UNCHANGED <<cells, plan>> => ReadsHold(cells', plan', Len(plan'))
  OBVIOUS
<1>5. ASSUME NEW f, s.do \in {"read", "build"}, Adds(s, f), cells' = cells,
             s.do = "read" => ReadsOn(f, cells[s.cell], s.subs) /\ Selected(f, cells[s.cell], s.subs)
      PROVE  ReadsHold(cells', plan', Len(plan'))
  <2>1. s.do = "read" => ReadsOn(f, cells[s.cell], s.subs) /\ Selected(f, cells[s.cell], s.subs)
    BY <1>5
  <2>2. ReadsHold(cells, Append(plan, Item(s, f)), Len(Append(plan, Item(s, f))))
    BY <1>2, <1>3, <1>5, <2>1, AddedNextHolds
  <2> QED BY <1>5, <2>2 DEF Adds
<1>6. ASSUME NEW f, BuiltFor(s, f), Run(s, f) PROVE ReadsHold(cells', plan', Len(plan'))
  <2>1. Writing(s, f) \/ UNCHANGED <<cells, plan>>
    BY <1>6, RunDoes
  <2> QED BY <1>2, <1>4, <1>6, <2>1, WritingHolds
<1>7. CASE s.do = "read" /\ Read(s)
  <2> DEFINE x == cells[s.cell]
             f == AccessFunction(x, s.subs)
             g == AccessSolved(f, x)
  <2>1. s.cell \in Cells /\ s.subs \in AnySubscripts \ {<< >>} /\ x \in AnyValue
    <3>1. s.cell \in Cells /\ s.subs \in AnySubscripts /\ s.subs # << >>
      BY <1>2, <1>7, StatementIs
    <3> QED BY <1>3, <3>1
  <2>2. \/ UNCHANGED <<cells, plan>>
        \/ /\ Family(s.subs) # <<"all", "all">> /\ f # NoFunction /\ ~AccessPanics(f, x)
           /\ Adds(s, g) /\ cells' = cells
    BY <1>7 DEF Read, Adds, Ends
  <2>3. ASSUME Family(s.subs) # <<"all", "all">>, f # NoFunction, ~AccessPanics(f, x)
        PROVE  ReadsOn(g, x, s.subs) /\ Selected(g, x, s.subs)
    <3> HIDE DEF x
    <3>1. ReadsFrom(f, x, s.subs) /\ IsFunction(f)
      BY <2>1, <2>3, AccessesRead, AccessIsFunction
    <3> HIDE DEF f
    <3>2. ReadsOn(f, x, s.subs)
      BY <3>1 DEF ReadsFrom, ReadsOn
    <3> QED BY <2>1, <2>3, <3>1, <3>2, SolvedReads DEF ReadsFrom
  <2> HIDE DEF f, g
  <2> QED BY <1>4, <1>5, <1>7, <2>2, <2>3
<1>8. CASE s.do = "build" /\ Build(s)
  <2> DEFINE f == matrix(PartsIn(cells, s))
  <2>1. UNCHANGED <<cells, plan>> \/ (Adds(s, f) /\ cells' = cells)
    BY <1>8 DEF Build, Ends, Adds
  <2> HIDE DEF f
  <2> QED BY <1>4, <1>5, <1>8, <2>1
<1>9. CASE s.do = "set" /\ Set(s)
  <2> DEFINE f == AssignFunction(cells[s.cell], s.subs, ValueIn(cells, s.from))
  <2>1. \/ UNCHANGED <<cells, plan>>
        \/ Family(s.subs) # <<"all", "all">> /\ Run(s, f)
    BY <1>9 DEF Set, Ends
  <2>2. Family(s.subs) # <<"all", "all">> => BuiltFor(s, f)
    BY <1>9 DEF BuiltFor
  <2> HIDE DEF f
  <2> QED BY <1>4, <1>6, <2>1, <2>2
<1>10. CASE s.do = "op" /\ OpSet(s)
  <2> DEFINE f == OpAssignFunction(s.op, cells[s.cell], s.subs, ValueIn(cells, s.from))
  <2>1. \/ UNCHANGED <<cells, plan>>
        \/ OpAssignable(s.subs) /\ Run(s, f)
    BY <1>10 DEF OpSet, Ends
  <2>2. OpAssignable(s.subs) => BuiltFor(s, f)
    BY <1>10 DEF BuiltFor
  <2> HIDE DEF f
  <2> QED BY <1>4, <1>6, <2>1, <2>2
<1> QED BY <1>1, <1>7, <1>8, <1>9, <1>10

(* What every read of a plan holds: all of what its subscripts select, if  *)
(* nothing wrote its variable since.                                       *)
LEMMA ReadsAlwaysHold == Spec => []ReadsHold(cells, plan, Len(plan))
<1>1. Init => ReadsHold(cells, plan, Len(plan))
  <2> SUFFICES ASSUME Init PROVE ReadsHold(cells, plan, Len(plan))
    OBVIOUS
  <2>1. plan = << >>
    BY DEF Init
  <2>2. \A k \in 1..Len(plan) : FALSE
    BY <2>1
  <2> QED BY <2>2 DEF ReadsHold
<1>2. /\ Sound(cells, plan) /\ Runnable(cells, plan) /\ ReadsHold(cells, plan, Len(plan)) /\ [Next]_vars
      => ReadsHold(cells, plan, Len(plan))'
  <2> SUFFICES ASSUME Sound(cells, plan), Runnable(cells, plan), ReadsHold(cells, plan, Len(plan)), [Next]_vars
               PROVE  ReadsHold(cells', plan', Len(plan'))
    OBVIOUS
  <2>1. CASE Statement
    BY <2>1, StatementsHold
  <2>2. CASE Step
    <3>1. CASE SolvedPlan.panicked
      BY <2>2, <3>1 DEF Step
    <3>2. CASE ~SolvedPlan.panicked
      <4>1. cells' = SolvedPlan.cells /\ plan' = SolvedPlan.plan
        BY <2>2, <3>2 DEF Step
      <4>2. Len(SolvedPlan.plan) = Len(plan)
        BY StepKeepsSound
      <4> QED BY <3>2, <4>1, <4>2, StepHolds
    <3> QED BY <3>1, <3>2
  <2>3. CASE UNCHANGED vars
    BY <2>3 DEF vars
  <2> QED BY <2>1, <2>2, <2>3 DEF Next
<1> QED BY <1>1, <1>2, ProgramsAreSound, PlansKeepRunning, PTL DEF Spec

(* A read whose subscripts are within the variable holds the elements they *)
(* select, in order, and does after every step of the plan that leaves the *)
(* variable as it was when the read was solved.                            *)
THEOREM ReadsDoSelect == Spec => []ReadsSelect
<1>1. Sound(cells, plan) /\ ReadsHold(cells, plan, Len(plan)) => ReadsSelect
  <2> SUFFICES ASSUME Sound(cells, plan), ReadsHold(cells, plan, Len(plan)), NEW k \in DOMAIN plan,
                      IsRead(k), Current(k), ~ScramblesRows(plan[k].f),
                      InBounds(cells[plan[k].s.cell], plan[k].s.subs), KeepsShapes(k)
               PROVE  plan[k].f.out.elems = Reference(cells[plan[k].s.cell], plan[k].s.subs)
    BY DEF ReadsSelect
  <2>1. Len(plan) \in Nat /\ DOMAIN plan = 1..Len(plan)
    BY EntryIs DEF Sound
  <2>2. Sources(k) = {plan[k].s.cell} /\ plan[k].s.do = "read"
    BY DEF Sources, IsRead
  <2>3. Kept(cells, plan, k)
    BY <2>1, <2>2 DEF KeepsShapes, Kept, SetsWhole, ReplacesAt, Writes
  <2>4. Unwritten(plan, k, Len(plan))
    <3>1. CASE last = Stepped /\ \A j \in k..Len(plan) : Writes(j) => plan[j].s.cell \notin Sources(k)
      BY <2>2, <3>1 DEF Unwritten, Writes
    <3>2. CASE k = Len(plan)
      <4>1. \A n \in Nat : \A j \in n..n : j = n
        OBVIOUS
      <4>3. \A j \in k..Len(plan) : j = k
        BY <2>1, <3>2, <4>1
      <4> QED BY <2>2, <4>3 DEF Unwritten
    <3> QED BY <3>1, <3>2 DEF Current
  <2>5. k \in 1..Len(plan) /\ k <= Len(plan)
    BY <2>1
  <2> QED BY <2>2, <2>3, <2>4, <2>5 DEF ReadsHold, ReadHolds, Selected
<1> QED BY <1>1, ProgramsAreSound, ReadsAlwaysHold, PTL

-----------------------------------------------------------------------------
(* Steps of plans that assign literals.                                    *)

MovesTo(moves, i) == \E j \in DOMAIN moves : moves[j].to = i

(* Of n moves the last one to element i brings e.                          *)
Brings(moves, n, v, i, e) ==
  \E j \in 1..n : /\ moves[j].to = i /\ e = v.elems[moves[j].from]
                  /\ \A l \in 1..n : j < l => moves[l].to # i

(* A chain of moves leaves at each position what the last move brought.    *)
LEMMA LastMoveStays ==
  ASSUME NEW op, op = "=", NEW x \in AnyResult, NEW v \in AnyResult, NEW n \in Nat,
         NEW moves, DOMAIN moves = 1..n, InRange(moves, n, x, v), NEW i \in 1..Size(x), NEW e,
         Brings(moves, n, v, i, e)
  PROVE  Moved(op, moves, x, v).elems[i] = e
<1>1. PICK r : /\ r[0] = x.elems
               /\ \A k \in 1..n : r[k] = StepOf(r[k - 1], moves[k], op, v)
               /\ Moved(op, moves, x, v) = [x EXCEPT !.elems = r[n]]
  BY MovedIs
<1> DEFINE N == Size(x)
           Held(k) == /\ r[k] \in [1..N -> Int]
                      /\ \A d : Brings(moves, k, v, i, d) => r[k][i] = d
           D == {k \in Nat : k <= n => Held(k)}
<1>2. 0 \in D
  <2>1. r[0] \in [1..N -> Int]
    BY <1>1, ResultElems
  <2>2. \A d : ~Brings(moves, 0, v, i, d)
    BY DEF Brings
  <2> QED BY <2>1, <2>2
<1>3. ASSUME NEW k \in Nat, k \in D PROVE k + 1 \in D
  <2> SUFFICES ASSUME k + 1 <= n PROVE Held(k + 1)
    OBVIOUS
  <2>1. Held(k) /\ k + 1 \in 1..n /\ (k + 1) - 1 = k
    BY <1>3
  <2> DEFINE m == moves[k + 1]
  <2>2. m.to \in 1..N /\ v.elems[m.from] \in Int
    BY <2>1, ResultElems DEF InRange
  <2>3. r[k + 1] = [r[k] EXCEPT ![m.to] = v.elems[m.from]]
    <3>1. \A a, b : Put(op, a, b) = b
      BY DEF Put
    <3>2. r[k + 1] = StepOf(r[k], m, op, v)
      BY <1>1, <2>1
    <3> QED BY <3>1, <3>2 DEF StepOf
  <2>4. r[k + 1] \in [1..N -> Int]
    BY <2>1, <2>2, <2>3
  <2>5. ASSUME NEW d, Brings(moves, k + 1, v, i, d) PROVE r[k + 1][i] = d
    <3>1. PICK j \in 1..(k + 1) : /\ moves[j].to = i /\ d = v.elems[moves[j].from]
                                  /\ \A l \in 1..(k + 1) : j < l => moves[l].to # i
      BY <2>5 DEF Brings
    <3>2. CASE j = k + 1
      BY <2>1, <2>3, <3>1, <3>2
    <3>3. CASE j # k + 1
      <4>1. j \in 1..k /\ j < k + 1 /\ 1..k \subseteq 1..(k + 1) /\ k + 1 \in 1..(k + 1)
        BY <3>3
      <4>2. Brings(moves, k, v, i, d) /\ m.to # i
        BY <3>1, <4>1 DEF Brings
      <4> QED BY <2>1, <2>2, <2>3, <4>2
    <3> QED BY <3>2, <3>3
  <2> QED BY <2>4, <2>5
<1>4. n \in D
  <2> HIDE DEF D
  <2> QED BY <1>2, <1>3, NatSetInduction
<1>5. Moved(op, moves, x, v).elems = r[n]
  <2>1. x = [type |-> x.type, form |-> x.form, rows |-> x.rows, cols |-> x.cols, elems |-> x.elems]
    BY DEF AnyResult
  <2> QED BY <1>1, <2>1
<1> QED BY <1>4, <1>5

(* What the assignment of a literal leaves of the variable.                *)
LEMMA LiteralWriteIs ==
  ASSUME NEW x \in AnyValue, NEW v \in AnyValue, NEW subs \in AnySubscripts, NEW f, Built(f, subs),
         f.op = "=", ~AssignPanics(f, x, v), NEW itself \in BOOLEAN, ~itself
  PROVE  LET y == AssignSolved(f, x, v, itself)
             moves == AssignMoves(f, x, v)
         IN  /\ y \in AnyValue
             /\ f.name = "assign_value" => y = v
             /\ f.name # "assign_value" =>
                  /\ KeepsForm(x, y)
                  /\ \A i \in 1..Size(x) : ~MovesTo(moves, i) => y.elems[i] = x.elems[i]
                  /\ \A i \in 1..Size(x) : \A e : Brings(moves, Len(moves), v, i, e) => y.elems[i] = e
<1> DEFINE y == AssignSolved(f, x, v, itself)
           moves == AssignMoves(f, x, v)
<1>1. /\ y \in AnyValue
      /\ f.name = "assign_value" => y = v
      /\ f.name # "assign_value" => WritesOnly(x, y, moves)
  BY AssignSolvedIs
<1>2. ASSUME f.name # "assign_value", NEW i \in 1..Size(x), NEW e, Brings(moves, Len(moves), v, i, e)
      PROVE  y.elems[i] = e
  <2>1. PICK n \in Nat : DOMAIN moves = 1..n
    BY <1>2, BuiltLoops DEF IsLoop
  <2>2. InRange(moves, n, x, v)
    BY <2>1 DEF AssignPanics, Panics, InRange
  <2>3. x \in AnyResult /\ v \in AnyResult
    BY ValueIsResult
  <2>4. y = Moved(f.op, moves, x, v)
    BY <1>2 DEF AssignSolved
  <2>5. Len(moves) = n
    BY <2>1
  <2>6. Brings(moves, n, v, i, e)
    BY <1>2, <2>5
  <2> HIDE DEF moves, y
  <2> QED BY <2>1, <2>2, <2>3, <2>4, <2>6, LastMoveStays
<1> HIDE DEF y, moves
<1>3. f.name # "assign_value" =>
        /\ KeepsForm(x, y)
        /\ \A i \in 1..Size(x) : ~MovesTo(moves, i) => y.elems[i] = x.elems[i]
  BY <1>1 DEF WritesOnly, MovesTo
<1> QED BY <1>1, <1>2, <1>3 DEF y, moves

(* An entry of a plan that assigns a literal: the variable, whether all of *)
(* it, which elements, and what they are to hold.                          *)
Assigning(e, c) == e.s.do \in {"set", "op"} /\ e.s.cell = c

AssigningAll(e, c) == Assigning(e, c) /\ e.f.name = "assign_value"

LiteralMoves(e, x) == AssignMoves(e.f, x, e.s.from.value)

Reaches(e, c, x, i) ==
  Assigning(e, c) /\ (e.f.name = "assign_value" \/ MovesTo(LiteralMoves(e, x), i))

Gives(e, x, i, d) ==
  \/ e.f.name = "assign_value" /\ d = e.s.from.value.elems[i]
  \/ /\ e.f.name # "assign_value"
     /\ Brings(LiteralMoves(e, x), Len(LiteralMoves(e, x)), e.s.from.value, i, d)

(* y is x after the entry assigned.                                        *)
Gave(e, x, y) ==
  /\ e.f.name = "assign_value" => y = e.s.from.value
  /\ e.f.name # "assign_value" =>
       /\ KeepsForm(x, y)
       /\ \A i \in 1..Size(x) : ~MovesTo(LiteralMoves(e, x), i) => y.elems[i] = x.elems[i]
  /\ \A i \in 1..Size(y) : \A d : Gives(e, x, i, d) => y.elems[i] = d

AssignsLiteral(e) ==
  e.s.do \in {"set", "op"} => e.f.op = "=" /\ e.s.from.source = "literal"

LEMMA LiteralIsGiven ==
  ASSUME NEW x \in AnyValue, NEW store, NEW e, e.s \in AnyStatement, e.s.do \in {"set", "op"},
         Built(e.f, e.s.subs), AssignsLiteral(e), ~AssignPanics(e.f, x, ValueIn(store, e.s.from))
  PROVE  /\ AssignSolved(e.f, x, ValueIn(store, e.s.from), IsItself(e)) \in AnyValue
         /\ Gave(e, x, AssignSolved(e.f, x, ValueIn(store, e.s.from), IsItself(e)))
<1> DEFINE v == e.s.from.value
           f == e.f
           itself == IsItself(e)
           y == AssignSolved(f, x, v, itself)
           moves == AssignMoves(f, x, v)
<1>1. e.s.subs \in AnySubscripts /\ e.s.from \in AnySource
  BY StatementIs
<1>2. f.op = "=" /\ e.s.from.source = "literal"
  BY DEF AssignsLiteral
<1>3. ValueIn(store, e.s.from) = v /\ v \in AnyValue
  BY <1>1, <1>2 DEF AnySource, ValueIn
<1>4. itself \in BOOLEAN /\ ~itself
  BY <1>2 DEF IsItself
<1> HIDE DEF itself, v
<1>5. /\ y \in AnyValue
      /\ f.name = "assign_value" => y = v
      /\ f.name # "assign_value" =>
           /\ KeepsForm(x, y)
           /\ \A i \in 1..Size(x) : ~MovesTo(moves, i) => y.elems[i] = x.elems[i]
           /\ \A i \in 1..Size(x) : \A d : Brings(moves, Len(moves), v, i, d) => y.elems[i] = d
  BY <1>1, <1>2, <1>3, <1>4, LiteralWriteIs
<1>6. LiteralMoves(e, x) = moves
  BY DEF LiteralMoves, v
<1> HIDE DEF y, moves, f
<1>7. ASSUME NEW i \in 1..Size(y), NEW d, Gives(e, x, i, d) PROVE y.elems[i] = d
  <2>1. CASE f.name = "assign_value"
    BY <1>5, <1>7, <2>1 DEF Gives, v, f
  <2>2. CASE f.name # "assign_value"
    <3>1. Brings(moves, Len(moves), v, i, d)
      BY <1>6, <1>7, <2>2 DEF Gives, v, f
    <3>2. i \in 1..Size(x)
      BY <1>5, <2>2 DEF KeepsForm
    <3> QED BY <1>5, <2>2, <3>1, <3>2
  <2> QED BY <2>1, <2>2
<1>8. Gave(e, x, y)
  <2>1. f.name = "assign_value" => y = e.s.from.value
    BY <1>5 DEF v
  <2> QED BY <1>5, <1>6, <1>7, <2>1 DEF Gave, f
<1> QED BY <1>3, <1>5, <1>8 DEF y, f, itself

(* Where a literal goes depends on the shape of the variable only.         *)
LEMMA LiteralMovesAlike ==
  ASSUME NEW x, NEW y, KeepsForm(x, y), NEW e, e.f.name \in AssignNames
  PROVE  /\ LiteralMoves(e, y) = LiteralMoves(e, x)
         /\ \A c, i : Reaches(e, c, y, i) = Reaches(e, c, x, i)
         /\ \A i, d : Gives(e, y, i, d) = Gives(e, x, i, d)
<1>1. LiteralMoves(e, y) = LiteralMoves(e, x)
  <2>1. Alike(x, y) /\ Alike(e.s.from.value, e.s.from.value)
    BY DEF KeepsForm, Alike
  <2> QED BY <2>1, AlikeAssigns DEF LiteralMoves
<1> QED BY <1>1 DEF Reaches, Gives

LEMMA FormsAreTransitive ==
  ASSUME NEW x, NEW y, NEW z, KeepsForm(x, y), KeepsForm(y, z)
  PROVE  KeepsForm(x, z) /\ KeepsForm(y, x) /\ KeepsForm(x, x)
BY DEF KeepsForm

(* A move to an element brings it something.                               *)
LEMMA SomethingIsGiven ==
  ASSUME NEW e, e.f.name \in AssignNames, NEW x, NEW c, NEW i, Reaches(e, c, x, i),
         e.f.name # "assign_value" => IsLoop(LiteralMoves(e, x))
  PROVE  \E d : Gives(e, x, i, d)
<1> DEFINE moves == LiteralMoves(e, x)
           v == e.s.from.value
<1>1. CASE e.f.name = "assign_value"
  BY <1>1 DEF Gives
<1>2. CASE e.f.name # "assign_value"
  <2>1. PICK n \in Nat : DOMAIN moves = 1..n
    BY <1>2 DEF IsLoop
  <2>2. Len(moves) = n
    BY <2>1
  <2> HIDE DEF moves
  <2> DEFINE hits == {j \in 1..n : moves[j].to = i}
             j == Max(hits)
  <2>3. hits # {}
    BY <1>2, <2>1 DEF Reaches, MovesTo, moves
  <2>4. j \in hits /\ \A l \in hits : j >= l
    <3> HIDE DEF hits
    <3>1. hits \in SUBSET (1..n)
      BY DEF hits
    <3> QED BY <2>1, <2>3, <3>1, MaxIn
  <2> HIDE DEF j
  <2>5. j \in 1..n /\ moves[j].to = i /\ \A l \in 1..n : j < l => moves[l].to # i
    BY <2>4
  <2>6. Brings(moves, n, v, i, v.elems[moves[j].from])
    BY <2>5 DEF Brings
  <2> QED BY <1>2, <2>2, <2>6 DEF Gives, moves
<1> QED BY <1>1, <1>2

(* Each literal is where its entry puts it, or where a later entry wrote.  *)
EntrySettled(store, p, k) ==
  LET c == p[k].s.cell
      x == store[c]
      v == p[k].s.from.value
  IN  /\ p[k].f.name = "assign_value" =>
           KeepsForm(v, x) \/ \E j \in (k + 1)..Len(p) : AssigningAll(p[j], c)
      /\ \A i \in 1..Size(x) : \A d : Gives(p[k], x, i, d) =>
           x.elems[i] = d \/ \E j \in (k + 1)..Len(p) : Reaches(p[j], c, x, i)

Settled(store, p) == \A k \in 1..Len(p) : p[k].s.do \in {"set", "op"} => EntrySettled(store, p, k)

LiteralPlan(p) == \A k \in 1..Len(p) : AssignsLiteral(p[k])

LEMMA WrittenSettles ==
  ASSUME NEW store, NEW p, Sound(store, p), Settled(store, p), NEW s \in AnyStatement, NEW f,
         s.do \in {"set", "op"}, Built(f, s.subs), NEW e, e = Item(s, f), NEW to,
         to = [store EXCEPT ![s.cell] = to[s.cell]], Gave(e, store[s.cell], to[s.cell])
  PROVE  Settled(to, Append(p, e))
<1> DEFINE q == Append(p, e)
           n == Len(p)
           x == store[s.cell]
           y == to[s.cell]
<1>1. /\ Len(q) = n + 1 /\ n \in Nat
      /\ \A k \in 1..n : q[k] = p[k]
      /\ q[n + 1].s = s /\ q[n + 1].f = f
  BY PlanGrows DEF Sound
<1>2. e.s = s /\ e.f = f /\ q[n + 1] = e
  <2>1. e.s = s /\ e.f = f
    BY DEF Item
  <2>2. \A E : \A w \in Seq(E) : Append(w, e)[Len(w) + 1] = e
    OBVIOUS
  <2>3. \E E : p \in Seq(E)
    BY DEF Sound, IsPlan
  <2> QED BY <2>1, <2>2, <2>3
<1>3. \A k \in 1..n : p[k].s \in AnyStatement /\ Fitted(p[k].s, p[k].f)
  BY EntryIs DEF Sound
<1> HIDE DEF q, n
<1>4. \A k \in 1..n : \A j \in (k + 1)..n : j \in (k + 1)..(n + 1) /\ q[j] = p[j]
  BY <1>1
<1>5. \A k \in 1..n : n + 1 \in (k + 1)..(n + 1)
  BY <1>1
<1>6. s.cell \in Cells /\ store \in [Cells -> AnyValue]
  BY StatementIs DEF Sound
<1>7. \A c \in Cells : c # s.cell => to[c] = store[c]
  BY <1>6
<1>8. f.name \in AssignNames
  BY DEF Built, AssignNames
<1>9. EntrySettled(to, q, n + 1)
  <2>1. q[n + 1].s.cell = s.cell
    BY <1>1
  <2>2. KeepsForm(y, y)
    BY DEF KeepsForm
  <2>3. f.name = "assign_value" => KeepsForm(s.from.value, y)
    BY <1>2, <2>2 DEF Gave
  <2>4. ASSUME NEW i \in 1..Size(y), NEW d, Gives(e, y, i, d) PROVE y.elems[i] = d
    <3>1. Gives(e, x, i, d)
      <4>1. CASE f.name = "assign_value"
        BY <1>2, <2>4, <4>1 DEF Gives
      <4>2. CASE f.name # "assign_value"
        <5>1. KeepsForm(x, y)
          BY <1>2, <4>2 DEF Gave
        <5> HIDE DEF x, y
        <5> QED BY <1>2, <1>8, <2>4, <5>1, LiteralMovesAlike
      <4> QED BY <4>1, <4>2
    <3> QED BY <2>4, <3>1 DEF Gave
  <2> HIDE DEF y
  <2>5. to[q[n + 1].s.cell] = y
    BY <2>1 DEF y
  <2> QED BY <1>2, <2>3, <2>4, <2>5 DEF EntrySettled
<1>10. ASSUME NEW k \in 1..n, p[k].s.do \in {"set", "op"} PROVE EntrySettled(to, q, k)
  <2> DEFINE c == p[k].s.cell
             v == p[k].s.from.value
  <2>1. EntrySettled(store, p, k) /\ q[k] = p[k] /\ n + 1 \in (k + 1)..Len(q)
    BY <1>1, <1>5, <1>10 DEF Settled, n
  <2>2. \A j \in (k + 1)..n : j \in (k + 1)..Len(q) /\ q[j] = p[j] /\ j \in 1..n
    BY <1>1, <1>4
  <2>3. CASE c # s.cell
    <3>1. to[c] = store[c]
      <4>1. c \in Cells
        BY <1>3, <1>10, StatementIs
      <4> QED BY <1>7, <2>3, <4>1
    <3>2. \A z : (\E j \in (k + 1)..n : AssigningAll(p[j], z)) => \E j \in (k + 1)..Len(q) : AssigningAll(q[j], z)
      BY <2>2
    <3>3. \A z, a, i : (\E j \in (k + 1)..n : Reaches(p[j], z, a, i))
                       => \E j \in (k + 1)..Len(q) : Reaches(q[j], z, a, i)
      BY <2>2
    <3> QED BY <2>1, <3>1, <3>2, <3>3 DEF EntrySettled, n
  <2>4. CASE c = s.cell /\ f.name = "assign_value"
    <3>1. \A a, i : AssigningAll(q[n + 1], c) /\ Reaches(q[n + 1], c, a, i)
      BY <1>2, <2>4 DEF AssigningAll, Assigning, Reaches
    <3> QED BY <2>1, <3>1 DEF EntrySettled
  <2>5. CASE c = s.cell /\ f.name # "assign_value"
    <3>1. /\ KeepsForm(x, y)
          /\ \A i \in 1..Size(x) : ~MovesTo(LiteralMoves(e, x), i) => y.elems[i] = x.elems[i]
      BY <1>2, <2>5 DEF Gave
    <3>2. store[c] = x /\ to[c] = y
      BY <2>5
    <3> HIDE DEF x, y
    <3>3. \A j \in 1..n : p[j].s.do \in {"set", "op"} => p[j].f.name \in AssignNames
      BY <1>3 DEF Fitted, Built, AssignNames
    <3>4. p[k].f.name = "assign_value" =>
            KeepsForm(v, y) \/ \E j \in (k + 1)..Len(q) : AssigningAll(q[j], c)
      <4>1. p[k].f.name = "assign_value" =>
              KeepsForm(v, x) \/ \E j \in (k + 1)..n : AssigningAll(p[j], c)
        BY <2>1, <3>2 DEF EntrySettled, n
      <4>2. KeepsForm(v, x) => KeepsForm(v, y)
        BY <3>1, FormsAreTransitive
      <4> QED BY <2>2, <4>1, <4>2
    <3>5. ASSUME NEW i \in 1..Size(y), NEW d, Gives(p[k], y, i, d)
          PROVE  y.elems[i] = d \/ \E j \in (k + 1)..Len(q) : Reaches(q[j], c, y, i)
      <4>1. i \in 1..Size(x) /\ Gives(p[k], x, i, d)
        <5>1. i \in 1..Size(x)
          BY <3>1 DEF KeepsForm
        <5> QED BY <1>10, <3>1, <3>3, <3>5, <5>1, LiteralMovesAlike
      <4>2. x.elems[i] = d \/ \E j \in (k + 1)..n : Reaches(p[j], c, x, i)
        BY <2>1, <3>2, <4>1 DEF EntrySettled, n
      <4>3. ASSUME NEW j \in (k + 1)..n, Reaches(p[j], c, x, i) PROVE Reaches(q[j], c, y, i)
        <5>1. p[j].f.name \in AssignNames
          BY <2>2, <3>3, <4>3 DEF Reaches, Assigning
        <5> QED BY <2>2, <3>1, <4>3, <5>1, LiteralMovesAlike
      <4>4. MovesTo(LiteralMoves(e, x), i) => Reaches(q[n + 1], c, y, i)
        <5>1. MovesTo(LiteralMoves(e, x), i) => Reaches(e, c, x, i)
          BY <1>2, <2>5 DEF Reaches, Assigning
        <5> QED BY <1>2, <1>8, <3>1, <5>1, LiteralMovesAlike
      <4> QED BY <2>1, <2>2, <3>1, <4>1, <4>2, <4>3, <4>4
    <3> QED BY <2>1, <3>2, <3>4, <3>5 DEF EntrySettled
  <2> QED BY <2>3, <2>4, <2>5
<1>11. \A k \in 1..Len(q) : k \in 1..n \/ k = n + 1
  BY <1>1
<1>12. Settled(to, q)
  BY <1>1, <1>9, <1>10, <1>11 DEF Settled
<1> QED BY <1>12 DEF q

(* The same entries assign, and they assign the same.                      *)
SameWriters(p, q) ==
  /\ Len(q) = Len(p) /\ Len(p) \in Nat
  /\ \A k \in 1..Len(p) : q[k].s = p[k].s /\ (p[k].s.do \in {"set", "op"} => q[k].f = p[k].f)

LEMMA SameWritersSettle ==
  ASSUME NEW store, NEW p, NEW q, SameWriters(p, q)
  PROVE  /\ Settled(store, p) => Settled(store, q)
         /\ LiteralPlan(q) => LiteralPlan(p)
         /\ LiteralPlan(p) => LiteralPlan(q)
<1>1. \A k \in 1..Len(p) : AssignsLiteral(q[k]) = AssignsLiteral(p[k])
  BY DEF SameWriters, AssignsLiteral
<1>2. (LiteralPlan(q) => LiteralPlan(p)) /\ (LiteralPlan(p) => LiteralPlan(q))
  BY <1>1 DEF LiteralPlan, SameWriters
<1>3. ASSUME Settled(store, p), NEW k \in 1..Len(p), p[k].s.do \in {"set", "op"}
      PROVE  EntrySettled(store, q, k)
  <2> DEFINE c == p[k].s.cell
             x == store[c]
  <2>1. EntrySettled(store, p, k) /\ q[k].s = p[k].s /\ q[k].f = p[k].f /\ Len(q) = Len(p)
    BY <1>3 DEF Settled, SameWriters
  <2>2. \A j \in (k + 1)..Len(p) : j \in 1..Len(p)
    BY DEF SameWriters
  <2>3. \A j \in (k + 1)..Len(p) : \A a, i :
          /\ AssigningAll(p[j], c) => AssigningAll(q[j], c)
          /\ Reaches(p[j], c, a, i) => Reaches(q[j], c, a, i)
    BY <2>2 DEF SameWriters, AssigningAll, Reaches, Assigning, LiteralMoves
  <2>4. \A i, d : Gives(q[k], x, i, d) = Gives(p[k], x, i, d)
    BY <2>1 DEF Gives, LiteralMoves
  <2> QED BY <2>1, <2>3, <2>4 DEF EntrySettled
<1>4. Settled(store, p) => Settled(store, q)
  BY <1>3 DEF Settled, SameWriters
<1> QED BY <1>2, <1>4

(* Of a store that a step began with, goal, what the first k entries of p  *)
(* did not bring back the others will.                                     *)
NearsAt(g, y, p, k, c) ==
  \/ \E j \in (k + 1)..Len(p) : AssigningAll(p[j], c)
  \/ /\ KeepsForm(g, y)
     /\ \A i \in 1..Size(g) :
          y.elems[i] = g.elems[i] \/ \E j \in (k + 1)..Len(p) : Reaches(p[j], c, g, i)

Nears(goal, store, p, k) == \A c \in Cells : NearsAt(goal[c], store[c], p, k, c)

(* An entry that does not assign brings nothing back.                      *)
LEMMA OthersNear ==
  ASSUME NEW g, NEW y, NEW p, Len(p) \in Nat, NEW k \in 1..Len(p), NEW c, ~Assigning(p[k], c),
         NearsAt(g, y, p, k - 1, c)
  PROVE  NearsAt(g, y, p, k, c)
<1>1. \A j \in ((k - 1) + 1)..Len(p) : j = k \/ j \in (k + 1)..Len(p)
  OBVIOUS
<1>2. \A x, i : ~AssigningAll(p[k], c) /\ ~Reaches(p[k], c, x, i)
  BY DEF AssigningAll, Reaches
<1> QED BY <1>1, <1>2 DEF NearsAt

(* An entry that assigns brings back what nothing wrote after it.          *)
LEMMA WritersNear ==
  ASSUME NEW goal, NEW store, NEW p, IsPlan(p), NEW k \in 1..Len(p), Nears(goal, store, p, k - 1),
         Settled(goal, p), NEW c \in Cells, Assigning(p[k], c), NEW y, Gave(p[k], store[c], y),
         \A j \in 1..Len(p) : Fitted(p[j].s, p[j].f), goal[c] \in AnyValue,
         NEW v, v = p[k].s.from.value, v \in AnyValue
  PROVE  NearsAt(goal[c], y, p, k, c)
<1> DEFINE e == p[k]
           x == store[c]
           g == goal[c]
           Later(i) == \E j \in (k + 1)..Len(p) : Reaches(p[j], c, g, i)
<1> SUFFICES ASSUME ~ \E j \in (k + 1)..Len(p) : AssigningAll(p[j], c)
             PROVE  KeepsForm(g, y) /\ \A i \in 1..Size(g) : y.elems[i] = g.elems[i] \/ Later(i)
  BY DEF NearsAt
<1>1. Len(p) \in Nat /\ \A j \in 1..Len(p) : p[j].s \in AnyStatement
  BY EntryIs
<1>2. e.s.do \in {"set", "op"} /\ e.s.cell = c
  BY DEF Assigning
<1>3. EntrySettled(goal, p, k)
  BY <1>2 DEF Settled
<1>4. /\ e.f.name = "assign_value" => KeepsForm(v, g)
      /\ \A i \in 1..Size(g) : \A d : Gives(e, g, i, d) => g.elems[i] = d \/ Later(i)
  BY <1>2, <1>3 DEF EntrySettled
<1>5. Fitted(e.s, e.f) /\ e.s \in AnyStatement
  BY <1>1
<1>6. e.f.name \in AssignNames
  BY <1>2, <1>5 DEF Fitted, Built, AssignNames
<1>7. CASE e.f.name = "assign_value"
  <2>1. y = v
    BY <1>7 DEF Gave
  <2>2. KeepsForm(g, y) /\ Size(v) = Size(g)
    BY <1>4, <1>7, <2>1, FormsAreTransitive DEF KeepsForm
  <2>3. \A i \in 1..Size(g) : Gives(e, g, i, v.elems[i])
    BY <1>7 DEF Gives
  <2> HIDE DEF e, g, Later
  <2> QED BY <1>4, <2>1, <2>2, <2>3
<1>8. CASE e.f.name # "assign_value"
  <2>1. /\ KeepsForm(x, y)
        /\ \A i \in 1..Size(x) : ~MovesTo(LiteralMoves(e, x), i) => y.elems[i] = x.elems[i]
        /\ \A i \in 1..Size(y) : \A d : Gives(e, x, i, d) => y.elems[i] = d
    BY <1>8 DEF Gave
  <2>2. \A j \in ((k - 1) + 1)..Len(p) : j = k \/ j \in (k + 1)..Len(p)
    BY <1>1
  <2>3. ~AssigningAll(e, c)
    BY <1>8 DEF AssigningAll
  <2>4. /\ KeepsForm(g, x)
        /\ \A i \in 1..Size(g) : x.elems[i] = g.elems[i] \/ Reaches(e, c, g, i) \/ Later(i)
    BY <2>2, <2>3 DEF Nears, NearsAt
  <2> HIDE DEF x, g
  <2>5. KeepsForm(g, y) /\ KeepsForm(x, g) /\ Size(x) = Size(g) /\ Size(y) = Size(g)
    <3>1. KeepsForm(g, y)
      BY <2>1, <2>4, FormsAreTransitive
    <3>2. KeepsForm(x, g)
      BY <2>4 DEF KeepsForm
    <3> QED BY <2>1, <2>4, <3>1, <3>2 DEF KeepsForm
  <2>6. LiteralMoves(e, x) = LiteralMoves(e, g) /\ \A i, d : Gives(e, x, i, d) = Gives(e, g, i, d)
    BY <1>6, <2>4, LiteralMovesAlike
  <2>7. ASSUME NEW i \in 1..Size(g) PROVE y.elems[i] = g.elems[i] \/ Later(i)
    <3>1. CASE Reaches(e, c, g, i)
      <4>1. IsLoop(LiteralMoves(e, g))
        <5>1. e.s.subs \in AnySubscripts /\ Built(e.f, e.s.subs) /\ g \in AnyValue
          BY <1>2, <1>5, StatementIs DEF Fitted, g
        <5> QED BY <1>8, <5>1, BuiltLoops DEF LiteralMoves
      <4>2. PICK d : Gives(e, g, i, d)
        BY <1>6, <3>1, <4>1, SomethingIsGiven
      <4>3. y.elems[i] = d
        BY <2>1, <2>5, <2>6, <4>2
      <4> QED BY <1>4, <4>2, <4>3 DEF g
    <3>2. CASE ~Reaches(e, c, g, i)
      <4>1. ~MovesTo(LiteralMoves(e, x), i)
        BY <1>2, <2>6, <3>2 DEF Reaches, Assigning
      <4>2. y.elems[i] = x.elems[i]
        BY <2>1, <2>5, <4>1
      <4> QED BY <2>4, <3>2, <4>2
    <3> QED BY <3>1, <3>2
  <2> QED BY <2>5, <2>7 DEF g
<1> QED BY <1>7, <1>8

(* Solving an entry that does not stop brings back what it can.            *)
LEMMA SolvingNears ==
  ASSUME NEW goal, NEW base, Sound(goal, base),
         NEW store, NEW p, Sound(store, p), SameWriters(base, p), NEW k \in 1..Len(p),
         NEW panicked \in BOOLEAN, ~panicked, NEW to,
         to = SolveAt([cells |-> store, plan |-> p, panicked |-> panicked], k), ~to.panicked
  PROVE  /\ SameWriters(base, to.plan)
         /\ LiteralPlan(base) /\ Settled(goal, base) /\ Nears(goal, store, base, k - 1)
            => Nears(goal, to.cells, base, k)
<1> DEFINE s == p[k].s
           f == p[k].f
           x == store[s.cell]
           v == ValueIn(store, s.from)
<1>1. store \in [Cells -> AnyValue] /\ IsPlan(p) /\ s \in AnyStatement /\ Fitted(s, f)
  BY EntryIs DEF Sound
<1>2. s.do \in {"read", "set", "op", "build"}
  BY <1>1, StatementIs
<1>3. /\ s.do = "build" => to.cells = store /\ \E a : Renews(to.plan, p, k, a)
      /\ s.do = "read" => /\ ~AccessPanics(f, x)
                          /\ to.cells = store /\ Renews(to.plan, p, k, AccessSolved(f, x))
      /\ s.do \in {"set", "op"} =>
           /\ ~AssignPanics(f, x, v) /\ to.plan = p
           /\ to.cells = [store EXCEPT ![s.cell] = AssignSolved(f, x, v, IsItself(p[k]))]
  <2>1. Leaves(store, p, k, to)
    BY <1>2, SolvingLeaves
  <2> QED BY <2>1 DEF Leaves
<1>7. IsPlan(base) /\ goal \in [Cells -> AnyValue] /\ \A j \in 1..Len(base) : Fitted(base[j].s, base[j].f)
  BY DEF Sound
<1>4. Len(base) = Len(p) /\ Len(base) \in Nat /\ k \in 1..Len(base) /\ base[k].s = s
  BY DEF SameWriters
<1>5. ASSUME s.do \in {"read", "build"}, to.cells = store, NEW a, Renews(to.plan, p, k, a)
      PROVE  /\ SameWriters(base, to.plan)
             /\ Nears(goal, store, base, k - 1) => Nears(goal, to.cells, base, k)
  <2>1. /\ Len(to.plan) = Len(p)
        /\ \A j \in 1..Len(p) : to.plan[j].s = p[j].s /\ (j # k => to.plan[j].f = p[j].f)
    BY <1>1, <1>5, EntryChanges
  <2> HIDE DEF f, x, v
  <2>2. SameWriters(base, to.plan)
    <3>1. \A j \in 1..Len(base) : base[j].s.do \in {"set", "op"} => j # k
      BY <1>4, <1>5
    <3> QED BY <1>4, <2>1, <3>1 DEF SameWriters
  <2>3. \A c \in Cells : ~Assigning(base[k], c) /\ to.cells[c] = store[c]
    BY <1>4, <1>5 DEF Assigning
  <2>5. ASSUME Nears(goal, store, base, k - 1), NEW c \in Cells
        PROVE  NearsAt(goal[c], to.cells[c], base, k, c)
    <3>1. ~Assigning(base[k], c) /\ NearsAt(goal[c], store[c], base, k - 1, c)
      BY <2>3, <2>5 DEF Nears
    <3> HIDE DEF s
    <3>2. NearsAt(goal[c], store[c], base, k, c)
      BY <1>4, <3>1, OthersNear
    <3> QED BY <2>3, <3>2
  <2>6. Nears(goal, store, base, k - 1) => Nears(goal, to.cells, base, k)
    BY <2>5 DEF Nears
  <2> QED BY <2>2, <2>6
<1>8. s.do \in {"set", "op"} => SameWriters(base, to.plan)
  BY <1>3
<1>6. ASSUME s.do \in {"set", "op"}, LiteralPlan(base), Settled(goal, base), Nears(goal, store, base, k - 1)
      PROVE  Nears(goal, to.cells, base, k)
  <2> DEFINE y == AssignSolved(f, x, v, IsItself(p[k]))
  <2>1. ~AssignPanics(f, x, v) /\ to.plan = p /\ to.cells = [store EXCEPT ![s.cell] = y]
    BY <1>3, <1>6
  <2>2. s.cell \in Cells /\ s.subs \in AnySubscripts /\ s.from \in AnySource /\ x \in AnyValue
    BY <1>1, <1>6, StatementIs
  <2>3. /\ base[k].s = s /\ base[k].f = f
        /\ AssignsLiteral(p[k]) /\ AssignsLiteral(base[k]) /\ s.from.source = "literal"
    <3>1. base[k].s = s /\ base[k].f = f
      BY <1>4, <1>6 DEF SameWriters
    <3>2. AssignsLiteral(base[k])
      BY <1>4, <1>6 DEF LiteralPlan
    <3> QED BY <1>6, <3>1, <3>2 DEF AssignsLiteral
  <2>4. Gave(p[k], x, y)
    <3>1. Built(f, s.subs)
      BY <1>1, <1>6 DEF Fitted
    <3> HIDE DEF x
    <3> QED BY <1>1, <1>6, <2>1, <2>2, <2>3, <3>1, LiteralIsGiven
  <2>5. Gave(base[k], x, y)
    BY <2>3, <2>4 DEF Gave, Gives, LiteralMoves
  <2>6. s.from.value \in AnyValue
    BY <2>2, <2>3 DEF AnySource
  <2>8. \A c \in Cells : Assigning(base[k], c) \/ to.cells[c] = store[c]
    BY <1>1, <1>6, <2>1, <2>3 DEF Assigning
  <2> HIDE DEF y
  <2>9. to.cells[s.cell] = y
    BY <1>1, <2>1, <2>2
  <2>10. ASSUME NEW c \in Cells PROVE NearsAt(goal[c], to.cells[c], base, k, c)
    <3>1. CASE ~Assigning(base[k], c)
      <4>1. NearsAt(goal[c], store[c], base, k - 1, c) /\ to.cells[c] = store[c]
        BY <1>6, <2>8, <3>1 DEF Nears
      <4> HIDE DEF s
      <4> QED BY <1>4, <3>1, <4>1, OthersNear
    <3>2. CASE Assigning(base[k], c)
      <4>1. c = s.cell /\ goal[c] \in AnyValue
        BY <1>7, <2>3, <3>2 DEF Assigning
      <4>2. Gave(base[k], store[c], y) /\ to.cells[c] = y /\ base[k].s.from.value \in AnyValue
        BY <2>3, <2>5, <2>6, <2>9, <4>1
      <4> HIDE DEF s
      <4> QED BY <1>4, <1>6, <1>7, <3>2, <4>1, <4>2, WritersNear
    <3> QED BY <3>1, <3>2
  <2> QED BY <2>10 DEF Nears
<1> QED BY <1>2, <1>3, <1>5, <1>6, <1>8

(* At the end everything is back.                                          *)
LEMMA NothingIsLeft ==
  ASSUME NEW goal \in [Cells -> AnyValue], NEW store \in [Cells -> AnyValue], NEW p, Len(p) \in Nat,
         Nears(goal, store, p, Len(p))
  PROVE  store = goal
<1>1. ASSUME NEW c \in Cells PROVE store[c] = goal[c]
  <2> DEFINE x == goal[c]
             y == store[c]
  <2>1. \A j \in (Len(p) + 1)..Len(p) : FALSE
    OBVIOUS
  <2>2. KeepsForm(x, y) /\ \A i \in 1..Size(x) : y.elems[i] = x.elems[i]
    BY <2>1 DEF Nears, NearsAt
  <2>3. x \in AnyValue /\ y \in AnyValue
    OBVIOUS
  <2> HIDE DEF x, y
  <2>4. /\ x.elems \in [1..Size(x) -> Int] /\ y.elems \in [1..Size(x) -> Int]
        /\ y.type = x.type /\ y.form = x.form /\ y.rows = x.rows /\ y.cols = x.cols
    BY <2>2, <2>3, ValueIsResult DEF KeepsForm
  <2>5. y.elems = x.elems
    <3>1. \A D : \A a, b \in [D -> Int] : (\A i \in D : b[i] = a[i]) => b = a
      OBVIOUS
    <3> DEFINE a == x.elems
               b == y.elems
               D == 1..Size(x)
    <3>2. a \in [D -> Int] /\ b \in [D -> Int] /\ \A i \in D : b[i] = a[i]
      BY <2>2, <2>4
    <3> HIDE DEF a, b, D
    <3>3. b = a
      BY <3>1, <3>2, Zenon
    <3> QED BY <3>3 DEF a, b
  <2>6. \A z \in AnyValue :
          z = [type |-> z.type, form |-> z.form, rows |-> z.rows, cols |-> z.cols, elems |-> z.elems]
    BY DEF AnyValue, AnyResult
  <2> QED BY <2>3, <2>4, <2>5, <2>6 DEF x, y
<1> QED BY <1>1

(* A step that does not stop keeps what the assignments do and, if they are *)
(* of literals, the variables.                                             *)
LEMMA StepBringsBack ==
  ASSUME Sound(cells, plan), ~SolvedPlan.panicked
  PROVE  /\ SameWriters(plan, SolvedPlan.plan)
         /\ LiteralPlan(plan) /\ Settled(cells, plan) => SolvedPlan.cells = cells
<1> DEFINE n == Len(plan)
           Literals == LiteralPlan(plan) /\ Settled(cells, plan)
           Good(t, k) == /\ t = [cells |-> t.cells, plan |-> t.plan, panicked |-> t.panicked]
                         /\ t.panicked \in BOOLEAN /\ Len(t.plan) = n
                         /\ Sound(t.cells, t.plan)
                         /\ ~t.panicked =>
                              /\ SameWriters(plan, t.plan)
                              /\ Literals => Nears(cells, t.cells, plan, k)
<1>1. n \in Nat /\ DOMAIN plan = 1..n
  BY EntryIs DEF Sound
<1>2. PICK r : /\ r[0] = Now
               /\ \A k \in 1..n : r[k] = SolveAt(r[k - 1], k)
               /\ SolvedPlan = r[n]
  <2> HIDE DEF n
  <2> QED BY <1>1, SolvedPlanIs
<1>3. Good(r[0], 0)
  <2>1. Now = [cells |-> cells, plan |-> plan, panicked |-> FALSE]
    BY DEF Now
  <2>2. SameWriters(plan, plan) /\ Nears(cells, cells, plan, 0)
    BY <1>1 DEF SameWriters, Nears, NearsAt, KeepsForm
  <2> QED BY <1>2, <2>1, <2>2
<1> HIDE DEF n, Literals
<1> DEFINE D == {k \in Nat : k <= n => Good(r[k], k)}
<1>4. 0 \in D
  <2> HIDE DEF Good
  <2> QED BY <1>3
<1>5. ASSUME NEW k \in Nat, k \in D PROVE k + 1 \in D
  <2> SUFFICES ASSUME k + 1 <= n PROVE Good(r[k + 1], k + 1)
    OBVIOUS
  <2>1. Good(r[k], k) /\ k + 1 \in 1..n /\ (k + 1) - 1 = k
    BY <1>1, <1>5
  <2> DEFINE store == r[k].cells
             p == r[k].plan
             pk == r[k].panicked
             t == SolveAt([cells |-> store, plan |-> p, panicked |-> pk], k + 1)
  <2>2. /\ r[k] = [cells |-> store, plan |-> p, panicked |-> pk] /\ pk \in BOOLEAN
        /\ Sound(store, p) /\ Len(p) = n
        /\ ~pk => SameWriters(plan, p) /\ (Literals => Nears(cells, store, plan, k))
    BY <2>1
  <2>3. r[k + 1] = t
    BY <1>2, <2>1, <2>2
  <2> HIDE DEF store, p, pk, Good
  <2>4. /\ t = [cells |-> t.cells, plan |-> t.plan, panicked |-> t.panicked]
        /\ t.panicked \in BOOLEAN /\ Len(t.plan) = Len(p)
        /\ Sound(t.cells, t.plan)
    BY <2>1, <2>2, SolvingKeepsSound
  <2>5. pk => t.panicked
    <3>1. \A a : a.panicked => SolveAt(a, k + 1) = a
      BY DEF SolveAt
    <3>2. pk => [cells |-> store, plan |-> p, panicked |-> pk].panicked
      OBVIOUS
    <3> QED BY <2>2, <3>1, <3>2
  <2>6. ASSUME ~t.panicked
        PROVE  SameWriters(plan, t.plan) /\ (Literals => Nears(cells, t.cells, plan, k + 1))
    <3>1. ~pk /\ SameWriters(plan, p) /\ (Literals => Nears(cells, store, plan, (k + 1) - 1))
      BY <2>1, <2>2, <2>5, <2>6
    <3>2. t = SolveAt([cells |-> store, plan |-> p, panicked |-> pk], k + 1)
      OBVIOUS
    <3>3. k + 1 \in 1..Len(p)
      BY <2>1, <2>2
    <3> HIDE DEF t
    <3> QED BY <2>2, <2>6, <3>1, <3>2, <3>3, SolvingNears DEF Literals
  <2> HIDE DEF t
  <2> QED BY <2>2, <2>3, <2>4, <2>6 DEF Good
<1>6. n \in D
  <2> HIDE DEF D
  <2> QED BY <1>1, <1>4, <1>5, NatSetInduction
<1>7. /\ SameWriters(plan, SolvedPlan.plan)
      /\ Literals => Nears(cells, SolvedPlan.cells, plan, n)
      /\ Sound(SolvedPlan.cells, SolvedPlan.plan)
  BY <1>1, <1>2, <1>6
<1>8. Literals => SolvedPlan.cells = cells
  BY <1>1, <1>7, NothingIsLeft DEF Sound, n
<1> QED BY <1>7, <1>8 DEF Literals

(* Of a plan that assigns literals only, the invariant.                    *)
LiteralsSettled(store, p) == LiteralPlan(p) => Settled(store, p)

LEMMA AddedSettles ==
  ASSUME NEW store, NEW p, IsPlan(p), LiteralsSettled(store, p), NEW s \in AnyStatement, NEW f,
         s.do \in {"read", "build"}
  PROVE  LiteralsSettled(store, Append(p, Item(s, f)))
<1> DEFINE q == Append(p, Item(s, f))
           n == Len(p)
<1>1. /\ Len(q) = n + 1 /\ n \in Nat
      /\ \A k \in 1..n : q[k] = p[k]
      /\ q[n + 1].s = s
  BY PlanGrows
<1> HIDE DEF q, n
<1>2. \A k \in 1..Len(q) : k \in 1..n \/ k = n + 1
  BY <1>1
<1>3. 1..n \subseteq 1..Len(q)
  BY <1>1
<1>4. LiteralPlan(q) => LiteralPlan(p)
  BY <1>1, <1>3 DEF LiteralPlan, n
<1>5. ASSUME Settled(store, p), NEW k \in 1..n, q[k].s.do \in {"set", "op"} PROVE EntrySettled(store, q, k)
  <2>1. EntrySettled(store, p, k) /\ q[k] = p[k]
    BY <1>1, <1>5 DEF Settled, n
  <2>2. \A j \in (k + 1)..n : j \in (k + 1)..Len(q) /\ q[j] = p[j]
    BY <1>1
  <2>3. \A z : (\E j \in (k + 1)..n : AssigningAll(p[j], z)) => \E j \in (k + 1)..Len(q) : AssigningAll(q[j], z)
    BY <2>2
  <2>4. \A z, a, i : (\E j \in (k + 1)..n : Reaches(p[j], z, a, i))
                     => \E j \in (k + 1)..Len(q) : Reaches(q[j], z, a, i)
    BY <2>2
  <2> QED BY <2>1, <2>3, <2>4 DEF EntrySettled, n
<1>6. Settled(store, p) => Settled(store, q)
  BY <1>1, <1>2, <1>5 DEF Settled
<1> QED BY <1>4, <1>6 DEF LiteralsSettled, q

LEMMA WritingSettles ==
  ASSUME Sound(cells, plan), LiteralsSettled(cells, plan), NEW s \in AnyStatement, NEW f,
         BuiltFor(s, f), Writing(s, f)
  PROVE  LiteralsSettled(cells', plan')
<1> DEFINE e == Item(s, f)
           x == cells[s.cell]
           v == ValueIn(cells, s.from)
           y == AssignSolved(f, x, v, IsItself(e))
           q == Append(plan, e)
           n == Len(plan)
<1>1. s.do \in {"set", "op"} /\ s.cell \in Cells /\ Built(f, s.subs) /\ x \in AnyValue
  BY WritingIs
<1>2. ~AssignPanics(f, x, v) /\ plan' = q /\ cells' = [cells EXCEPT ![s.cell] = y]
  BY DEF Writing, Adds
<1>3. /\ Len(q) = n + 1 /\ n \in Nat
      /\ \A k \in 1..n : q[k] = plan[k]
      /\ q[n + 1].s = s /\ q[n + 1].f = f
  BY PlanGrows DEF Sound
<1>4. e.s = s /\ e.f = f
  BY DEF Item
<1> SUFFICES ASSUME LiteralPlan(q) PROVE Settled(cells', q)
  BY <1>2 DEF LiteralsSettled
<1>5. LiteralPlan(plan) /\ AssignsLiteral(e)
  <2>1. 1..n \subseteq 1..Len(q) /\ n + 1 \in 1..Len(q)
    BY <1>3
  <2>2. AssignsLiteral(q[n + 1])
    BY <2>1 DEF LiteralPlan
  <2>3. AssignsLiteral(e)
    BY <1>3, <1>4, <2>2 DEF AssignsLiteral
  <2> QED BY <1>3, <2>1, <2>3 DEF LiteralPlan
<1>6. Settled(cells, plan)
  BY <1>5 DEF LiteralsSettled
<1>7. Gave(e, x, y)
  <2> HIDE DEF e, x
  <2> QED BY <1>1, <1>2, <1>4, <1>5, LiteralIsGiven
<1>8. cells'[s.cell] = y /\ cells' = [cells EXCEPT ![s.cell] = cells'[s.cell]]
  <2>1. cells \in [Cells -> AnyValue]
    BY DEF Sound
  <2> HIDE DEF y
  <2> QED BY <1>1, <1>2, <2>1
<1> HIDE DEF y, q
<1>9. Settled(cells', Append(plan, e))
  <2>1. Gave(e, cells[s.cell], cells'[s.cell])
    BY <1>7, <1>8
  <2>2. e = Item(s, f)
    OBVIOUS
  <2> HIDE DEF e
  <2> QED BY <1>1, <1>6, <1>8, <2>1, <2>2, WrittenSettles
<1> QED BY <1>9 DEF q

LEMMA StatementsSettle ==
  ASSUME Sound(cells, plan), LiteralsSettled(cells, plan), Statement
  PROVE  LiteralsSettled(cells', plan')
<1>1. PICK s \in AnyStatement :
        \/ UNCHANGED <<cells, plan>>
        \/ s.do \in {"read", "build"} /\ UNCHANGED cells /\ \E f : Adds(s, f) /\ Fitted(s, f)
        \/ \E f : BuiltFor(s, f) /\ Writing(s, f)
  BY StatementsDo
<1>2. CASE UNCHANGED <<cells, plan>>
  BY <1>2
<1>3. ASSUME s.do \in {"read", "build"}, UNCHANGED cells, NEW f, Adds(s, f)
      PROVE  LiteralsSettled(cells', plan')
  <2>1. LiteralsSettled(cells, Append(plan, Item(s, f)))
    BY <1>3, AddedSettles DEF Sound
  <2> QED BY <1>3, <2>1 DEF Adds
<1>4. ASSUME NEW f, BuiltFor(s, f), Writing(s, f) PROVE LiteralsSettled(cells', plan')
  BY <1>4, WritingSettles
<1> QED BY <1>1, <1>2, <1>3, <1>4

(* What a step does to a plan that assigns literals.                       *)
LEMMA StepsBringBack ==
  ASSUME Sound(cells, plan), LiteralsSettled(cells, plan), Step
  PROVE  /\ LiteralsSettled(cells', plan')
         /\ outcome' # "panic" /\ LiteralPlan(plan) => cells' = cells
<1>1. CASE SolvedPlan.panicked
  <2>1. outcome' = "panic" /\ cells' = cells /\ plan' = plan
    BY <1>1 DEF Step
  <2> QED BY <2>1
<1>2. CASE ~SolvedPlan.panicked
  <2>1. cells' = SolvedPlan.cells /\ plan' = SolvedPlan.plan
    BY <1>2 DEF Step
  <2>2. /\ SameWriters(plan, SolvedPlan.plan)
        /\ LiteralPlan(plan) => SolvedPlan.cells = cells /\ Settled(cells, plan)
    BY <1>2, StepBringsBack DEF LiteralsSettled
  <2>3. LiteralPlan(SolvedPlan.plan) => LiteralPlan(plan)
    BY <2>2, SameWritersSettle
  <2>4. LiteralPlan(plan) => Settled(cells, SolvedPlan.plan)
    BY <2>2, SameWritersSettle
  <2> QED BY <2>1, <2>2, <2>3, <2>4 DEF LiteralsSettled
<1> QED BY <1>1, <1>2

LEMMA LiteralsStaySettled == Spec => []LiteralsSettled(cells, plan)
<1>1. Init => LiteralsSettled(cells, plan)
  <2> SUFFICES ASSUME Init PROVE LiteralsSettled(cells, plan)
    OBVIOUS
  <2>1. plan = << >>
    BY DEF Init
  <2>2. \A k \in 1..Len(plan) : FALSE
    BY <2>1
  <2> QED BY <2>2 DEF LiteralsSettled, Settled
<1>2. Sound(cells, plan) /\ LiteralsSettled(cells, plan) /\ [Next]_vars
      => LiteralsSettled(cells, plan)'
  <2> SUFFICES ASSUME Sound(cells, plan), LiteralsSettled(cells, plan), [Next]_vars
               PROVE  LiteralsSettled(cells', plan')
    OBVIOUS
  <2>1. CASE Statement
    BY <2>1, StatementsSettle
  <2>2. CASE Step
    BY <2>2, StepsBringBack
  <2>3. CASE UNCHANGED vars
    BY <2>3 DEF vars
  <2> QED BY <2>1, <2>2, <2>3 DEF Next
<1> QED BY <1>1, <1>2, ProgramsAreSound, PTL DEF Spec

(* A step of a plan that assigns literals leaves every variable as it was. *)
THEOREM LiteralsAreKept == Spec => StepsKeepLiterals
<1> DEFINE LiteralsOnly == \A k \in DOMAIN plan : ~Writes(k) \/ (Replaces(k) /\ FromLiteral(k))
           Keeps == last' = Stepped /\ outcome' # "panic" /\ LiteralsOnly => cells' = cells
<1>1. Sound(cells, plan) /\ LiteralsSettled(cells, plan) /\ [Next]_vars => [Keeps]_vars
  <2> SUFFICES ASSUME Sound(cells, plan), LiteralsSettled(cells, plan), [Next]_vars,
                      last' = Stepped, outcome' # "panic", LiteralsOnly
               PROVE  cells' = cells
    OBVIOUS
  <2>1. LiteralPlan(plan)
    <3>1. DOMAIN plan = 1..Len(plan)
      BY EntryIs DEF Sound
    <3> QED BY <3>1 DEF LiteralPlan, AssignsLiteral, Writes, Replaces, FromLiteral
  <2>2. CASE Statement
    <3>1. PICK s : /\ s \in Script[Len(plan) + 1]
                   /\ \/ s.do = "read" /\ Read(s)
                      \/ s.do = "set" /\ Set(s)
                      \/ s.do = "op" /\ OpSet(s)
                      \/ s.do = "build" /\ Build(s)
      BY <2>2 DEF Statement
    <3>2. s.do # "step"
      BY <3>1
    <3>3. last' = s
      <4>1. \A how : Ends(s, how) => last' = s
        BY DEF Ends
      <4>2. \A f : Run(s, f) => last' = s
        BY <4>1 DEF Run
      <4>3. Read(s) => last' = s
        BY <4>1 DEF Read
      <4>4. Build(s) => last' = s
        BY <4>1 DEF Build
      <4>5. Set(s) => last' = s
        BY <4>1, <4>2 DEF Set
      <4>6. OpSet(s) => last' = s
        BY <4>1, <4>2 DEF OpSet
      <4> QED BY <3>1, <4>3, <4>4, <4>5, <4>6
    <3> QED BY <3>2, <3>3 DEF Stepped
  <2>3. CASE Step
    BY <2>1, <2>3, StepsBringBack
  <2>4. CASE UNCHANGED vars
    BY <2>4 DEF vars
  <2> QED BY <2>2, <2>3, <2>4 DEF Next
<1>2. [][Keeps]_vars => StepsKeepLiterals
  BY DEF StepsKeepLiterals
<1> QED BY <1>1, <1>2, ProgramsAreSound, LiteralsStaySettled, PTL DEF Spec

=============================================================================
