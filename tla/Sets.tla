-------------------------------- MODULE Sets --------------------------------
(***************************************************************************)
(* The sets of Mech (MechSet) and the functions of the set library.        *)
(*                                                                         *)
(* A set is a hash table that keeps the order of insertion.  Its elements  *)
(* are values, and a value holds its number in a cell that it shares with  *)
(* every clone of it: an element taken from a variable changes with the    *)
(* variable, while the hash it was stored under does not.                  *)
(***************************************************************************)
EXTENDS Integers, Sequences, SequencesExt, TLC

CONSTANT Names     \* variables that hold a number

VARIABLE numbers   \* the number in the cell of each variable

-----------------------------------------------------------------------------
(* Values.  A cell is that of a variable, or a constant of its own.        *)

Number(cell) == [form |-> "number", cell |-> cell]
Named(x)     == [form |-> "named", cell |-> x]            \* Value::MutableReference
Pair(a, b)   == [form |-> "pair", of |-> <<a, b>>]
Nested(s)    == [form |-> "set", of |-> s]

\* What a reference refers to, sharing its cell.
Detached(e) == IF e.form = "named" THEN Number(e.cell) ELSE e

Content(e) == IF e.cell \in Names THEN numbers[e.cell] ELSE e.cell

Empty == <<"empty">>
SetKind(kind, size) == <<"set", IF size = 0 THEN "_" ELSE ToString(size)>> \o kind
AnySize(kind) == SetKind(kind, 0)

RECURSIVE Kind(_), Hash(_), Same(_, _), Has(_, _)

Kind(e) ==
  CASE e.form = "number" -> <<"f64">>
    [] e.form = "named"  -> <<"reference", "f64">>
    [] e.form = "pair"   -> <<"tuple">> \o Kind(e.of[1]) \o Kind(e.of[2])
    [] e.form = "set"    -> SetKind(e.of.kind, e.of.num_elements)

\* The elements of a set are hashed one after the other, in its order.
Hash(e) ==
  CASE e.form \in {"number", "named"} -> <<Content(e)>>
    [] e.form = "pair" -> Hash(e.of[1]) \o Hash(e.of[2])
    [] e.form = "set"  -> FlattenSeq([i \in DOMAIN e.of.items |-> Hash(e.of.items[i].elem)])

\* The tables of an IndexSet: a table of one entry is compared without its hash.
Has(items, e) ==
  \E i \in DOMAIN items :
    Same(items[i].elem, e) /\ (Len(items) = 1 \/ items[i].hash = Hash(e))

IsSubset(items, others) ==
  Len(items) <= Len(others) /\ \A i \in DOMAIN items : Has(others, items[i].elem)

\* Plausible bug: sets are equal when the first is within the second.
MutWithin(items, others) == IsSubset(items, others)

SameItems(items, others) == Len(items) = Len(others) /\ IsSubset(items, others)

\* A reference never equals a value, whatever it refers to.
Same(a, b) ==
  /\ a.form = b.form
  /\ CASE a.form \in {"number", "named"} -> Content(a) = Content(b)
       [] a.form = "pair" -> Same(a.of[1], b.of[1]) /\ Same(a.of[2], b.of[2])
       [] a.form = "set"  -> /\ a.of.kind = b.of.kind /\ a.of.num_elements = b.of.num_elements
                             /\ SameItems(a.of.items, b.of.items)

Stored(items, e) ==
  IF \E i \in DOMAIN items : items[i].hash = Hash(e) /\ Same(items[i].elem, e) THEN items
  ELSE Append(items, [elem |-> e, hash |-> Hash(e)])

ShiftRemoved(items, e) ==
  SelectSeq(items, LAMBDA item :
    ~(Same(item.elem, e) /\ (Len(items) = 1 \/ item.hash = Hash(e))))

Elements(items) == [i \in DOMAIN items |-> items[i].elem]

Within(items, others)  == SelectSeq(items, LAMBDA item : Has(others, item.elem))
Without(items, others) == SelectSeq(items, LAMBDA item : ~Has(others, item.elem))

-----------------------------------------------------------------------------
(* MechSet.                                                                *)

FirstKind(items) == IF items = << >> THEN Empty ELSE Kind(items[1].elem)

MechSet(kind, items) == [kind |-> kind, num_elements |-> Len(items), items |-> items]

FromSet(items) == MechSet(FirstKind(items), items)

\* Plausible bug: elements that come from tables are taken to be distinct.
MutTrusted(elems) == FromSet([i \in DOMAIN elems |-> [elem |-> elems[i], hash |-> Hash(elems[i])]])

\* Each element is hashed as it is stored.
FromVec(elems) == FromSet(FoldLeft(Stored, << >>, elems))

-----------------------------------------------------------------------------
(* The set library.                                                        *)

SetUnion(lhs, rhs) ==
  FromVec(Elements(lhs.items) \o Elements(Without(rhs.items, lhs.items)))

SetIntersection(lhs, rhs) == FromVec(Elements(Within(lhs.items, rhs.items)))

SetDifference(lhs, rhs) == FromVec(Elements(Without(lhs.items, rhs.items)))

SetSymDifference(lhs, rhs) ==
  FromVec(Elements(Without(lhs.items, rhs.items)) \o Elements(Without(rhs.items, lhs.items)))

SetCartesianProduct(lhs, rhs) ==
  FromVec(FlattenSeq([i \in DOMAIN lhs.items |->
    [j \in DOMAIN rhs.items |-> Pair(lhs.items[i].elem, rhs.items[j].elem)]]))

\* The sub-sequences of the elements, the shorter ones first.
Powers(elems) ==
  LET all == FoldRight(LAMBDA e, acc : [i \in DOMAIN acc |-> <<e>> \o acc[i]] \o acc, elems, << << >> >>)
  IN  FlattenSeq([n \in 1..Len(elems) + 1 |-> SelectSeq(all, LAMBDA s : Len(s) = n - 1)])

SetPowerset(input) ==
  LET powers == Powers(Elements(input.items))
      subsets == [i \in DOMAIN powers |-> Nested(FromVec(powers[i]))]
  IN  MechSet(AnySize(input.kind), FromVec(subsets).items)

RECURSIVE TypesMatch(_, _)
TypesMatch(kind, other) ==
  IF kind[1] = "set" /\ other[1] = "set"
    THEN TypesMatch(SubSeq(kind, 3, Len(kind)), SubSeq(other, 3, Len(other)))
    ELSE kind = other

SizesMatch(kind, other) ==
  IF kind[1] = "set" /\ other[1] = "set" THEN kind[2] = other[2] ELSE kind = other

WithoutSize(kind) ==
  IF kind[1] = "set" THEN AnySize(SubSeq(kind, 3, Len(kind))) ELSE Empty

\* out is the result so far: what the kinds forbid leaves it with no elements.
SetInsert(set, elem, out) ==
  LET sizes == SizesMatch(set.kind, Kind(elem))
  IN  IF TypesMatch(set.kind, Kind(elem))
        THEN MechSet(IF sizes THEN set.kind ELSE WithoutSize(out.kind), Stored(set.items, elem))
        ELSE MechSet(out.kind, << >>)

SetRemove(set, elem) ==
  IF set.kind = Kind(elem) THEN FromSet(ShiftRemoved(set.items, elem)) ELSE FromSet(<< >>)

SetElementOf(elem, set)    == set.kind = Kind(elem) /\ Has(set.items, elem)
SetNotElementOf(elem, set) == set.kind = Kind(elem) => ~Has(set.items, elem)

SetSubset(lhs, rhs)         == IsSubset(lhs.items, rhs.items)
SetSuperset(lhs, rhs)       == IsSubset(rhs.items, lhs.items)
SetProperSubset(lhs, rhs)   == SetSubset(lhs, rhs) /\ Len(lhs.items) < Len(rhs.items)
SetProperSuperset(lhs, rhs) == SetSuperset(lhs, rhs) /\ Len(lhs.items) > Len(rhs.items)
SetEquals(lhs, rhs)         == SameItems(lhs.items, rhs.items)
SetNotEquals(lhs, rhs)      == ~SameItems(lhs.items, rhs.items)

\* The shorter of the two is looked up in the longer one.
SetDisjoint(lhs, rhs) ==
  IF Len(lhs.items) <= Len(rhs.items) THEN Within(lhs.items, rhs.items) = << >>
  ELSE Within(rhs.items, lhs.items) = << >>

SetSize(input) == Len(input.items)

-----------------------------------------------------------------------------
(* What a set means: the values in its cells, without order or hashes.     *)

Numbers(e) ==
  CASE e.form \in {"number", "named"} -> {<<Content(e)>>}
    [] e.form = "pair" -> {<<Content(e.of[1]), Content(e.of[2])>>}
    [] e.form = "set" -> {<<Content(e.of.items[i].elem)>> : i \in DOMAIN e.of.items}

Meaning(e) == [form |-> Detached(e).form, of |-> Numbers(e)]

Members(s) == {Meaning(s.items[i].elem) : i \in DOMAIN s.items}

\* Every element is stored under the hash it has now.
Fresh(s) == \A i \in DOMAIN s.items : s.items[i].hash = Hash(s.items[i].elem)

\* All elements of both are values, or all are references.
Alike(lhs, rhs) ==
  \A e \in ToSet(Elements(lhs.items)), f \in ToSet(Elements(rhs.items)) :
    (e.form = "named") <=> (f.form = "named")

Distinct(s) == \A i, j \in DOMAIN s.items : i # j => ~Same(s.items[i].elem, s.items[j].elem)
=============================================================================
