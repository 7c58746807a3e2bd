---------------------------- MODULE BytecodeProofs ----------------------------
(***************************************************************************)
(* Theorems about compiling, writing, loading and running any plan over    *)
(* any kinds of value.  First the compilation by itself; then the layout,  *)
(* what lies in a file where, and that reading gives what was written; then*)
(* the invariant of LoadedProgram and what is compiled is what runs.       *)
(***************************************************************************)
EXTENDS LoadedProgram, BasicLemmas, SequenceTheorems, TLAPS

-----------------------------------------------------------------------------
(* The compilation.                                                        *)

Loads == [op : {"load"}, dst : Nat, const : Nat]
Ops == [op : {"op", "varop"}, fxn : Functions, regs : Seq(Nat)]
AnyByte == {b \in [of : Value \cup {"padding"}, part : Nat, width : Nat] : b.width = 0 => b.part = 0}
Entries == [type : Int, align : Nat \ {0}, offset : Nat, length : Nat]

IsLoaded(r, is, n) == \E j \in 1..n : is[j].op = "load" /\ is[j].dst = r

CompileTypes ==
  /\ source \in Sources
  /\ at \in Nat \ {0}
  /\ loaded \in Seq(Nat)
  /\ nextReg \in Nat
  /\ types \in Seq(Kinds)
  /\ instrs \in Seq(Loads \cup Ops)
  /\ consts \in Seq(Entries)
  /\ blob \in Seq(AnyByte)

RegMapHolds ==
  /\ \A c \in DOMAIN regOf : regOf[c] \in Nat /\ regOf[c] < nextReg
  /\ \A c, d \in DOMAIN regOf : regOf[c] = regOf[d] => c = d

(* The operands loaded so far are the destinations of loads already emitted. *)
OperandsHold ==
  \A k \in 1..Len(loaded) : loaded[k] < nextReg /\ IsLoaded(loaded[k], instrs, Len(instrs))

OpHolds(is, n, i) ==
  is[i].op # "load" =>
    \A k \in 1..Len(is[i].regs) : is[i].regs[k] < n /\ IsLoaded(is[i].regs[k], is, i - 1)
OpsHold == \A i \in 1..Len(instrs) : OpHolds(instrs, nextReg, i)

(* Element types come first, and no kind comes twice.                      *)
WellFounded(ts) ==
  \A i, j \in 1..Len(ts) :
    /\ ts[i] = ts[j] => i = j
    /\ ts[i] \in DOMAIN Element => \E k \in 1..(i - 1) : ts[k] = Element[ts[i]]

(* Entry c describes a constant of blob b.                                 *)
ConstHolds(c, b, ts) ==
  /\ c.offset % c.align = 0 /\ c.offset + c.length <= Len(b)
  /\ c.type + 1 \in 1..Len(ts) /\ c.length = Size[ts[c.type + 1]]
  /\ c.length > 0 =>
       /\ \A k \in 1..c.length : b[c.offset + k].part = k /\ b[c.offset + k].width = c.length
       /\ b[c.offset + 1].of.kind = ts[c.type + 1]

ConstsHold ==
  \A i \in 1..Len(consts) :
    /\ ConstHolds(consts[i], blob, types)
    /\ \A j \in 1..(i - 1) : consts[j].offset + consts[j].length <= consts[i].offset

(* What compiling the constant v leaves as it was, and what it adds.       *)
ConstAdded(v) ==
  /\ Len(types) <= Len(types') /\ \A i \in 1..Len(types) : types'[i] = types[i]
  /\ Len(blob) <= Len(blob') /\ \A i \in 1..Len(blob) : blob'[i] = blob[i]
  /\ Len(consts') = Len(consts) + 1 /\ \A i \in 1..Len(consts) : consts'[i] = consts[i]
  /\ LET c == consts'[Len(consts) + 1]
     IN c.length > 0 => blob'[c.offset + 1].of = v

IInv ==
  /\ CompileTypes /\ RegMapHolds /\ OperandsHold /\ OpsHold
  /\ WellFounded(types) /\ ConstsHold

-----------------------------------------------------------------------------
(* Lemmas.                                                                 *)

(* The operand a step asks for is a cell of the heap.                      *)
LEMMA CellInHeap ==
  ASSUME CompileTypes, LoadsNext
  PROVE  heap[Cell] \in Value /\ Cell \in 1..Len(heap)
<1>1. plan \in Seq([fxn : Functions, cells : Seq(Nat)]) /\ heap \in Seq(Value)
  BY SourcesAssumption DEF CompileTypes, heap, plan
<1>2. at \in 1..Len(plan)
  BY <1>1 DEF CompileTypes, LoadsNext, Compiling
<1>3. plan[at] \in [fxn : Functions, cells : Seq(Nat)]
  BY <1>1, <1>2, ElementOfSeq
<1>4. plan[at].cells \in Seq(Nat)
  BY <1>3
<1>5. Len(loaded) + 1 \in 1..Len(Operands)
  BY <1>4 DEF CompileTypes, LoadsNext, Operands
<1>6. Cell \in 1..Len(heap)
  BY <1>2, <1>5, SourcesAssumption DEF Cell, Operands, CompileTypes, heap, plan
<1> QED BY <1>1, <1>6

(* A function over 1..n is a sequence.                                     *)
LEMMA FunctionIsSeq ==
  ASSUME NEW S, NEW n \in Nat, NEW f \in [1..n -> S]
  PROVE  f \in Seq(S) /\ Len(f) = n
OBVIOUS

(* align_up goes to the next multiple.                                     *)
LEMMA AlignUpCorrect ==
  ASSUME NEW n \in Nat, NEW a \in {1, 2, 4, 8, 16}
  PROVE  AlignUp(n, a) \in Nat /\ AlignUp(n, a) >= n /\ AlignUp(n, a) % a = 0
<1>1. CASE a = 1
  BY <1>1 DEF AlignUp
<1>2. CASE a = 2
  BY <1>2 DEF AlignUp
<1>3. CASE a = 4
  BY <1>3 DEF AlignUp
<1>4. CASE a = 8
  BY <1>4 DEF AlignUp
<1>5. CASE a = 16
  BY <1>5 DEF AlignUp
<1> QED BY <1>1, <1>2, <1>3, <1>4, <1>5

(* Interning a kind whose element, if it has one, is there already.        *)
LEMMA InternHolds ==
  ASSUME NEW ts \in Seq(Kinds), WellFounded(ts), NEW k \in Kinds, k \notin DOMAIN Element
  PROVE  /\ Intern(ts, k) \in Seq(Kinds) /\ WellFounded(Intern(ts, k))
         /\ Len(Intern(ts, k)) >= Len(ts) /\ \A i \in 1..Len(ts) : Intern(ts, k)[i] = ts[i]
         /\ Contains(Intern(ts, k), k)
         /\ \A e \in Kinds : Contains(Intern(ts, k), e) => e = k \/ Contains(ts, e)
BY DEF Intern, WellFounded, Contains

(* get_or_intern keeps the section well founded and the ids it gave out.   *)
LEMMA GetOrInternHolds ==
  ASSUME NEW ts \in Seq(Kinds), WellFounded(ts), NEW k \in Kinds
  PROVE  /\ GetOrIntern(ts, k) \in Seq(Kinds) /\ WellFounded(GetOrIntern(ts, k))
         /\ Len(GetOrIntern(ts, k)) >= Len(ts)
         /\ \A i \in 1..Len(ts) : GetOrIntern(ts, k)[i] = ts[i]
         /\ Contains(GetOrIntern(ts, k), k)
<1>1. CASE Contains(ts, k)
  BY <1>1 DEF GetOrIntern
<1>2. CASE ~Contains(ts, k) /\ k \notin DOMAIN Element
  BY <1>2, InternHolds DEF GetOrIntern, Children, Intern
<1>3. CASE ~Contains(ts, k) /\ k \in DOMAIN Element
  <2> DEFINE cs == Intern(ts, Element[k])
  <2>1. Element[k] \in Kinds /\ Element[k] \notin DOMAIN Element /\ Element[k] # k
    BY <1>3, CompileAssumption
  <2>2. /\ cs \in Seq(Kinds) /\ WellFounded(cs) /\ Len(cs) >= Len(ts)
        /\ \A i \in 1..Len(ts) : cs[i] = ts[i]
        /\ Contains(cs, Element[k]) /\ ~Contains(cs, k)
    BY <1>3, <2>1, InternHolds
  <2>3. GetOrIntern(ts, k) = Append(cs, k)
    BY <1>3 DEF GetOrIntern, Children
  <2> HIDE DEF cs
  <2>5. /\ Append(cs, k) \in Seq(Kinds) /\ Len(Append(cs, k)) = Len(cs) + 1 /\ Len(cs) \in Nat
        /\ Append(cs, k)[Len(cs) + 1] = k /\ \A i \in 1..Len(cs) : Append(cs, k)[i] = cs[i]
    BY <2>2
  <2>4. WellFounded(Append(cs, k))
    <3> DEFINE a == Append(cs, k)
               n == Len(cs)
    <3>1. \E m \in 1..n : cs[m] = Element[k]
      BY <2>2 DEF Contains
    <3>2. \A i \in 1..n : cs[i] # k
      BY <2>2 DEF Contains
    <3>3. n \in Nat /\ Len(a) = n + 1 /\ a[n + 1] = k /\ \A i \in 1..n : a[i] = cs[i]
      BY <2>5
    <3>4. \A i, j \in 1..n : /\ cs[i] = cs[j] => i = j
                             /\ cs[i] \in DOMAIN Element => \E m \in 1..(i - 1) : cs[m] = Element[cs[i]]
      BY <2>2 DEF WellFounded
    <3> HIDE DEF a, n
    <3>5. ASSUME NEW i \in 1..(n + 1), NEW j \in 1..(n + 1), a[i] = a[j] PROVE i = j
      BY <3>2, <3>3, <3>4, <3>5
    <3>6. ASSUME NEW i \in 1..(n + 1), a[i] \in DOMAIN Element
          PROVE  \E m \in 1..(i - 1) : a[m] = Element[a[i]]
      BY <3>1, <3>3, <3>4, <3>6
    <3> QED BY <3>3, <3>5, <3>6 DEF WellFounded, a
  <2>6. Contains(Append(cs, k), k)
    BY <2>5 DEF Contains
  <2>7. Len(ts) \in Nat
    OBVIOUS
  <2>8. Len(Append(cs, k)) >= Len(ts) /\ \A i \in 1..Len(ts) : Append(cs, k)[i] = ts[i]
    BY <2>2, <2>5, <2>7
  <2> QED BY <2>3, <2>4, <2>5, <2>6, <2>8
<1> QED BY <1>1, <1>2, <1>3

(* The id of a kind that was entered is that of its entry.                 *)
LEMMA TypeIdCorrect ==
  ASSUME NEW ts \in Seq(Kinds), NEW k, Contains(ts, k)
  PROVE  TypeId(ts, k) + 1 \in 1..Len(ts) /\ ts[TypeId(ts, k) + 1] = k
<1> DEFINE i == CHOOSE i \in 1..Len(ts) : ts[i] = k
<1>1. i \in 1..Len(ts) /\ ts[i] = k
  BY DEF Contains
<1> QED BY <1>1 DEF TypeId

-----------------------------------------------------------------------------
(* The invariant.                                                          *)

LEMMA InitHolds == Init => IInv
BY DEF Init, IInv, CompileTypes, RegMapHolds, OperandsHold, OpsHold, WellFounded, ConstsHold

(* Appending a constant: what the table, the blob and the types become.    *)
LEMMA ConstAppended ==
  ASSUME IInv, NEW v \in Value, CompileConst(v)
  PROVE  /\ types' \in Seq(Kinds) /\ WellFounded(types)'
         /\ consts' \in Seq(Entries) /\ blob' \in Seq(AnyByte) /\ ConstsHold'
         /\ ConstAdded(v)
<1> USE DEF IInv
<1> DEFINE k == v.kind
           n == Len(blob)
           off == AlignUp(n, Align[k])
           pad == Padding(off - n)
           bytes == Bytes(v, Size[k])
           new == Entry(k, off)
<1>1. k \in Kinds /\ Size[k] \in Nat /\ Align[k] \in {1, 2, 4, 8, 16}
  BY CompileAssumption DEF Value
<1>2. n \in Nat /\ blob \in Seq(AnyByte)
  BY DEF CompileTypes
<1>3. off \in Nat /\ off >= n /\ off % Align[k] = 0
  BY <1>1, <1>2, AlignUpCorrect
<1>4. /\ types' \in Seq(Kinds) /\ WellFounded(types') /\ Len(types') >= Len(types)
      /\ \A i \in 1..Len(types) : types'[i] = types[i]
      /\ Contains(types', k)
  BY <1>1, GetOrInternHolds DEF CompileConst, CompileTypes
<1>5. pad \in Seq(AnyByte) /\ Len(pad) = off - n
  <2>1. off - n \in Nat /\ Byte("padding", 0, 0) \in AnyByte
    BY <1>2, <1>3 DEF Byte, AnyByte
  <2>2. pad = [i \in 1..(off - n) |-> Byte("padding", 0, 0)]
    BY DEF Padding
  <2> HIDE DEF off, n, pad
  <2> QED BY <2>1, <2>2
<1>6. bytes \in Seq(AnyByte) /\ Len(bytes) = Size[k] /\ \A i \in 1..Size[k] : bytes[i] = Byte(v, i, Size[k])
  <2>1. \A i \in 1..Size[k] : Byte(v, i, Size[k]) \in AnyByte
    BY <1>1 DEF Byte, AnyByte
  <2>2. bytes = [i \in 1..Size[k] |-> Byte(v, i, Size[k])]
    BY DEF Bytes
  <2> HIDE DEF k, bytes
  <2>3. bytes \in [1..Size[k] -> AnyByte]
    BY <2>1, <2>2
  <2>4. bytes \in Seq(AnyByte) /\ Len(bytes) = Size[k]
    BY <1>1, <2>3, FunctionIsSeq
  <2> QED BY <2>2, <2>4
<1>7. PaddedBlob(k) = blob \o pad
  BY DEF PaddedBlob
<1> HIDE DEF off, pad, bytes, new
<1>8. blob' = (blob \o pad) \o bytes
  BY <1>7 DEF CompileConst, bytes
<1>9. /\ blob' \in Seq(AnyByte) /\ Len(blob') = off + Size[k]
      /\ \A i \in 1..n : blob'[i] = blob[i]
      /\ \A i \in 1..Size[k] : blob'[off + i] = Byte(v, i, Size[k])
  <2>1. /\ blob \o pad \in Seq(AnyByte) /\ Len(blob \o pad) = off
        /\ \A i \in 1..n : (blob \o pad)[i] = blob[i]
    BY <1>2, <1>3, <1>5
  <2> DEFINE b == blob \o pad
  <2> HIDE DEF b
  <2>2. b \in Seq(AnyByte) /\ Len(b) = off /\ blob' = b \o bytes
    BY <2>1, <1>8 DEF b
  <2>3. /\ b \o bytes \in Seq(AnyByte) /\ Len(b \o bytes) = off + Size[k]
        /\ \A i \in 1..off : (b \o bytes)[i] = b[i]
        /\ \A i \in 1..Size[k] : (b \o bytes)[off + i] = bytes[i]
    <3>1. \A p, q \in Seq(AnyByte) :
            /\ p \o q \in Seq(AnyByte) /\ Len(p \o q) = Len(p) + Len(q)
            /\ \A i \in 1..Len(p) : (p \o q)[i] = p[i]
            /\ \A i \in 1..Len(q) : (p \o q)[Len(p) + i] = q[i]
      OBVIOUS
    <3> HIDE DEF off, bytes
    <3>2. /\ b \o bytes \in Seq(AnyByte) /\ Len(b \o bytes) = Len(b) + Len(bytes)
          /\ \A i \in 1..Len(b) : (b \o bytes)[i] = b[i]
          /\ \A i \in 1..Len(bytes) : (b \o bytes)[Len(b) + i] = bytes[i]
      BY <3>1, <2>2, <1>6, Zenon
    <3>3. Len(b) = off /\ Len(bytes) = Size[k]
      BY <2>2, <1>6
    <3> QED BY <3>2, <3>3, Zenon
  <2>4. \A i \in 1..n : blob'[i] = blob[i]
    BY <2>1, <2>2, <2>3, <1>2, <1>3 DEF b
  <2> QED BY <2>2, <2>3, <2>4, <1>6
<1>10. /\ consts' = Append(consts, new)
       /\ new.offset = off /\ new.length = Size[k] /\ new.align = Align[k]
       /\ new.type + 1 \in 1..Len(types') /\ types'[new.type + 1] = k
       /\ new \in Entries
  <2>1. Len(PaddedBlob(k)) = off
    BY <1>7, <1>2, <1>3, <1>5
  <2>2. types' = GetOrIntern(types, k)
    BY DEF CompileConst
  <2>3. new = [type |-> TypeId(types', k), align |-> Align[k], offset |-> off, length |-> Size[k]]
    BY <2>2 DEF new, Entry
  <2>4. TypeId(types', k) + 1 \in 1..Len(types') /\ types'[TypeId(types', k) + 1] = k
    BY <1>4, TypeIdCorrect
  <2>5. TypeId(types', k) \in Int
    BY <1>4 DEF TypeId, Contains
  <2>6. consts' = Append(consts, new)
    BY <2>1 DEF CompileConst, new
  <2> QED BY <2>3, <2>4, <2>5, <2>6, <1>1, <1>3 DEF Entries
<1>11. consts \in Seq(Entries)
  BY DEF CompileTypes
<1> HIDE DEF k, n
<1>12. ConstHolds(new, blob', types')
  <2>1. \A i \in 1..Size[k] : /\ blob'[off + i].part = i /\ blob'[off + i].width = Size[k]
                             /\ blob'[off + i].of = v
    <3> SUFFICES ASSUME NEW i \in 1..Size[k]
                 PROVE  /\ blob'[off + i].part = i /\ blob'[off + i].width = Size[k]
                        /\ blob'[off + i].of = v
      OBVIOUS
    <3>1. blob'[off + i] = [of |-> v, part |-> i, width |-> Size[k]]
      BY <1>9 DEF Byte
    <3> QED BY <3>1
  <2>2. new.length > 0 => 1 \in 1..Size[k]
    BY <1>10, <1>1
  <2>3. v.kind = k
    BY DEF k
  <2> HIDE DEF k
  <2>4. new.offset % new.align = 0 /\ new.offset + new.length <= Len(blob')
    BY <1>10, <1>3, <1>9, <1>1
  <2>5. new.type + 1 \in 1..Len(types') /\ new.length = Size[types'[new.type + 1]]
    BY <1>10
  <2> QED BY <2>1, <2>2, <2>3, <2>4, <2>5, <1>10 DEF ConstHolds
<1>13. ASSUME NEW i \in 1..Len(consts)
       PROVE  ConstHolds(consts[i], blob', types') /\ consts[i].offset + consts[i].length <= new.offset
  <2>1. consts[i] \in Entries
    BY <1>11
  <2>2. ConstHolds(consts[i], blob, types)
    BY DEF ConstsHold
  <2> DEFINE c == consts[i]
  <2>3. c.offset \in Nat /\ c.length \in Nat /\ c.type \in Int
    BY <2>1 DEF Entries
  <2>4. c.offset + c.length <= n
    BY <2>2 DEF ConstHolds, n
  <2> HIDE DEF c
  <2>5. \A q \in 1..c.length : blob'[c.offset + q] = blob[c.offset + q]
    <3> SUFFICES ASSUME NEW q \in 1..c.length PROVE blob'[c.offset + q] = blob[c.offset + q]
      OBVIOUS
    <3>1. c.offset + q \in 1..n
      BY <2>3, <2>4, <1>2
    <3> QED BY <3>1, <1>9
  <2>6. c.type + 1 \in 1..Len(types) /\ types'[c.type + 1] = types[c.type + 1] /\ c.type + 1 \in 1..Len(types')
    BY <2>2, <2>3, <1>4 DEF ConstHolds, c, CompileTypes
  <2>7. ConstHolds(c, blob', types')
    <3>1. c.length > 0 => blob'[c.offset + 1] = blob[c.offset + 1]
      BY <2>3, <2>5
    <3>2. c.offset + c.length <= Len(blob')
      BY <2>3, <2>4, <1>9, <1>3, <1>1, <1>2 DEF n
    <3>3. ConstHolds(c, blob, types)
      BY <2>2 DEF c
    <3> QED BY <3>1, <3>2, <3>3, <2>5, <2>6 DEF ConstHolds
  <2> QED BY <2>3, <2>4, <2>7, <1>3, <1>10, <1>2 DEF c
<1>14. ConstsHold'
  <2> SUFFICES ASSUME NEW i \in 1..Len(consts')
               PROVE  /\ ConstHolds(consts'[i], blob', types')
                      /\ \A j \in 1..(i - 1) : consts'[j].offset + consts'[j].length <= consts'[i].offset
    BY DEF ConstsHold
  <2>1. Len(consts') = Len(consts) + 1 /\ consts'[Len(consts) + 1] = new /\ \A j \in 1..Len(consts) : consts'[j] = consts[j]
    BY <1>10, <1>11
  <2>2. CASE i = Len(consts) + 1
    BY <2>1, <2>2, <1>11, <1>12, <1>13
  <2>3. CASE i \in 1..Len(consts)
    BY <2>1, <2>3, <1>11, <1>13 DEF ConstsHold
  <2> QED BY <2>1, <2>2, <2>3, <1>11
<1>15. consts' \in Seq(Entries)
  BY <1>10, <1>11
<1>16. ConstAdded(v)
  <2>1. Len(consts') = Len(consts) + 1 /\ consts'[Len(consts) + 1] = new /\ \A j \in 1..Len(consts) : consts'[j] = consts[j]
    BY <1>10, <1>11
  <2>2. new.length > 0 => blob'[new.offset + 1].of = v
    <3>1. new.length > 0 => 1 \in 1..Size[v.kind] /\ blob'[off + 1] = [of |-> v, part |-> 1, width |-> Size[v.kind]]
      BY <1>1, <1>9, <1>10 DEF Byte, k
    <3> QED BY <3>1, <1>10
  <2>3. Len(blob) <= Len(blob')
    BY <1>9, <1>3, <1>1, <1>2 DEF n
  <2> QED BY <2>1, <2>2, <2>3, <1>4, <1>9 DEF ConstAdded, n
<1> QED BY <1>4, <1>9, <1>14, <1>15, <1>16

(* Loading an operand into the register of its cell.                       *)
LEMMA RegisterLoaded ==
  ASSUME IInv, LoadRegister
  PROVE  /\ loaded' \in Seq(Nat) /\ nextReg' \in Nat /\ instrs' \in Seq(Loads \cup Ops)
         /\ RegMapHolds' /\ OperandsHold' /\ OpsHold'
<1> USE DEF IInv
<1> DEFINE r == RegisterOf(Cell)
           load == [op |-> "load", dst |-> r, const |-> Len(consts)]
           n == Len(instrs)
<1>1. nextReg \in Nat /\ loaded \in Seq(Nat) /\ instrs \in Seq(Loads \cup Ops) /\ Len(consts) \in Nat
  BY DEF CompileTypes
<1>2. r \in Nat /\ r < nextReg' /\ nextReg' \in Nat /\ nextReg <= nextReg'
  BY <1>1 DEF RegMapHolds, RegisterOf, LoadRegister
<1>3. load \in Loads /\ load.op = "load" /\ load.dst = r
  BY <1>1, <1>2 DEF Loads
<1>4. instrs' = Append(instrs, load) /\ loaded' = Append(loaded, r)
  BY DEF LoadRegister
<1>5. /\ \A c \in DOMAIN regOf' : regOf'[c] \in Nat /\ regOf'[c] < nextReg'
      /\ \A c, d \in DOMAIN regOf' : regOf'[c] = regOf'[d] => c = d
  BY <1>1 DEF RegMapHolds, RegisterOf, LoadRegister
<1> HIDE DEF r, load
<1>6. /\ instrs' \in Seq(Loads \cup Ops) /\ Len(instrs') = n + 1 /\ instrs'[n + 1] = load
      /\ \A i \in 1..n : instrs'[i] = instrs[i]
  BY <1>1, <1>3, <1>4
<1>7. /\ loaded' \in Seq(Nat) /\ Len(loaded') = Len(loaded) + 1 /\ loaded'[Len(loaded) + 1] = r
      /\ \A i \in 1..Len(loaded) : loaded'[i] = loaded[i]
  BY <1>1, <1>2, <1>4
<1>8. \A q : \A m \in 0..n : IsLoaded(q, instrs, m) => IsLoaded(q, instrs', m) /\ IsLoaded(q, instrs', n + 1)
  <2> SUFFICES ASSUME NEW q, NEW m \in 0..n, IsLoaded(q, instrs, m)
               PROVE  IsLoaded(q, instrs', m) /\ IsLoaded(q, instrs', n + 1)
    OBVIOUS
  <2>1. PICK j \in 1..m : instrs[j].op = "load" /\ instrs[j].dst = q
    BY DEF IsLoaded
  <2>2. n \in Nat
    BY <1>1
  <2> HIDE DEF n, IInv
  <2>3. j \in 1..n /\ j \in 1..(n + 1)
    BY <2>2
  <2>4. instrs'[j] = instrs[j]
    BY <1>6, <2>3
  <2> QED BY <2>1, <2>3, <2>4 DEF IsLoaded
<1>9. IsLoaded(r, instrs', n + 1)
  BY <1>1, <1>3, <1>6 DEF IsLoaded
<1>10. OperandsHold'
  <2> SUFFICES ASSUME NEW i \in 1..Len(loaded')
               PROVE  loaded'[i] < nextReg' /\ IsLoaded(loaded'[i], instrs', n + 1)
    BY <1>6 DEF OperandsHold
  <2>1. CASE i = Len(loaded) + 1
    BY <2>1, <1>2, <1>7, <1>9
  <2>2. CASE i \in 1..Len(loaded)
    <3>1. loaded[i] < nextReg /\ IsLoaded(loaded[i], instrs, n) /\ loaded'[i] = loaded[i]
      BY <2>2, <1>7 DEF OperandsHold
    <3>2. loaded[i] \in Nat
      BY <1>1, <2>2
    <3>3. n \in 0..n
      BY <1>1
    <3> HIDE DEF IInv, n
    <3> QED BY <1>1, <1>2, <1>8, <3>1, <3>2, <3>3
  <2> QED BY <2>1, <2>2, <1>1, <1>7
<1>11. OpsHold'
  <2> SUFFICES ASSUME NEW i \in 1..Len(instrs'), instrs'[i].op # "load",
                      NEW q \in 1..Len(instrs'[i].regs)
               PROVE  instrs'[i].regs[q] < nextReg' /\ IsLoaded(instrs'[i].regs[q], instrs', i - 1)
    BY DEF OpsHold, OpHolds
  <2>1. i \in 1..n
    BY <1>3, <1>6, <1>1
  <2>2. instrs'[i] = instrs[i]
    BY <2>1, <1>6
  <2>3. instrs[i].regs[q] < nextReg /\ IsLoaded(instrs[i].regs[q], instrs, i - 1)
    BY <2>1, <2>2 DEF OpsHold, OpHolds
  <2>4. instrs[i] \in Loads \cup Ops
    BY <1>1, <2>1, ElementOfSeq
  <2>5. instrs[i].regs \in Seq(Nat)
    BY <2>2, <2>4 DEF Loads, Ops
  <2>6. instrs[i].regs[q] \in Nat
    BY <2>2, <2>5, ElementOfSeq
  <2> QED BY <2>1, <2>2, <2>3, <2>6, <1>1, <1>2, <1>8
<1> QED BY <1>2, <1>5, <1>6, <1>7, <1>10, <1>11 DEF RegMapHolds

(* Emitting the operation over the registers just loaded.                  *)
LEMMA OperationEmitted ==
  ASSUME IInv, EmitOp
  PROVE  IInv'
<1> USE DEF IInv
<1> DEFINE n == Len(instrs)
           op == instrs'[n + 1]
<1>1. /\ plan \in Seq([fxn : Functions, cells : Seq(Nat)]) /\ at \in 1..Len(plan)
      /\ nextReg \in Nat /\ loaded \in Seq(Nat) /\ instrs \in Seq(Loads \cup Ops)
  <2>1. plan \in Seq([fxn : Functions, cells : Seq(Nat)])
    BY SourcesAssumption DEF CompileTypes, plan
  <2> QED BY <2>1 DEF CompileTypes, EmitOp, Compiling
<1>2. plan[at].fxn \in Functions
  <2>1. plan[at] \in [fxn : Functions, cells : Seq(Nat)]
    BY <1>1, ElementOfSeq
  <2> QED BY <2>1
<1>3. PICK kind \in {"op", "varop"} :
        instrs' = Append(instrs, [op |-> kind, fxn |-> plan[at].fxn, regs |-> loaded])
  BY DEF EmitOp
<1>4. [op |-> kind, fxn |-> plan[at].fxn, regs |-> loaded] \in Ops
  BY <1>1, <1>2 DEF Ops
<1>5. /\ instrs' \in Seq(Loads \cup Ops) /\ Len(instrs') = n + 1 /\ op.regs = loaded
      /\ \A i \in 1..n : instrs'[i] = instrs[i]
  BY <1>1, <1>3, <1>4
<1> HIDE DEF op
<1>6. ASSUME NEW q, NEW m \in 0..n, IsLoaded(q, instrs, m)
      PROVE  IsLoaded(q, instrs', m)
  <2>1. PICK j \in 1..m : instrs[j].op = "load" /\ instrs[j].dst = q
    BY <1>6 DEF IsLoaded
  <2>2. n \in Nat /\ j \in 1..n
    BY <1>1
  <2>3. instrs'[j] = instrs[j]
    BY <2>2, <1>5
  <2> QED BY <2>1, <2>3 DEF IsLoaded
<1>7. OpsHold'
  <2> SUFFICES ASSUME NEW i \in 1..Len(instrs'), instrs'[i].op # "load",
                      NEW q \in 1..Len(instrs'[i].regs)
               PROVE  instrs'[i].regs[q] < nextReg /\ IsLoaded(instrs'[i].regs[q], instrs', i - 1)
    BY DEF OpsHold, OpHolds, EmitOp
  <2>1. CASE i = n + 1
    <3>1. instrs'[i].regs = loaded /\ i - 1 = n /\ q \in 1..Len(loaded) /\ n \in 0..n
      <4>1. instrs'[i].regs = loaded
        BY <2>1, <1>5 DEF op
      <4>2. n \in Nat
        BY <1>1
      <4> QED BY <2>1, <4>1, <4>2
    <3>2. loaded[q] < nextReg /\ IsLoaded(loaded[q], instrs, n)
      BY <3>1 DEF OperandsHold
    <3> QED BY <3>1, <3>2, <1>6
  <2>2. CASE i \in 1..n
    <3>1. instrs'[i] = instrs[i]
      BY <2>2, <1>5
    <3>2. instrs[i].regs[q] < nextReg /\ IsLoaded(instrs[i].regs[q], instrs, i - 1)
      BY <2>2, <3>1 DEF OpsHold, OpHolds
    <3> QED BY <2>2, <3>1, <3>2, <1>1, <1>6
  <2> QED BY <2>1, <2>2, <1>1, <1>5
<1>8. OperandsHold' /\ RegMapHolds' /\ WellFounded(types)' /\ ConstsHold'
  BY DEF EmitOp, OperandsHold, RegMapHolds, ConstsHold
<1>9. CompileTypes'
  BY <1>5 DEF EmitOp, CompileTypes
<1> QED BY <1>7, <1>8, <1>9

(* A step of the compilation keeps the invariant.                          *)
LEMMA StepHolds ==
  ASSUME IInv, [Compile]_<<source, phase, ctx>>
  PROVE  IInv'
<1>1. CASE LoadRegister
  <2>1. heap[Cell] \in Value /\ CompileConst(heap[Cell])
    BY <1>1, CellInHeap DEF LoadRegister, IInv
  <2>2. /\ types' \in Seq(Kinds) /\ WellFounded(types)'
        /\ consts' \in Seq(Entries) /\ blob' \in Seq(AnyByte) /\ ConstsHold'
    BY <2>1, ConstAppended
  <2>3. /\ loaded' \in Seq(Nat) /\ nextReg' \in Nat /\ instrs' \in Seq(Loads \cup Ops)
        /\ RegMapHolds' /\ OperandsHold' /\ OpsHold'
    BY <1>1, RegisterLoaded
  <2>4. source' = source /\ at' = at
    BY <1>1 DEF LoadRegister
  <2> QED BY <2>2, <2>3, <2>4 DEF IInv, CompileTypes
<1>2. CASE EmitOp
  BY <1>2, OperationEmitted
<1>3. CASE UNCHANGED <<source, ctx>>
  BY <1>3 DEF IInv, CompileTypes, RegMapHolds, OperandsHold, OpsHold, ConstsHold, ctx
<1>4. CASE BeginCompile \/ Panic \/ EndCompile
  BY <1>3, <1>4 DEF BeginCompile, Panic, EndCompile
<1> QED BY <1>1, <1>2, <1>3, <1>4 DEF Compile

LEMMA Invariance == CompileSpec => []IInv
<1>1. Init => IInv
  BY InitHolds
<1>2. IInv /\ [Compile]_<<source, phase, ctx>> => IInv'
  BY StepHolds
<1> QED BY <1>1, <1>2, PTL DEF CompileSpec

-----------------------------------------------------------------------------
(* Theorems.                                                               *)

(* Whatever is compiled, constants lie in the blob, aligned, complete and disjoint. *)
THEOREM ConstantsAreInTheBlob == CompileSpec => []ConstantsInBlob
<1>1. IInv => ConstantsInBlob
  <2> SUFFICES ASSUME IInv, NEW i \in DOMAIN consts
               PROVE  LET c == consts[i]
                      IN /\ c.offset % c.align = 0 /\ c.length = Size[types[c.type + 1]]
                         /\ c.length > 0 => Read(blob, c.offset, c.length).kind = types[c.type + 1]
                         /\ \A j \in 1..(i - 1) : consts[j].offset + consts[j].length <= c.offset
    BY DEF ConstantsInBlob
  <2>0. consts \in Seq(Entries) /\ \A m \in 1..Len(consts) : ConstHolds(consts[m], blob, types)
    BY DEF IInv, CompileTypes, ConstsHold
  <2>1. i \in 1..Len(consts) /\ consts[i] \in Entries /\ ConstHolds(consts[i], blob, types)
    BY <2>0
  <2>2. consts[i].length > 0 => Read(blob, consts[i].offset, consts[i].length) = blob[consts[i].offset + 1].of
    BY <2>1 DEF ConstHolds, Read
  <2> QED BY <2>1, <2>2 DEF ConstHolds, IInv, ConstsHold
<1> QED BY <1>1, Invariance, PTL

(* Type ids are those of one entry each, element types before matrix types.*)
THEOREM TypesAreWellFounded == CompileSpec => []TypesWellFounded
<1>1. IInv => TypesWellFounded
  <2> SUFFICES ASSUME IInv PROVE TypesWellFounded
    OBVIOUS
  <2>1. DOMAIN types = 1..Len(types)
    BY LenProperties DEF IInv, CompileTypes
  <2> QED BY <2>1 DEF IInv, WellFounded, TypesWellFounded
<1> QED BY <1>1, Invariance, PTL

(* Operations read registers that were loaded; cells do not share them.    *)
THEOREM RegistersAreLoaded == CompileSpec => []RegistersLoaded
<1>1. IInv => RegistersLoaded
  <2> SUFFICES ASSUME IInv PROVE RegistersLoaded
    OBVIOUS
  <2>1. \A c, d \in DOMAIN regOf : regOf[c] = regOf[d] => c = d
    BY DEF IInv, RegMapHolds
  <2>2. ASSUME NEW i \in DOMAIN instrs, instrs[i].op # "load", NEW r \in ToSet(instrs[i].regs)
        PROVE  r < nextReg /\ \E j \in 1..(i - 1) : instrs[j].op = "load" /\ instrs[j].dst = r
    <3>1. i \in 1..Len(instrs) /\ instrs \in Seq(Loads \cup Ops)
      BY DEF IInv, CompileTypes
    <3>2. instrs[i] \in Loads \cup Ops
      BY <3>1, ElementOfSeq
    <3>3. instrs[i].regs \in Seq(Nat)
      BY <2>2, <3>2 DEF Loads, Ops
    <3>4. PICK k \in 1..Len(instrs[i].regs) : r = instrs[i].regs[k]
      BY <3>3 DEF ToSet
    <3> QED BY <2>2, <3>1, <3>4 DEF IInv, OpsHold, OpHolds, IsLoaded
  <2> QED BY <2>1, <2>2 DEF RegistersLoaded
<1> QED BY <1>1, Invariance, PTL

-----------------------------------------------------------------------------
(* Sequences of sequences, one after the other.                            *)

(* f gives what the first i sequences of s are when flattened.             *)
IsFlat(f, s, n) == \A i \in 1..n : f[i] = IF i = 1 THEN s[i] ELSE f[i - 1] \o s[i]

SameUpTo(s, t, n) == \A i \in 1..n : s[i] = t[i]

LEMMA FlatExists ==
  ASSUME NEW S, NEW s \in Seq(Seq(S))
  PROVE  \A n \in 1..Len(s) : \E f \in [1..n -> Seq(S)] : IsFlat(f, s, n)
<1> DEFINE D == {n \in Nat : n \in 1..Len(s) => \E f \in [1..n -> Seq(S)] : IsFlat(f, s, n)}
<1>1. 0 \in D
  OBVIOUS
<1>2. ASSUME NEW n \in Nat, n \in D PROVE n + 1 \in D
  <2> SUFFICES ASSUME n + 1 \in 1..Len(s)
               PROVE  \E f \in [1..(n + 1) -> Seq(S)] : IsFlat(f, s, n + 1)
    OBVIOUS
  <2>1. s[n + 1] \in Seq(S)
    BY ElementOfSeq
  <2>2. CASE n = 0
    <3> DEFINE g == [i \in 1..1 |-> s[1]]
    <3>1. g \in [1..1 -> Seq(S)] /\ IsFlat(g, s, 1)
      BY <2>1, <2>2 DEF IsFlat
    <3> QED BY <3>1, <2>2
  <2>3. CASE n # 0
    <3>1. PICK f \in [1..n -> Seq(S)] : IsFlat(f, s, n)
      BY <1>2, <2>3
    <3> DEFINE g == [i \in 1..(n + 1) |-> IF i = n + 1 THEN f[n] \o s[n + 1] ELSE f[i]]
    <3>2. f[n] \o s[n + 1] \in Seq(S)
      <4>1. f[n] \in Seq(S)
        BY <2>3
      <4> QED BY <4>1, <2>1
    <3>3. g \in [1..(n + 1) -> Seq(S)]
      BY <3>2
    <3>4. IsFlat(g, s, n + 1)
      <4> SUFFICES ASSUME NEW i \in 1..(n + 1)
                   PROVE  g[i] = IF i = 1 THEN s[i] ELSE g[i - 1] \o s[i]
        BY DEF IsFlat
      <4>1. CASE i = n + 1
        <5>1. i # 1 /\ i - 1 = n /\ n \in 1..(n + 1)
          BY <4>1, <2>3
        <5>2. g[i - 1] = f[n] /\ g[i] = f[n] \o s[n + 1]
          BY <4>1, <5>1, <2>3
        <5> QED BY <4>1, <5>1, <5>2
      <4>2. CASE i \in 1..n
        <5>1. i # n + 1 /\ (i # 1 => i - 1 \in 1..(n + 1) /\ i - 1 # n + 1)
          BY <4>2
        <5>2. f[i] = IF i = 1 THEN s[i] ELSE f[i - 1] \o s[i]
          BY <4>2, <3>1 DEF IsFlat
        <5> QED BY <4>2, <5>1, <5>2
      <4> QED BY <4>1, <4>2
    <3> QED BY <3>3, <3>4
  <2> QED BY <2>2, <2>3
<1>3. Nat \subseteq D
  <2> HIDE DEF D
  <2> QED BY <1>1, <1>2, NatSetInduction
<1> QED BY <1>3

LEMMA FlatUpTo ==
  ASSUME NEW f, NEW s, NEW m \in Nat, IsFlat(f, s, m), NEW k \in 0..m
  PROVE  IsFlat(f, s, k)
<1> SUFFICES ASSUME NEW i \in 1..k
             PROVE  f[i] = IF i = 1 THEN s[i] ELSE f[i - 1] \o s[i]
  BY DEF IsFlat
<1>1. i \in 1..m
  OBVIOUS
<1> QED BY <1>1, Zenon DEF IsFlat

LEMMA FlatStep ==
  ASSUME NEW f, NEW s, NEW m \in Nat, IsFlat(f, s, m), NEW k \in 2..m
  PROVE  f[k] = f[k - 1] \o s[k]
<1>1. k \in 1..m /\ k # 1
  OBVIOUS
<1> QED BY <1>1, Zenon DEF IsFlat

LEMMA FlatAgree ==
  ASSUME NEW s, NEW t, NEW f, NEW g, NEW m \in Nat,
         IsFlat(f, s, m), IsFlat(g, t, m), SameUpTo(s, t, m)
  PROVE  SameUpTo(f, g, m)
<1> DEFINE D == {i \in Nat : i \in 1..m => f[i] = g[i]}
<1>1. 0 \in D
  OBVIOUS
<1>2. ASSUME NEW i \in Nat, i \in D PROVE i + 1 \in D
  BY <1>2 DEF IsFlat, SameUpTo
<1>3. Nat \subseteq D
  <2> HIDE DEF D
  <2> QED BY <1>1, <1>2, NatSetInduction
<1> QED BY <1>3 DEF SameUpTo

LEMMA FlattenIsFlat ==
  ASSUME NEW S, NEW s \in Seq(Seq(S)), Len(s) > 0
  PROVE  \E f \in [1..Len(s) -> Seq(S)] : IsFlat(f, s, Len(s)) /\ FlattenSeq(s) = f[Len(s)]
<1> DEFINE n == Len(s)
           F(f) == f = [i \in 1..n |-> IF i = 1 THEN s[i] ELSE f[i - 1] \o s[i]]
           flat == CHOOSE f : F(f)
<1>1. PICK f \in [1..n -> Seq(S)] : IsFlat(f, s, n)
  BY FlatExists
<1>2. F(f)
  BY <1>1 DEF IsFlat
<1>3. F(flat)
  BY <1>2
<1>4. FlattenSeq(s) = flat[n]
  BY DEF FlattenSeq
<1>5. IsFlat(flat, s, n)
  <2> HIDE DEF flat
  <2> QED BY <1>3 DEF IsFlat
<1>6. \A i \in 1..n : flat[i] = f[i]
  <2> HIDE DEF flat, F
  <2>1. n \in Nat
    OBVIOUS
  <2> HIDE DEF n
  <2>2. SameUpTo(s, s, n)
    BY DEF SameUpTo
  <2>3. SameUpTo(flat, f, n)
    BY <1>1, <1>5, <2>1, <2>2, FlatAgree
  <2> QED BY <2>3 DEF SameUpTo
<1>7. n \in 1..n /\ f \in [1..n -> Seq(S)]
  BY <1>1
<1> HIDE DEF flat, F
<1> QED BY <1>1, <1>4, <1>6, <1>7

(* What FlattenSeq gives, one sequence at a time.                          *)
LEMMA FlattenType ==
  ASSUME NEW S, NEW s \in Seq(Seq(S))
  PROVE  FlattenSeq(s) \in Seq(S) /\ (Len(s) = 0 => FlattenSeq(s) = <<>>)
<1>1. CASE Len(s) = 0
  BY <1>1 DEF FlattenSeq
<1>2. CASE Len(s) > 0
  BY <1>2, FlattenIsFlat
<1> QED BY <1>1, <1>2

LEMMA FlattenAppend ==
  ASSUME NEW S, NEW s \in Seq(Seq(S)), NEW x \in Seq(S)
  PROVE  FlattenSeq(Append(s, x)) = FlattenSeq(s) \o x
<1> DEFINE t == Append(s, x)
           n == Len(s)
<1>1. t \in Seq(Seq(S)) /\ Len(t) = n + 1 /\ t[n + 1] = x /\ \A i \in 1..n : t[i] = s[i]
  OBVIOUS
<1>0. n \in Nat
  OBVIOUS
<1> HIDE DEF t, n
<1>2. PICK g \in [1..(n + 1) -> Seq(S)] : IsFlat(g, t, n + 1) /\ FlattenSeq(t) = g[n + 1]
  <2>1. Len(t) > 0
    BY <1>0, <1>1
  <2>2. \E g \in [1..Len(t) -> Seq(S)] : IsFlat(g, t, Len(t)) /\ FlattenSeq(t) = g[Len(t)]
    BY <1>1, <2>1, FlattenIsFlat
  <2> QED BY <1>1, <2>2
<1>3. CASE n = 0
  <2>1. g[1] = x
    BY <1>1, <1>2, <1>3 DEF IsFlat
  <2>2. FlattenSeq(s) = <<>>
    BY <1>3, FlattenType DEF n
  <2> QED BY <1>2, <1>3, <2>1, <2>2 DEF t
<1>4. CASE n > 0
  <2>1. PICK f \in [1..n -> Seq(S)] : IsFlat(f, s, n) /\ FlattenSeq(s) = f[n]
    BY <1>4, FlattenIsFlat DEF n
  <2>2. IsFlat(g, t, n)
    BY <1>0, <1>2, FlatUpTo
  <2>3. f[n] = g[n]
    <3>1. SameUpTo(s, t, n)
      BY <1>1 DEF SameUpTo
    <3>2. SameUpTo(f, g, n)
      BY <1>0, <3>1, <2>1, <2>2, FlatAgree
    <3> QED BY <1>0, <1>4, <3>2 DEF SameUpTo
  <2>4. g[n + 1] = g[n] \o t[n + 1]
    <3>1. n + 1 \in Nat /\ n + 1 \in 2..(n + 1) /\ (n + 1) - 1 = n
      BY <1>0, <1>4
    <3>2. g[n + 1] = g[(n + 1) - 1] \o t[n + 1]
      BY <1>0, <1>2, <3>1, FlatStep, Zenon
    <3> QED BY <3>1, <3>2
  <2> QED BY <1>1, <1>2, <2>1, <2>3, <2>4 DEF t
<1> QED BY <1>0, <1>3, <1>4

-----------------------------------------------------------------------------
(* Where things lie.                                                       *)

(* The bytes are in the file, behind its first pos ones.                   *)
Holds(file, pos, bytes) ==
  /\ pos + Len(bytes) <= Len(file)
  /\ \A i \in 1..Len(bytes) : file[pos + i] = bytes[i]

(* The first k sequences of s, flattened.                                  *)
Upto(s, k) == FlattenSeq(SubSeq(s, 1, k))

LEMMA UptoStep ==
  ASSUME NEW S, NEW s \in Seq(Seq(S)), NEW k \in 1..Len(s)
  PROVE  /\ Upto(s, k) \in Seq(S) /\ Upto(s, k - 1) \in Seq(S) /\ s[k] \in Seq(S)
         /\ Upto(s, k) = Upto(s, k - 1) \o s[k]
         /\ Len(Upto(s, k)) = Len(Upto(s, k - 1)) + Len(s[k])
<1> DEFINE t == SubSeq(s, 1, k - 1)
<1>1. t \in Seq(Seq(S)) /\ SubSeq(s, 1, k) \in Seq(Seq(S)) /\ s[k] \in Seq(S)
  OBVIOUS
<1>2. SubSeq(s, 1, k) = Append(t, s[k])
  <2>1. Len(SubSeq(s, 1, k)) = k /\ Len(Append(t, s[k])) = k
    OBVIOUS
  <2>2. \A i \in 1..k : SubSeq(s, 1, k)[i] = s[i] /\ Append(t, s[k])[i] = s[i]
    OBVIOUS
  <2>3. SubSeq(s, 1, k) \in Seq(Seq(S)) /\ Append(t, s[k]) \in Seq(Seq(S))
    OBVIOUS
  <2> HIDE DEF t
  <2> QED BY <2>1, <2>2, <2>3, SeqEqual
<1> HIDE DEF t
<1>3. FlattenSeq(Append(t, s[k])) = FlattenSeq(t) \o s[k]
  BY <1>1, FlattenAppend
<1>4. FlattenSeq(t) \in Seq(S) /\ FlattenSeq(SubSeq(s, 1, k)) \in Seq(S)
  BY <1>1, FlattenType
<1>5. Len(FlattenSeq(t) \o s[k]) = Len(FlattenSeq(t)) + Len(s[k])
  BY <1>1, <1>4
<1>6. Upto(s, k - 1) = FlattenSeq(t) /\ Upto(s, k) = FlattenSeq(t) \o s[k]
  BY <1>2, <1>3 DEF Upto, t
<1> QED BY <1>1, <1>4, <1>5, <1>6 DEF Upto

LEMMA UptoEnds ==
  ASSUME NEW S, NEW s \in Seq(Seq(S))
  PROVE  Upto(s, 0) = <<>> /\ Upto(s, Len(s)) = FlattenSeq(s)
<1>1. SubSeq(s, 1, Len(s)) = s
  <2>1. SubSeq(s, 1, Len(s)) \in Seq(Seq(S)) /\ Len(SubSeq(s, 1, Len(s))) = Len(s)
    OBVIOUS
  <2>2. \A i \in 1..Len(s) : SubSeq(s, 1, Len(s))[i] = s[i]
    OBVIOUS
  <2> QED BY <2>1, <2>2, SeqEqual
<1>2. SubSeq(s, 1, 0) = <<>>
  OBVIOUS
<1>3. FlattenSeq(<<>>) = <<>>
  <2>1. Len(<<>>) = 0
    OBVIOUS
  <2> QED BY <2>1 DEF FlattenSeq
<1> QED BY <1>1, <1>2, <1>3 DEF Upto

LEMMA HoldsParts ==
  ASSUME NEW file, NEW S, NEW pos \in Nat, NEW a \in Seq(S), NEW b \in Seq(S), Len(file) \in Nat,
         Holds(file, pos, a \o b)
  PROVE  Holds(file, pos, a) /\ Holds(file, pos + Len(a), b)
<1>1. Len(a \o b) = Len(a) + Len(b) /\ Len(a) \in Nat /\ Len(b) \in Nat
  OBVIOUS
<1>2. ASSUME NEW i \in 1..Len(a) PROVE file[pos + i] = a[i]
  <2>1. i \in 1..Len(a \o b) /\ (a \o b)[i] = a[i]
    BY <1>1
  <2> QED BY <2>1 DEF Holds
<1>3. ASSUME NEW i \in 1..Len(b) PROVE file[(pos + Len(a)) + i] = b[i]
  <2>1. Len(a) + i \in 1..Len(a \o b) /\ (a \o b)[Len(a) + i] = b[i]
    BY <1>1
  <2>2. file[pos + (Len(a) + i)] = b[i]
    BY <2>1 DEF Holds
  <2>3. pos + (Len(a) + i) = (pos + Len(a)) + i
    BY <1>1
  <2> QED BY <2>2, <2>3
<1> QED BY <1>1, <1>2, <1>3 DEF Holds

(* Each of the sequences lies behind the ones before it.                   *)
LEMMA HoldsEach ==
  ASSUME NEW file, NEW S, NEW pos \in Nat, NEW s \in Seq(Seq(S)), Len(file) \in Nat,
         Holds(file, pos, FlattenSeq(s)), NEW k \in 1..Len(s)
  PROVE  /\ Holds(file, pos + Len(Upto(s, k - 1)), s[k])
         /\ pos + Len(Upto(s, k - 1)) \in Nat
<1> DEFINE n == Len(s)
           D == {d \in Nat : d <= n => Holds(file, pos, Upto(s, n - d))}
<1>0. n \in Nat
  OBVIOUS
<1>1. 0 \in D
  <2>1. n - 0 = n
    OBVIOUS
  <2> QED BY <2>1, UptoEnds
<1>2. ASSUME NEW d \in Nat, d \in D PROVE d + 1 \in D
  <2> SUFFICES ASSUME d + 1 <= n PROVE Holds(file, pos, Upto(s, n - (d + 1)))
    OBVIOUS
  <2>1. n - d \in 1..n /\ (n - d) - 1 = n - (d + 1)
    BY <1>0
  <2>2. Holds(file, pos, Upto(s, n - d))
    BY <1>2
  <2>3. /\ Upto(s, n - d) = Upto(s, (n - d) - 1) \o s[n - d]
        /\ Upto(s, (n - d) - 1) \in Seq(S) /\ s[n - d] \in Seq(S)
    BY <2>1, UptoStep
  <2> HIDE DEF n, D
  <2> QED BY <2>1, <2>2, <2>3, HoldsParts
<1>3. n - k \in D
  <2>1. Nat \subseteq D
    <3> HIDE DEF D
    <3> QED BY <1>1, <1>2, NatSetInduction
  <2>2. n - k \in Nat
    OBVIOUS
  <2> HIDE DEF D
  <2> QED BY <2>1, <2>2
<1>4. Holds(file, pos, Upto(s, k))
  <2>1. n - (n - k) = k /\ n - k <= n
    OBVIOUS
  <2> QED BY <1>3, <2>1
<1>5. /\ Upto(s, k) = Upto(s, k - 1) \o s[k]
      /\ Upto(s, k - 1) \in Seq(S) /\ s[k] \in Seq(S)
  BY UptoStep
<1>6. pos + Len(Upto(s, k - 1)) \in Nat
  BY <1>5
<1> QED BY <1>4, <1>5, <1>6, HoldsParts

-----------------------------------------------------------------------------
(* Reading what was written.                                               *)

LEMMA ReadsBack ==
  ASSUME NEW file, NEW pos \in Nat, NEW v, NEW w \in Nat \ {0}, Holds(file, pos, Bytes(v, w))
  PROVE  Read(file, pos, w) = v
<1>1. Len(Bytes(v, w)) = w /\ \A i \in 1..w : Bytes(v, w)[i] = [of |-> v, part |-> i, width |-> w]
  BY DEF Bytes, Byte
<1>2. pos + w <= Len(file) /\ \A i \in 1..w : file[pos + i] = [of |-> v, part |-> i, width |-> w]
  BY <1>1 DEF Holds
<1>3. \A i \in 1..w : file[pos + i].of = v /\ file[pos + i].part = i /\ file[pos + i].width = w
  <2> SUFFICES ASSUME NEW i \in 1..w
               PROVE  file[pos + i].of = v /\ file[pos + i].part = i /\ file[pos + i].width = w
    OBVIOUS
  <2>1. file[pos + i] = [of |-> v, part |-> i, width |-> w]
    BY <1>2
  <2> QED BY <2>1
<1>4. file[pos + 1].of = v
  BY <1>3
<1> QED BY <1>2, <1>3, <1>4, Zenon DEF Read

(* one reads each item where its bytes lie.                                *)
ReadsItems(file, s, items, one) ==
  \A k \in 1..Len(s) : \A p \in Nat :
    Holds(file, p, s[k]) => one[p] = Item(items[k], p + Len(s[k]))

(* Items whose bytes lie one behind the other are read one by one.         *)
LEMMA ManyRead ==
  ASSUME NEW file, NEW S, NEW pos \in Nat, NEW s \in Seq(Seq(S)), Len(file) \in Nat,
         Holds(file, pos, FlattenSeq(s)),
         NEW T, NEW items \in Seq(T), Len(items) = Len(s), NEW one, ReadsItems(file, s, items, one)
  PROVE  Many(Len(s), pos, one) = Item(items, pos + Len(FlattenSeq(s)))
<1> DEFINE n == Len(s)
           Next1(r) == Item(Append(r.item, one[r.next].item), one[r.next].next)
           R(f) == f = [i \in 0..n |-> IF i = 0 THEN Item(<<>>, pos) ELSE Next1(f[i - 1])]
           w == [i \in 0..n |-> Item(SubSeq(items, 1, i), pos + Len(Upto(s, i)))]
           read == CHOOSE f : R(f)
<1>0. n \in Nat /\ n = Len(items)
  OBVIOUS
<1>1. ASSUME NEW i \in 1..n
      PROVE  Next1(w[i - 1]) = w[i]
  <2> DEFINE p == pos + Len(Upto(s, i - 1))
  <2>1. i - 1 \in 0..n /\ i \in 0..n
    BY <1>0
  <2>2. w[i - 1].item = SubSeq(items, 1, i - 1) /\ w[i - 1].next = p
    BY <2>1 DEF Item
  <2>3. Holds(file, p, s[i]) /\ p \in Nat
    BY HoldsEach
  <2>4. one[p].item = items[i] /\ one[p].next = p + Len(s[i])
    <3>1. one[p] = Item(items[i], p + Len(s[i]))
      <4> HIDE DEF p
      <4> QED BY <2>3 DEF ReadsItems
    <3> QED BY <3>1 DEF Item
  <2>5. p + Len(s[i]) = pos + Len(Upto(s, i))
    <3>1. Len(Upto(s, i)) = Len(Upto(s, i - 1)) + Len(s[i])
      BY UptoStep
    <3>2. Len(Upto(s, i - 1)) \in Nat /\ Len(s[i]) \in Nat
      BY UptoStep, LenProperties
    <3> DEFINE a == Len(Upto(s, i - 1))
               b == Len(s[i])
               c == Len(Upto(s, i))
    <3>3. a \in Nat /\ b \in Nat /\ c = a + b
      BY <3>1, <3>2
    <3> HIDE DEF a, b, c
    <3>4. (pos + a) + b = pos + c
      BY <3>3
    <3> QED BY <3>4 DEF a, b, c
  <2>6. Append(SubSeq(items, 1, i - 1), items[i]) = SubSeq(items, 1, i)
    <3>1. i \in 1..Len(items) /\ items[i] \in T
      BY <1>0
    <3> DEFINE a == Append(SubSeq(items, 1, i - 1), items[i])
               b == SubSeq(items, 1, i)
    <3>2. a \in Seq(T) /\ b \in Seq(T) /\ Len(a) = i /\ Len(b) = i
      BY <3>1
    <3>3. \A j \in 1..i : a[j] = items[j] /\ b[j] = items[j]
      BY <3>1
    <3> HIDE DEF a, b
    <3>4. a = b
      BY <3>2, <3>3, SeqEqual
    <3> QED BY <3>4 DEF a, b
  <2> HIDE DEF p
  <2>7. Next1(w[i - 1]) = Item(SubSeq(items, 1, i), pos + Len(Upto(s, i)))
    <3> HIDE DEF w
    <3> QED BY <2>2, <2>4, <2>5, <2>6
  <2> QED BY <2>1, <2>7
<1>2. R(w)
  <2>1. w[0] = Item(<<>>, pos)
    <3>1. SubSeq(items, 1, 0) = <<>> /\ Upto(s, 0) = <<>> /\ Len(<<>>) = 0 /\ 0 \in 0..n
      BY UptoEnds
    <3>2. w[0] = Item(SubSeq(items, 1, 0), pos + Len(Upto(s, 0)))
      BY <3>1
    <3>3. pos + Len(Upto(s, 0)) = pos
      <4> DEFINE l == Len(Upto(s, 0))
      <4>1. l = 0
        BY <3>1
      <4> HIDE DEF l
      <4>2. pos + l = pos
        BY <4>1
      <4> QED BY <4>2 DEF l
    <3> HIDE DEF w
    <3> QED BY <3>1, <3>2, <3>3
  <2> DEFINE v == [i \in 0..n |-> IF i = 0 THEN Item(<<>>, pos) ELSE Next1(w[i - 1])]
  <2>2. ASSUME NEW i \in 0..n PROVE w[i] = v[i]
    <3>1. i = 0 \/ i \in 1..n
      OBVIOUS
    <3> HIDE DEF w, Next1
    <3>2. v[i] = IF i = 0 THEN Item(<<>>, pos) ELSE Next1(w[i - 1])
      OBVIOUS
    <3> QED BY <1>1, <2>1, <3>1, <3>2
  <2>3. w = [i \in 0..n |-> w[i]]
    OBVIOUS
  <2> HIDE DEF w, Next1
  <2> QED BY <2>2, <2>3
<1>3. R(read)
  <2> HIDE DEF R, w
  <2> QED BY <1>2
<1>4. Many(n, pos, one) = read[n]
  BY DEF Many
<1> HIDE DEF read
<1>5. ASSUME NEW i \in 0..n PROVE read[i] = w[i]
  <2> DEFINE D == {j \in Nat : j \in 0..n => read[j] = w[j]}
  <2>1. 0 \in D
    <3>1. read[0] = Item(<<>>, pos)
      BY <1>0, <1>3
    <3>2. w[0] = Item(<<>>, pos)
      <4> HIDE DEF w
      <4> QED BY <1>0, <1>2
    <3> QED BY <3>1, <3>2
  <2>2. ASSUME NEW j \in Nat, j \in D PROVE j + 1 \in D
    <3> SUFFICES ASSUME j + 1 \in 0..n PROVE read[j + 1] = w[j + 1]
      OBVIOUS
    <3> HIDE DEF w
    <3>1. j \in 0..n /\ (j + 1) - 1 = j /\ j + 1 # 0
      BY <1>0
    <3>2. read[j + 1] = Next1(read[j])
      BY <1>3, <3>1
    <3>3. w[j + 1] = Next1(w[j])
      BY <1>2, <3>1
    <3>4. read[j] = w[j]
      BY <2>2, <3>1
    <3> QED BY <3>2, <3>3, <3>4
  <2>3. Nat \subseteq D
    <3> HIDE DEF D
    <3> QED BY <2>1, <2>2, NatSetInduction
  <2> HIDE DEF w
  <2>4. i \in Nat /\ i \in D
    <3>1. i \in Nat
      OBVIOUS
    <3> HIDE DEF D
    <3> QED BY <2>3, <3>1
  <2> QED BY <2>4
<1>6. w[n] = Item(items, pos + Len(FlattenSeq(s)))
  <2>1. SubSeq(items, 1, n) = items
    <3>1. SubSeq(items, 1, n) \in Seq(T) /\ Len(SubSeq(items, 1, n)) = n
      BY <1>0
    <3>2. \A j \in 1..n : SubSeq(items, 1, n)[j] = items[j]
      BY <1>0
    <3> QED BY <1>0, <3>1, <3>2, SeqEqual
  <2>2. Upto(s, n) = FlattenSeq(s) /\ n \in 0..n
    BY <1>0, UptoEnds
  <2> QED BY <2>1, <2>2
<1> QED BY <1>0, <1>4, <1>5, <1>6

(* Later sequences lie further on, each taking its bytes.                  *)
LEMMA UptoGrows ==
  ASSUME NEW S, NEW s \in Seq(Seq(S)), NEW m \in Nat, \A k \in 1..Len(s) : Len(s[k]) >= m,
         NEW i \in 0..Len(s)
  PROVE  \A d \in Nat : i + d <= Len(s) => Len(Upto(s, i)) + m * d <= Len(Upto(s, i + d))
<1> DEFINE D == {d \in Nat : i + d <= Len(s) => Len(Upto(s, i)) + m * d <= Len(Upto(s, i + d))}
<1>1. Len(Upto(s, i)) \in Nat
  <2>1. CASE i = 0
    <3>1. Upto(s, 0) = <<>> /\ Len(<<>>) = 0
      BY UptoEnds
    <3> QED BY <2>1, <3>1
  <2>2. CASE i # 0
    <3>1. i \in 1..Len(s)
      BY <2>2
    <3>2. Upto(s, i) \in Seq(S)
      BY <3>1, UptoStep
    <3> QED BY <3>2, LenProperties
  <2> QED BY <2>1, <2>2
<1>2. 0 \in D
  <2>1. i + 0 = i /\ m * 0 = 0
    OBVIOUS
  <2>2. Len(Upto(s, i)) + m * 0 <= Len(Upto(s, i + 0))
    BY <1>1, <2>1
  <2> QED BY <2>2
<1>3. ASSUME NEW d \in Nat, d \in D PROVE d + 1 \in D
  <2> SUFFICES ASSUME i + (d + 1) <= Len(s)
               PROVE  Len(Upto(s, i)) + m * (d + 1) <= Len(Upto(s, i + (d + 1)))
    OBVIOUS
  <2> DEFINE k == i + (d + 1)
  <2>1. k \in 1..Len(s) /\ k - 1 = i + d /\ i + d <= Len(s)
    OBVIOUS
  <2>2. Len(Upto(s, k)) = Len(Upto(s, k - 1)) + Len(s[k]) /\ Upto(s, k - 1) \in Seq(S) /\ s[k] \in Seq(S)
    BY <2>1, UptoStep
  <2>3. Len(s[k]) >= m /\ Len(s[k]) \in Nat /\ Len(Upto(s, k - 1)) \in Nat
    BY <2>1, <2>2, LenProperties
  <2>4. Len(Upto(s, i)) + m * d <= Len(Upto(s, k - 1))
    <3>1. Len(Upto(s, i)) + m * d <= Len(Upto(s, i + d))
      BY <1>3, <2>1
    <3> QED BY <2>1, <3>1
  <2>5. m * (d + 1) = m * d + m /\ m * d \in Nat
    OBVIOUS
  <2> DEFINE a == Len(Upto(s, i))
             b == Len(Upto(s, k - 1))
             c == Len(s[k])
             e == m * d
  <2>6. a \in Nat /\ b \in Nat /\ c \in Nat /\ e \in Nat /\ a + e <= b /\ m <= c
    BY <1>1, <2>3, <2>4, <2>5
  <2>7. Len(Upto(s, k)) = b + c
    BY <2>2
  <2> HIDE DEF a, b, c, e
  <2>8. a + (e + m) <= b + c
    BY <2>6
  <2> QED BY <2>5, <2>7, <2>8 DEF a, e
<1>4. Nat \subseteq D
  <2> HIDE DEF D
  <2> QED BY <1>2, <1>3, NatSetInduction
<1> QED BY <1>4

ReadsInstrs(file, s, items) ==
  \A k \in 1..Len(s) : \A p \in Nat :
    Holds(file, p, s[k]) => ReadInstr(file, p) = Item(items[k], p + Len(s[k]))

AtLeastEight(s) == \A k \in 1..Len(s) : Len(s[k]) >= 8

(* decode_instructions stops where the section ends, behind the last of them. *)
LEMMA InstrsRead ==
  ASSUME NEW file, NEW S, NEW pos \in Nat, NEW s \in Seq(Seq(S)), Len(file) \in Nat,
         Holds(file, pos, FlattenSeq(s)), AtLeastEight(s),
         NEW T, NEW items \in Seq(T), Len(items) = Len(s), Unknown \notin T,
         ReadsInstrs(file, s, items)
  PROVE  ReadInstrs(file, pos, pos + Len(FlattenSeq(s))) = items
<1> DEFINE n == Len(s)
           total == Len(FlattenSeq(s))
           end == pos + total
           Next1(r) == LET i == ReadInstr(file, r.next)
                       IN IF r.next >= end \/ Contains(r.item, Unknown) THEN r
                          ELSE IF end - r.next < 8 THEN Item(Append(r.item, Unknown), end)
                          ELSE Item(Append(r.item, i.item), i.next)
           R(f) == f = [i \in 0..(end - pos) |-> IF i = 0 THEN Item(<<>>, pos) ELSE Next1(f[i - 1])]
           Part(i) == Item(SubSeq(items, 1, i), pos + Len(Upto(s, i)))
           w == [i \in 0..(end - pos) |-> IF i <= n THEN Part(i) ELSE Part(n)]
           read == CHOOSE f : R(f)
<1>0. n \in Nat /\ n = Len(items) /\ total \in Nat /\ end - pos = total /\ end \in Nat
  BY FlattenType, LenProperties
<1>1. Upto(s, 0) = <<>> /\ Len(<<>>) = 0 /\ Upto(s, n) = FlattenSeq(s)
  BY UptoEnds
<1>2. \A i \in 0..n : /\ Len(Upto(s, i)) \in Nat
                      /\ Len(Upto(s, i)) + 8 * (n - i) <= total
  <2> SUFFICES ASSUME NEW i \in 0..n
               PROVE  Len(Upto(s, i)) \in Nat /\ Len(Upto(s, i)) + 8 * (n - i) <= total
    OBVIOUS
  <2>1. Len(Upto(s, i)) \in Nat
    <3>1. i = 0 \/ i \in 1..n
      OBVIOUS
    <3>2. i \in 1..n => Upto(s, i) \in Seq(S)
      BY UptoStep
    <3> QED BY <3>1, <3>2, <1>1, LenProperties
  <2>2. n - i \in Nat /\ i + (n - i) = n /\ n <= n
    BY <1>0
  <2>3. Len(Upto(s, i)) + 8 * (n - i) <= Len(Upto(s, i + (n - i)))
    BY <2>2, UptoGrows DEF AtLeastEight
  <2> QED BY <2>1, <2>2, <2>3, <1>1
<1>3. n <= total
  <2>1. 0 \in 0..n /\ n - 0 = n
    BY <1>0
  <2>2. Len(Upto(s, 0)) + 8 * (n - 0) <= total
    BY <1>2, <2>1
  <2> QED BY <1>0, <1>1, <2>1, <2>2
<1> HIDE DEF end, total
<1>4. \A i \in 0..n : ~Contains(SubSeq(items, 1, i), Unknown)
  <2> SUFFICES ASSUME NEW i \in 0..n, Contains(SubSeq(items, 1, i), Unknown) PROVE FALSE
    OBVIOUS
  <2>1. SubSeq(items, 1, i) \in Seq(T)
    BY <1>0
  <2> QED BY <2>1 DEF Contains
<1>5. ASSUME NEW i \in 1..n PROVE Next1(Part(i - 1)) = Part(i)
  <2> DEFINE p == pos + Len(Upto(s, i - 1))
             before == SubSeq(items, 1, i - 1)
  <2>1. Part(i - 1).item = before /\ Part(i - 1).next = p
    BY DEF Item
  <2>2. Holds(file, p, s[i]) /\ p \in Nat
    BY HoldsEach
  <2>3. ReadInstr(file, p).item = items[i] /\ ReadInstr(file, p).next = p + Len(s[i])
    <3> HIDE DEF p
    <3>1. ReadInstr(file, p) = Item(items[i], p + Len(s[i]))
      BY <2>2 DEF ReadsInstrs
    <3>2. Item(items[i], p + Len(s[i])).item = items[i] /\ Item(items[i], p + Len(s[i])).next = p + Len(s[i])
      BY DEF Item
    <3> QED BY <3>1, <3>2
  <2>4. p + Len(s[i]) = pos + Len(Upto(s, i))
    <3> DEFINE a == Len(Upto(s, i - 1))
               b == Len(s[i])
               c == Len(Upto(s, i))
    <3>1. a \in Nat /\ b \in Nat /\ c = a + b
      BY UptoStep, LenProperties
    <3> HIDE DEF a, b, c
    <3>2. (pos + a) + b = pos + c
      BY <3>1
    <3> QED BY <3>2 DEF a, b, c
  <2>5. p + 8 <= end
    <3>1. i - 1 \in 0..n /\ n - (i - 1) >= 1
      BY <1>0
    <3>2. Len(Upto(s, i - 1)) \in Nat /\ Len(Upto(s, i - 1)) + 8 * (n - (i - 1)) <= total
      BY <1>2, <3>1
    <3> DEFINE a == Len(Upto(s, i - 1))
    <3> HIDE DEF a
    <3>3. a \in Nat /\ a + 8 * (n - (i - 1)) <= total
      BY <3>2 DEF a
    <3>4. a + 8 <= total
      BY <3>1, <3>3, <1>0
    <3> QED BY <3>3, <3>4, <1>0 DEF a, end
  <2>6. ~(p >= end) /\ ~(end - p < 8)
    BY <2>2, <2>5, <1>0
  <2>7. ~Contains(before, Unknown)
    BY <1>4
  <2>8. Append(before, items[i]) = SubSeq(items, 1, i)
    <3>1. i \in 1..Len(items) /\ items[i] \in T
      BY <1>0
    <3> DEFINE a == Append(before, items[i])
               b == SubSeq(items, 1, i)
    <3>2. a \in Seq(T) /\ b \in Seq(T) /\ Len(a) = i /\ Len(b) = i
      BY <3>1
    <3>3. \A j \in 1..i : a[j] = items[j] /\ b[j] = items[j]
      BY <3>1
    <3> HIDE DEF a, b
    <3>4. a = b
      BY <3>2, <3>3, SeqEqual
    <3> QED BY <3>4 DEF a, b
  <2>9. Next1(Part(i - 1)) = Item(Append(before, items[i]), p + Len(s[i]))
    <3> HIDE DEF Part, p, before
    <3> QED BY <2>1, <2>3, <2>6, <2>7
  <2> HIDE DEF p
  <2> QED BY <2>4, <2>8, <2>9
<1>6. Next1(Part(n)) = Part(n)
  <2>1. Part(n).next = end
    BY <1>1 DEF Item, end, total
  <2>2. end >= end
    BY <1>0
  <2> HIDE DEF Part
  <2> QED BY <2>1, <2>2
<1>7. Part(0) = Item(<<>>, pos)
  <2>1. SubSeq(items, 1, 0) = <<>> /\ pos + Len(Upto(s, 0)) = pos
    <3> DEFINE l == Len(Upto(s, 0))
    <3>1. l = 0
      BY <1>1
    <3> HIDE DEF l
    <3>2. pos + l = pos
      BY <3>1
    <3> QED BY <3>2 DEF l
  <2> QED BY <2>1
<1>8. Part(n).item = items
  <2>1. SubSeq(items, 1, n) = items
    <3>1. SubSeq(items, 1, n) \in Seq(T) /\ Len(SubSeq(items, 1, n)) = n
      BY <1>0
    <3>2. \A j \in 1..n : SubSeq(items, 1, n)[j] = items[j]
      BY <1>0
    <3> QED BY <1>0, <3>1, <3>2, SeqEqual
  <2> QED BY <2>1 DEF Item
<1> HIDE DEF Part, Next1
<1>9. \A i \in 0..(end - pos) : w[i] = IF i = 0 THEN Item(<<>>, pos) ELSE Next1(w[i - 1])
  <2> SUFFICES ASSUME NEW i \in 0..total
               PROVE  w[i] = IF i = 0 THEN Item(<<>>, pos) ELSE Next1(w[i - 1])
    BY <1>0
  <2>1. CASE i = 0
    <3>1. w[i] = Part(0)
      BY <2>1, <1>0
    <3> QED BY <2>1, <3>1, <1>7
  <2>2. CASE i \in 1..n
    <3>1. w[i] = Part(i) /\ w[i - 1] = Part(i - 1) /\ i # 0
      BY <2>2, <1>0
    <3> QED BY <2>2, <3>1, <1>5
  <2>3. CASE i > n
    <3>0. \A j \in 0..total : w[j] = IF j <= n THEN Part(j) ELSE Part(n)
      BY <1>0
    <3>1. i \in 0..total /\ i - 1 \in 0..total /\ ~(i <= n) /\ (i - 1 <= n => i - 1 = n) /\ i # 0
      BY <2>3, <1>0
    <3> HIDE DEF w
    <3>2. w[i] = Part(n) /\ w[i - 1] = Part(n) /\ i # 0
      BY <3>0, <3>1
    <3> QED BY <3>2, <1>6
  <2> QED BY <2>1, <2>2, <2>3, <1>0
<1>10. R(w)
  <2>1. w = [i \in 0..(end - pos) |-> w[i]]
    OBVIOUS
  <2> HIDE DEF w
  <2> QED BY <2>1, <1>9
<1>11. R(read)
  <2> HIDE DEF R, w
  <2> QED BY <1>10
<1>12. ReadInstrs(file, pos, end) = read[end - pos].item
  BY DEF ReadInstrs, Next1
<1>13. total \in 0..(end - pos) /\ w[total] = Part(n)
  BY <1>0, <1>3
<1> HIDE DEF read, w
<1>14. ASSUME NEW i \in 0..(end - pos) PROVE read[i] = w[i]
  <2> DEFINE D == {j \in Nat : j \in 0..(end - pos) => read[j] = w[j]}
  <2>1. 0 \in D
    BY <1>0, <1>11, <1>10
  <2>2. ASSUME NEW j \in Nat, j \in D PROVE j + 1 \in D
    <3> SUFFICES ASSUME j + 1 \in 0..(end - pos) PROVE read[j + 1] = w[j + 1]
      OBVIOUS
    <3>1. j \in 0..(end - pos) /\ (j + 1) - 1 = j /\ j + 1 # 0
      BY <1>0
    <3>2. read[j + 1] = Next1(read[j])
      BY <1>11, <3>1
    <3>3. w[j + 1] = Next1(w[j])
      BY <1>10, <3>1
    <3>4. read[j] = w[j]
      BY <2>2, <3>1
    <3> QED BY <3>2, <3>3, <3>4
  <2>3. Nat \subseteq D
    <3> HIDE DEF D
    <3> QED BY <2>1, <2>2, NatSetInduction
  <2>4. i \in Nat /\ i \in D
    <3>1. i \in Nat
      BY <1>0
    <3> HIDE DEF D
    <3> QED BY <2>3, <3>1
  <2> QED BY <2>4
<1> QED BY <1>0, <1>8, <1>12, <1>13, <1>14 DEF end, total

-----------------------------------------------------------------------------
(* The items of a file.                                                    *)

ByteOver(V) == {b \in [of : V, part : Nat, width : Nat] : b.width = 0 => b.part = 0}

LEMMA BytesType ==
  ASSUME NEW V, NEW v \in V, NEW w \in Nat
  PROVE  Bytes(v, w) \in Seq(ByteOver(V)) /\ Len(Bytes(v, w)) = w
<1>1. \A i \in 1..w : Byte(v, i, w) \in ByteOver(V)
  BY DEF Byte, ByteOver
<1>2. Bytes(v, w) \in [1..w -> ByteOver(V)]
  BY <1>1 DEF Bytes
<1> QED BY <1>2, FunctionIsSeq

LEMMA BytesLen ==
  ASSUME NEW v, NEW w \in Nat
  PROVE  Len(Bytes(v, w)) = w
BY DEF Bytes

(* b is a of length m and, behind it, v in w bytes.                        *)
Added(S, b, n, a, m, v, w) ==
  /\ b \in Seq(S) /\ Len(b) = n
  /\ \A file : \A p \in Nat :
       Len(file) \in Nat /\ Holds(file, p, b) => Holds(file, p, a) /\ Read(file, p + m, w) = v

LEMMA FieldAdded ==
  ASSUME NEW S, NEW a, NEW m, NEW v, NEW w, NEW n, NEW b,
         a \in Seq(S), Len(a) = m, m \in Nat, w \in Nat \ {0}, n = m + w,
         Bytes(v, w) \in Seq(S), b = a \o Bytes(v, w)
  PROVE  Added(S, b, n, a, m, v, w)
<1> DEFINE x == Bytes(v, w)
<1>1. x \in Seq(S) /\ Len(x) = w
  <2>1. w \in Nat
    OBVIOUS
  <2> QED BY <2>1, BytesLen, Zenon
<1> HIDE DEF x
<1>2. a \o x \in Seq(S) /\ Len(a \o x) = m + w
  <2>1. \A s, t \in Seq(S) : s \o t \in Seq(S) /\ Len(s \o t) = Len(s) + Len(t)
    OBVIOUS
  <2>2. a \o x \in Seq(S) /\ Len(a \o x) = Len(a) + Len(x)
    BY <1>1, <2>1, Zenon
  <2> QED BY <1>1, <2>2, Zenon
<1>3. ASSUME NEW file, NEW p \in Nat, Len(file) \in Nat, Holds(file, p, a \o x)
      PROVE  Holds(file, p, a) /\ Read(file, p + m, w) = v
  <2>1. p + m \in Nat
    OBVIOUS
  <2>2. Holds(file, p, a) /\ Holds(file, p + m, x)
    BY <1>1, <1>3, HoldsParts
  <2> QED BY <2>1, <2>2, ReadsBack DEF x
<1> QED BY <1>2, <1>3 DEF Added, x

(* Numbers of one width.                                                   *)
FieldsOf(items, w) == [i \in 1..Len(items) |-> Bytes(items[i], w)]

LEMMA FieldsType ==
  ASSUME NEW V, NEW items \in Seq(V), NEW w \in Nat
  PROVE  /\ FieldsOf(items, w) \in Seq(Seq(ByteOver(V)))
         /\ Len(FieldsOf(items, w)) = Len(items)
         /\ \A k \in 1..Len(items) : /\ FieldsOf(items, w)[k] = Bytes(items[k], w)
                                     /\ Len(FieldsOf(items, w)[k]) = w
<1>1. \A k \in 1..Len(items) : /\ Bytes(items[k], w) \in Seq(ByteOver(V))
                               /\ Len(Bytes(items[k], w)) = w
  <2> SUFFICES ASSUME NEW k \in 1..Len(items)
               PROVE  Bytes(items[k], w) \in Seq(ByteOver(V)) /\ Len(Bytes(items[k], w)) = w
    OBVIOUS
  <2>1. items[k] \in V
    OBVIOUS
  <2> QED BY <2>1, BytesType
<1>2. FieldsOf(items, w) \in [1..Len(items) -> Seq(ByteOver(V))]
  BY <1>1 DEF FieldsOf
<1>3. FieldsOf(items, w) \in Seq(Seq(ByteOver(V))) /\ Len(FieldsOf(items, w)) = Len(items)
  BY <1>2, FunctionIsSeq
<1> QED BY <1>1, <1>3 DEF FieldsOf

LEMMA NumbersRead ==
  ASSUME NEW file, NEW V, NEW pos \in Nat, NEW items \in Seq(V), NEW w \in Nat \ {0},
         Len(file) \in Nat, Holds(file, pos, FlattenSeq(FieldsOf(items, w)))
  PROVE  Numbers(file, Len(items), pos, w) = Item(items, pos + Len(FlattenSeq(FieldsOf(items, w))))
<1> DEFINE s == FieldsOf(items, w)
           one == [p \in Nat |-> Item(Read(file, p, w), p + w)]
<1>1. /\ s \in Seq(Seq(ByteOver(V))) /\ Len(s) = Len(items)
      /\ \A k \in 1..Len(s) : s[k] = Bytes(items[k], w) /\ Len(s[k]) = w
  BY FieldsType
<1>2. ASSUME NEW k \in 1..Len(s), NEW p \in Nat, Holds(file, p, s[k])
      PROVE  one[p] = Item(items[k], p + Len(s[k]))
  <2>1. Read(file, p, w) = items[k]
    BY <1>1, <1>2, ReadsBack
  <2> QED BY <1>1, <2>1
<1>3. Numbers(file, Len(items), pos, w) = Many(Len(s), pos, one)
  BY <1>1 DEF Numbers
<1> HIDE DEF s, one
<1>4. Many(Len(s), pos, one) = Item(items, pos + Len(FlattenSeq(s)))
  <2>1. Holds(file, pos, FlattenSeq(s))
    BY DEF s
  <2>2. ReadsItems(file, s, items, one)
    BY <1>2 DEF ReadsItems
  <2> DEFINE S == ByteOver(V)
  <2>3. s \in Seq(Seq(S)) /\ Len(items) = Len(s)
    BY <1>1
  <2> HIDE DEF S
  <2> QED BY <2>1, <2>2, <2>3, ManyRead
<1> QED BY <1>3, <1>4 DEF s

(* A constant's entry.                                                     *)
ConstEntries(V) == [type : V, align : V, offset : V, length : V]

LEMMA ConstRead ==
  ASSUME NEW V, Int \subseteq V, NEW c \in ConstEntries(V)
  PROVE  /\ ConstBytes(c) \in Seq(ByteOver(V)) /\ Len(ConstBytes(c)) = 24
         /\ \A file : \A p \in Nat : Len(file) \in Nat /\ Holds(file, p, ConstBytes(c))
              => ReadConst(file, p) = Item(c, p + 24)
<1> DEFINE b1 == Bytes(c.type, 4)
           b2 == b1 \o Bytes(Inline, 1)
           b3 == b2 \o Bytes(c.align, 1)
           b4 == b3 \o Bytes(0, 1)
           b5 == b4 \o Bytes(0, 1)
           b6 == b5 \o Bytes(c.offset, 8)
           b7 == b6 \o Bytes(c.length, 8)
           S == ByteOver(V)
           W == Nat \ {0}
<1>0. /\ Bytes(c.type, 4) \in Seq(S) /\ Bytes(Inline, 1) \in Seq(S) /\ Bytes(c.align, 1) \in Seq(S)
      /\ Bytes(0, 1) \in Seq(S) /\ Bytes(c.offset, 8) \in Seq(S) /\ Bytes(c.length, 8) \in Seq(S)
      /\ Len(b1) = 4
  <2>1. c.type \in V /\ c.align \in V /\ c.offset \in V /\ c.length \in V /\ 0 \in V /\ Inline \in V
    BY DEF ConstEntries, Inline
  <2> QED BY <2>1, BytesType
<1>w. /\ 1 \in W /\ 8 \in W /\ 5 = 4 + 1 /\ 6 = 5 + 1 /\ 7 = 6 + 1 /\ 8 = 7 + 1 /\ 16 = 8 + 8 /\ 24 = 16 + 8
      /\ 4 \in Nat /\ 5 \in Nat /\ 6 \in Nat /\ 7 \in Nat /\ 8 \in Nat /\ 16 \in Nat
  OBVIOUS
<1> HIDE DEF S
<1>2. Added(S, b2, 5, b1, 4, Inline, 1)
  BY <1>0, <1>w, FieldAdded, Zenon
<1>3. Added(S, b3, 6, b2, 5, c.align, 1)
  <2>1. b2 \in Seq(S) /\ Len(b2) = 5
    BY <1>2 DEF Added
  <2> QED BY <1>0, <1>w, <2>1, FieldAdded, Zenon
<1>4. Added(S, b4, 7, b3, 6, 0, 1)
  <2>1. b3 \in Seq(S) /\ Len(b3) = 6
    BY <1>3 DEF Added
  <2> QED BY <1>0, <1>w, <2>1, FieldAdded, Zenon
<1>5. Added(S, b5, 8, b4, 7, 0, 1)
  <2>1. b4 \in Seq(S) /\ Len(b4) = 7
    BY <1>4 DEF Added
  <2> QED BY <1>0, <1>w, <2>1, FieldAdded, Zenon
<1>6. Added(S, b6, 16, b5, 8, c.offset, 8)
  <2>1. b5 \in Seq(S) /\ Len(b5) = 8
    BY <1>5 DEF Added
  <2> QED BY <1>0, <1>w, <2>1, FieldAdded, Zenon
<1>7. Added(S, b7, 24, b6, 16, c.length, 8)
  <2>1. b6 \in Seq(S) /\ Len(b6) = 16
    BY <1>6 DEF Added
  <2> QED BY <1>0, <1>w, <2>1, FieldAdded, Zenon
<1>8. ConstBytes(c) = b7
  BY DEF ConstBytes
<1> HIDE DEF b1, b2, b3, b4, b5, b6, b7
<1>9. ASSUME NEW file, NEW p \in Nat, Len(file) \in Nat, Holds(file, p, b7)
      PROVE  ReadConst(file, p) = Item(c, p + 24)
  <2>1. Holds(file, p, b6) /\ Read(file, p + 16, 8) = c.length
    BY <1>7, <1>9 DEF Added
  <2>2. Holds(file, p, b5) /\ Read(file, p + 8, 8) = c.offset
    BY <1>6, <1>9, <2>1 DEF Added
  <2>3. Holds(file, p, b4)
    BY <1>5, <1>9, <2>2 DEF Added
  <2>4. Holds(file, p, b3)
    BY <1>4, <1>9, <2>3 DEF Added
  <2>5. Holds(file, p, b2) /\ Read(file, p + 5, 1) = c.align
    BY <1>3, <1>9, <2>4 DEF Added
  <2>6. Holds(file, p, b1)
    BY <1>2, <1>9, <2>5 DEF Added
  <2>7. Read(file, p, 4) = c.type
    BY <1>9, <2>6, ReadsBack DEF b1
  <2>8. c = [type |-> c.type, align |-> c.align, offset |-> c.offset, length |-> c.length]
    BY DEF ConstEntries
  <2> QED BY <2>1, <2>2, <2>5, <2>7, <2>8 DEF ReadConst
<1>10. b7 \in Seq(S) /\ Len(b7) = 24
  BY <1>7 DEF Added
<1> QED BY <1>8, <1>9, <1>10 DEF S

(* b is a of length m and, behind it, x.                                   *)
Followed(S, b, a, m, x) ==
  /\ b \in Seq(S) /\ Len(b) = m + Len(x)
  /\ \A file : \A p \in Nat :
       Len(file) \in Nat /\ Holds(file, p, b) => Holds(file, p, a) /\ Holds(file, p + m, x)

LEMMA RestAdded ==
  ASSUME NEW S, NEW a, NEW m, NEW x, NEW b,
         a \in Seq(S), Len(a) = m, m \in Nat, x \in Seq(S), b = a \o x
  PROVE  Followed(S, b, a, m, x)
<1>1. a \o x \in Seq(S) /\ Len(a \o x) = m + Len(x)
  <2>1. \A s, t \in Seq(S) : s \o t \in Seq(S) /\ Len(s \o t) = Len(s) + Len(t)
    OBVIOUS
  <2>2. a \o x \in Seq(S) /\ Len(a \o x) = Len(a) + Len(x)
    BY <2>1, Zenon
  <2> QED BY <2>2, Zenon
<1>2. ASSUME NEW file, NEW p \in Nat, Len(file) \in Nat, Holds(file, p, a \o x)
      PROVE  Holds(file, p, a) /\ Holds(file, p + m, x)
  BY <1>2, HoldsParts
<1> QED BY <1>1, <1>2 DEF Followed

LEMMA FlattenOne ==
  ASSUME NEW S, NEW x \in Seq(S)
  PROVE  FlattenSeq(<<x>>) = x
<1>1. <<>> \in Seq(Seq(S)) /\ Append(<<>>, x) = <<x>> /\ <<>> \o x = x
  OBVIOUS
<1>2. FlattenSeq(<<>>) = <<>>
  <2>1. Len(<<>>) = 0
    OBVIOUS
  <2> QED BY <2>1 DEF FlattenSeq
<1>3. FlattenSeq(Append(<<>>, x)) = FlattenSeq(<<>>) \o x
  BY <1>1, FlattenAppend
<1> QED BY <1>1, <1>2, <1>3

(* A type's entry.                                                         *)
TypeEntries(V) == [kind : V, element : {<<>>} \cup {<<e>> : e \in V}]

LEMMA TypeRead ==
  ASSUME NEW V, Int \subseteq V, NEW t \in TypeEntries(V)
  PROVE  /\ TypeBytes(t) \in Seq(ByteOver(V))
         /\ \A file : \A p \in Nat : Len(file) \in Nat /\ Holds(file, p, TypeBytes(t))
              => ReadType(file, p) = Item(t, p + Len(TypeBytes(t)))
<1> DEFINE One(e) == Bytes(e, 4) \o Bytes(2, 4) \o Bytes(1, 4) \o Bytes(1, 4)
           payload == Concat(t.element, One)
           b1 == Bytes(t.kind, 2)
           b2 == b1 \o Bytes(0, 2)
           b3 == b2 \o Bytes(1, 4)
           b4 == b3 \o Bytes(Len(payload), 4)
           b5 == b4 \o payload
           S == ByteOver(V)
           W == Nat \ {0}
<1>w. /\ 2 \in W /\ 4 \in W /\ 2 \in Nat /\ 4 \in Nat /\ 8 \in Nat /\ 12 \in Nat /\ 16 \in Nat
      /\ 4 = 2 + 2 /\ 8 = 4 + 4 /\ 12 = 8 + 4 /\ 16 = 12 + 4
  OBVIOUS
<1>b. \A v \in V : \A w \in Nat : Bytes(v, w) \in Seq(S) /\ Len(Bytes(v, w)) = w
  BY BytesType
<1>t. /\ t.kind \in V /\ 0 \in V /\ 1 \in V /\ 2 \in V
      /\ t.element = <<>> \/ \E e \in V : t.element = <<e>>
      /\ t = [kind |-> t.kind, element |-> t.element]
  BY DEF TypeEntries
<1>8. TypeBytes(t) = b5
  BY DEF TypeBytes
<1> HIDE DEF S
<1>1. /\ payload \in Seq(S)
      /\ \/ t.element = <<>> /\ Len(payload) = 0
         \/ /\ Len(payload) = 16
            /\ \E e \in V : /\ t.element = <<e>>
                           /\ \A file : \A p \in Nat : Len(file) \in Nat /\ Holds(file, p, payload)
                                => Read(file, p, 4) = e
  <2>1. CASE t.element = <<>>
    <3>1. payload = FlattenSeq(<<>>)
      BY <2>1 DEF Concat
    <3>2. Len(<<>>) = 0
      OBVIOUS
    <3>3. payload = <<>>
      BY <3>1, <3>2 DEF FlattenSeq
    <3>4. payload \in Seq(S) /\ Len(payload) = 0
      <4> HIDE DEF payload
      <4> QED BY <3>3
    <3> QED BY <2>1, <3>4
  <2>2. ASSUME NEW e \in V, t.element = <<e>> PROVE <1>1
    <3> DEFINE c1 == Bytes(e, 4)
               c2 == c1 \o Bytes(2, 4)
               c3 == c2 \o Bytes(1, 4)
               c4 == c3 \o Bytes(1, 4)
    <3>0. c1 \in Seq(S) /\ Len(c1) = 4 /\ Bytes(2, 4) \in Seq(S) /\ Bytes(1, 4) \in Seq(S)
      BY <1>b, <1>t, <1>w, Zenon
    <3>1. Added(S, c2, 8, c1, 4, 2, 4)
      BY <3>0, <1>w, FieldAdded, Zenon
    <3>2. Added(S, c3, 12, c2, 8, 1, 4)
      <4>1. c2 \in Seq(S) /\ Len(c2) = 8
        BY <3>1 DEF Added
      <4> QED BY <3>0, <1>w, <4>1, FieldAdded, Zenon
    <3>3. Added(S, c4, 16, c3, 12, 1, 4)
      <4>1. c3 \in Seq(S) /\ Len(c3) = 12
        BY <3>2 DEF Added
      <4> QED BY <3>0, <1>w, <4>1, FieldAdded, Zenon
    <3>4. payload = FlattenSeq(<<c4>>)
      <4>1. [i \in DOMAIN t.element |-> One(t.element[i])] = <<One(e)>>
        <5> HIDE DEF One
        <5> QED BY <2>2
      <4> QED BY <4>1 DEF Concat
    <3>5. c4 \in Seq(S) /\ Len(c4) = 16
      BY <3>3 DEF Added
    <3> HIDE DEF c2, c3, c4
    <3>6. payload = c4
      BY <3>4, <3>5, FlattenOne
    <3>7. ASSUME NEW file, NEW p \in Nat, Len(file) \in Nat, Holds(file, p, c4)
          PROVE  Read(file, p, 4) = e
      <4>1. Holds(file, p, c3)
        BY <3>3, <3>7 DEF Added
      <4>2. Holds(file, p, c2)
        BY <3>2, <3>7, <4>1 DEF Added
      <4>3. Holds(file, p, c1)
        BY <3>1, <3>7, <4>2 DEF Added
      <4> QED BY <4>3, ReadsBack
    <3> HIDE DEF payload
    <3> QED BY <2>2, <3>5, <3>6, <3>7
  <2> QED BY <1>t, <2>1, <2>2
<1> HIDE DEF payload
<1>0. /\ b1 \in Seq(S) /\ Len(b1) = 2 /\ Bytes(0, 2) \in Seq(S) /\ Bytes(1, 4) \in Seq(S)
      /\ Bytes(Len(payload), 4) \in Seq(S)
  <2>1. Len(payload) \in V
    BY <1>1
  <2> QED BY <2>1, <1>b, <1>t, <1>w, Zenon
<1>2. Added(S, b2, 4, b1, 2, 0, 2)
  BY <1>0, <1>w, FieldAdded, Zenon
<1>3. Added(S, b3, 8, b2, 4, 1, 4)
  <2>1. b2 \in Seq(S) /\ Len(b2) = 4
    BY <1>2 DEF Added
  <2> QED BY <1>0, <1>w, <2>1, FieldAdded, Zenon
<1>4. Added(S, b4, 12, b3, 8, Len(payload), 4)
  <2>1. b3 \in Seq(S) /\ Len(b3) = 8
    BY <1>3 DEF Added
  <2> QED BY <1>0, <1>w, <2>1, FieldAdded, Zenon
<1>5. Followed(S, b5, b4, 12, payload)
  <2>1. b4 \in Seq(S) /\ Len(b4) = 12
    BY <1>4 DEF Added
  <2> QED BY <1>w, <2>1, <1>1, RestAdded, Zenon
<1> HIDE DEF b1, b2, b3, b4, b5
<1>6. b5 \in Seq(S) /\ Len(b5) = 12 + Len(payload)
  BY <1>5 DEF Followed
<1>9. ASSUME NEW file, NEW p \in Nat, Len(file) \in Nat, Holds(file, p, b5)
      PROVE  ReadType(file, p) = Item(t, p + Len(b5))
  <2>1. Holds(file, p, b4) /\ Holds(file, p + 12, payload)
    BY <1>5, <1>9 DEF Followed
  <2>2. Holds(file, p, b3) /\ Read(file, p + 8, 4) = Len(payload)
    BY <1>4, <1>9, <2>1 DEF Added
  <2>3. Holds(file, p, b2)
    BY <1>3, <1>9, <2>2 DEF Added
  <2>4. Holds(file, p, b1)
    BY <1>2, <1>9, <2>3 DEF Added
  <2>5. Read(file, p, 2) = t.kind
    BY <1>9, <2>4, ReadsBack DEF b1
  <2>6. (IF Len(payload) = 0 THEN <<>> ELSE <<Read(file, p + 12, 4)>>) = t.element
    <3>1. p + 12 \in Nat
      OBVIOUS
    <3> QED BY <1>1, <1>9, <2>1, <3>1
  <2>7. p + 12 + Len(payload) = p + Len(b5)
    BY <1>1, <1>6
  <2> QED BY <1>t, <2>2, <2>5, <2>6, <2>7 DEF ReadType
<1> QED BY <1>6, <1>8, <1>9 DEF S

(* Instructions: an operation has an output, and its own code for up to five registers. *)
LoadInstrs(V) == [op : {"load"}, dst : V, const : V]
OpInstrs(V) == {i \in [op : {"op", "varop"}, fxn : V, regs : Seq(V)] :
                  i.regs # <<>> /\ (i.op = "op" => Len(i.regs) <= 5)}

(* What is shown of each form of instruction.                              *)
InstrReads(S, i) ==
  /\ InstrBytes(i) \in Seq(S) /\ Len(InstrBytes(i)) >= 8
  /\ \A file : \A p \in Nat : Len(file) \in Nat /\ Holds(file, p, InstrBytes(i))
       => ReadInstr(file, p) = Item(i, p + Len(InstrBytes(i)))

LEMMA LoadRead ==
  ASSUME NEW V, Int \subseteq V, NEW i \in LoadInstrs(V)
  PROVE  InstrReads(ByteOver(V), i)
<1> DEFINE b1 == Bytes(ConstLoad, 1)
           b2 == b1 \o Bytes(i.dst, 4)
           b3 == b2 \o Bytes(i.const, 4)
           S == ByteOver(V)
           W == Nat \ {0}
<1>w. 4 \in W /\ 1 \in Nat /\ 5 \in Nat /\ 9 \in Nat /\ 5 = 1 + 4 /\ 9 = 5 + 4
  OBVIOUS
<1>0. /\ b1 \in Seq(S) /\ Len(b1) = 1 /\ Bytes(i.dst, 4) \in Seq(S) /\ Bytes(i.const, 4) \in Seq(S)
  <2>1. ConstLoad \in V /\ i.dst \in V /\ i.const \in V
    BY DEF LoadInstrs, ConstLoad
  <2> QED BY <2>1, BytesType
<1>1. i.op = "load" /\ i = [op |-> "load", dst |-> i.dst, const |-> i.const]
  BY DEF LoadInstrs
<1> HIDE DEF S
<1>2. Added(S, b2, 5, b1, 1, i.dst, 4)
  BY <1>0, <1>w, FieldAdded, Zenon
<1>3. Added(S, b3, 9, b2, 5, i.const, 4)
  <2>1. b2 \in Seq(S) /\ Len(b2) = 5
    BY <1>2 DEF Added
  <2> QED BY <1>0, <1>w, <2>1, FieldAdded, Zenon
<1>4. InstrBytes(i) = b3
  BY <1>1 DEF InstrBytes
<1> HIDE DEF b1, b2, b3
<1>5. ASSUME NEW file, NEW p \in Nat, Len(file) \in Nat, Holds(file, p, b3)
      PROVE  ReadInstr(file, p) = Item(i, p + 9)
  <2>1. Holds(file, p, b2) /\ Read(file, p + 5, 4) = i.const
    BY <1>3, <1>5 DEF Added
  <2>2. Holds(file, p, b1) /\ Read(file, p + 1, 4) = i.dst
    BY <1>2, <1>5, <2>1 DEF Added
  <2>3. Read(file, p, 1) = ConstLoad
    BY <1>5, <2>2, ReadsBack DEF b1
  <2> QED BY <1>1, <2>1, <2>2, <2>3 DEF ReadInstr
<1>6. b3 \in Seq(S) /\ Len(b3) = 9
  BY <1>3 DEF Added
<1> QED BY <1>4, <1>5, <1>6 DEF S, InstrReads

(* Registers are written and read one by one.                              *)
LEMMA RegistersRead ==
  ASSUME NEW V, NEW regs \in Seq(V)
  PROVE  /\ RegisterBytes(regs) \in Seq(ByteOver(V))
         /\ \A file : \A p \in Nat : Len(file) \in Nat /\ Holds(file, p, RegisterBytes(regs))
              => Numbers(file, Len(regs), p, 4) = Item(regs, p + Len(RegisterBytes(regs)))
<1>1. RegisterBytes(regs) = FlattenSeq(FieldsOf(regs, 4))
  <2>1. DOMAIN regs = 1..Len(regs)
    OBVIOUS
  <2> QED BY <2>1 DEF RegisterBytes, Concat, FieldsOf
<1>2. FlattenSeq(FieldsOf(regs, 4)) \in Seq(ByteOver(V))
  <2>1. FieldsOf(regs, 4) \in Seq(Seq(ByteOver(V)))
    BY FieldsType
  <2> QED BY <2>1, FlattenType
<1>3. ASSUME NEW file, NEW p \in Nat, Len(file) \in Nat, Holds(file, p, FlattenSeq(FieldsOf(regs, 4)))
      PROVE  Numbers(file, Len(regs), p, 4) = Item(regs, p + Len(FlattenSeq(FieldsOf(regs, 4))))
  BY <1>3, NumbersRead
<1> QED BY <1>1, <1>2, <1>3

LEMMA FixedRead ==
  ASSUME NEW V, Int \subseteq V, NEW i \in OpInstrs(V), i.op = "op"
  PROVE  InstrReads(ByteOver(V), i)
<1> DEFINE n == Len(i.regs)
           b1 == Bytes(Fixed[n], 1)
           b2 == b1 \o Bytes(i.fxn, 8)
           r == RegisterBytes(i.regs)
           b3 == b2 \o r
           S == ByteOver(V)
           W == Nat \ {0}
<1>w. 8 \in W /\ 1 \in Nat /\ 9 \in Nat /\ 9 = 1 + 8
  OBVIOUS
<1>1. /\ i.regs \in Seq(V) /\ i.fxn \in V /\ n \in 1..5
      /\ i = Call("op", i.fxn, i.regs)
  <2>1. i.regs \in Seq(V) /\ i.fxn \in V /\ i.regs # <<>> /\ n <= 5 /\ i = Call("op", i.fxn, i.regs)
    BY DEF OpInstrs, Call
  <2>2. n \in 1..5
    <3>1. \A q \in Seq(V) : q # <<>> => Len(q) \in Nat /\ Len(q) >= 1
      OBVIOUS
    <3>2. n \in Nat /\ n >= 1 /\ n <= 5
      BY <2>1, <3>1
    <3> HIDE DEF n
    <3> QED BY <3>2
  <2> QED BY <2>1, <2>2
<1>2. /\ n \in DOMAIN Fixed /\ Fixed[n] \in {16, 32, 48, 64, 80}
      /\ \A m \in DOMAIN Fixed : Fixed[m] = Fixed[n] => m = n
  <2>1. /\ DOMAIN Fixed = 1..5
        /\ Fixed[1] = 16 /\ Fixed[2] = 32 /\ Fixed[3] = 48 /\ Fixed[4] = 64 /\ Fixed[5] = 80
    BY DEF Fixed
  <2>2. \A m \in 1..5 : m = 1 \/ m = 2 \/ m = 3 \/ m = 4 \/ m = 5
    OBVIOUS
  <2> HIDE DEF n
  <2> QED BY <1>1, <2>1, <2>2
<1>0. /\ b1 \in Seq(S) /\ Len(b1) = 1 /\ Bytes(i.fxn, 8) \in Seq(S) /\ r \in Seq(S)
  <2>1. Fixed[n] \in V
    BY <1>2
  <2>2. b1 \in Seq(S) /\ Len(b1) = 1 /\ Bytes(i.fxn, 8) \in Seq(S)
    BY <1>1, <2>1, BytesType
  <2> QED BY <1>1, <2>2, RegistersRead
<1>3. InstrBytes(i) = b3
  BY DEF InstrBytes
<1> HIDE DEF S, r
<1>4. Added(S, b2, 9, b1, 1, i.fxn, 8)
  BY <1>0, <1>w, FieldAdded, Zenon
<1>5. Followed(S, b3, b2, 9, r)
  <2>1. b2 \in Seq(S) /\ Len(b2) = 9
    BY <1>4 DEF Added
  <2> QED BY <1>0, <1>w, <2>1, RestAdded, Zenon
<1> HIDE DEF b1, b2, b3, n
<1>6. b3 \in Seq(S) /\ Len(b3) = 9 + Len(r)
  BY <1>5 DEF Followed
<1>7. ASSUME NEW file, NEW p \in Nat, Len(file) \in Nat, Holds(file, p, b3)
      PROVE  ReadInstr(file, p) = Item(i, p + Len(b3))
  <2>1. Holds(file, p, b2) /\ Holds(file, p + 9, r)
    BY <1>5, <1>7 DEF Followed
  <2>2. Holds(file, p, b1) /\ Read(file, p + 1, 8) = i.fxn
    BY <1>4, <1>7, <2>1 DEF Added
  <2>3. Read(file, p, 1) = Fixed[n]
    BY <1>7, <2>2, ReadsBack DEF b1
  <2>4. Numbers(file, n, p + 9, 4) = Item(i.regs, p + Len(b3))
    <3>1. p + 9 \in Nat /\ (p + 9) + Len(r) = p + Len(b3)
      BY <1>0, <1>6
    <3>2. Numbers(file, n, p + 9, 4) = Item(i.regs, (p + 9) + Len(r))
      BY <1>1, <1>7, <2>1, <3>1, RegistersRead DEF n, r
    <3> QED BY <3>1, <3>2
  <2>5. ReadFixed(file, p, n) = Item(i, p + Len(b3))
    BY <1>1, <2>2, <2>4 DEF ReadFixed, Item
  <2>6. (CHOOSE m \in DOMAIN Fixed : Fixed[m] = Fixed[n]) = n
    BY <1>2
  <2>7. Fixed[n] # ConstLoad /\ Fixed[n] # VarArg
    BY <1>2 DEF ConstLoad, VarArg
  <2> HIDE DEF S
  <2> QED BY <1>2, <2>3, <2>5, <2>6, <2>7, Zenon DEF ReadInstr
<1>8. Len(b3) >= 8
  BY <1>0, <1>6
<1> QED BY <1>3, <1>6, <1>7, <1>8 DEF S, InstrReads

LEMMA VarArgRead ==
  ASSUME NEW V, Int \subseteq V, NEW i \in OpInstrs(V), i.op = "varop"
  PROVE  InstrReads(ByteOver(V), i)
<1> DEFINE n == Len(i.regs) - 1
           args == Tail(i.regs)
           b1 == Bytes(VarArg, 1)
           b2 == b1 \o Bytes(i.fxn, 8)
           b3 == b2 \o Bytes(i.regs[1], 4)
           b4 == b3 \o Bytes(n, 4)
           r == RegisterBytes(args)
           b5 == b4 \o r
           S == ByteOver(V)
           W == Nat \ {0}
<1>w. /\ 8 \in W /\ 4 \in W /\ 1 \in Nat /\ 9 \in Nat /\ 13 \in Nat /\ 17 \in Nat
      /\ 9 = 1 + 8 /\ 13 = 9 + 4 /\ 17 = 13 + 4
  OBVIOUS
<1>1. /\ i.regs \in Seq(V) /\ i.fxn \in V /\ i.regs[1] \in V /\ n \in Nat
      /\ args \in Seq(V) /\ Len(args) = n /\ <<i.regs[1]>> \o args = i.regs
      /\ i = Call("varop", i.fxn, i.regs)
  <2>1. i.regs \in Seq(V) /\ i.fxn \in V /\ i.regs # <<>> /\ i = Call("varop", i.fxn, i.regs)
    BY DEF OpInstrs, Call
  <2>2. /\ i.regs[1] \in V /\ n \in Nat /\ args \in Seq(V) /\ Len(args) = n
        /\ <<i.regs[1]>> \o args = i.regs
    BY <2>1
  <2> QED BY <2>1, <2>2
<1>0. /\ b1 \in Seq(S) /\ Len(b1) = 1 /\ Bytes(i.fxn, 8) \in Seq(S) /\ Bytes(i.regs[1], 4) \in Seq(S)
      /\ Bytes(n, 4) \in Seq(S) /\ r \in Seq(S)
  <2>1. VarArg \in V /\ n \in V
    BY <1>1 DEF VarArg
  <2>2. /\ b1 \in Seq(S) /\ Len(b1) = 1 /\ Bytes(i.fxn, 8) \in Seq(S) /\ Bytes(i.regs[1], 4) \in Seq(S)
        /\ Bytes(n, 4) \in Seq(S)
    BY <1>1, <2>1, BytesType
  <2> QED BY <1>1, <2>2, RegistersRead
<1>2. InstrBytes(i) = b5
  BY DEF InstrBytes
<1> HIDE DEF S, r, n, args
<1>3. Added(S, b2, 9, b1, 1, i.fxn, 8)
  BY <1>0, <1>w, FieldAdded, Zenon
<1>4. Added(S, b3, 13, b2, 9, i.regs[1], 4)
  <2>1. b2 \in Seq(S) /\ Len(b2) = 9
    BY <1>3 DEF Added
  <2> QED BY <1>0, <1>w, <2>1, FieldAdded, Zenon
<1>5. Added(S, b4, 17, b3, 13, n, 4)
  <2>1. b3 \in Seq(S) /\ Len(b3) = 13
    BY <1>4 DEF Added
  <2> QED BY <1>0, <1>w, <2>1, FieldAdded, Zenon
<1>6. Followed(S, b5, b4, 17, r)
  <2>1. b4 \in Seq(S) /\ Len(b4) = 17
    BY <1>5 DEF Added
  <2> QED BY <1>0, <1>w, <2>1, RestAdded, Zenon
<1> HIDE DEF b1, b2, b3, b4, b5
<1>7. b5 \in Seq(S) /\ Len(b5) = 17 + Len(r)
  BY <1>6 DEF Followed
<1>8. ASSUME NEW file, NEW p \in Nat, Len(file) \in Nat, Holds(file, p, b5)
      PROVE  ReadInstr(file, p) = Item(i, p + Len(b5))
  <2>1. Holds(file, p, b4) /\ Holds(file, p + 17, r)
    BY <1>6, <1>8 DEF Followed
  <2>2. Holds(file, p, b3) /\ Read(file, p + 13, 4) = n
    BY <1>5, <1>8, <2>1 DEF Added
  <2>3. Holds(file, p, b2) /\ Read(file, p + 9, 4) = i.regs[1]
    BY <1>4, <1>8, <2>2 DEF Added
  <2>4. Holds(file, p, b1) /\ Read(file, p + 1, 8) = i.fxn
    BY <1>3, <1>8, <2>3 DEF Added
  <2>5. Read(file, p, 1) = VarArg
    BY <1>8, <2>4, ReadsBack DEF b1
  <2>6. Numbers(file, n, p + 17, 4) = Item(args, p + Len(b5))
    <3>1. p + 17 \in Nat /\ (p + 17) + Len(r) = p + Len(b5)
      BY <1>0, <1>7
    <3>2. Numbers(file, Len(args), p + 17, 4) = Item(args, (p + 17) + Len(r))
      BY <1>1, <1>8, <2>1, <3>1, RegistersRead DEF r
    <3> QED BY <1>1, <3>1, <3>2
  <2>7. ReadVarArg(file, p) = Item(i, p + Len(b5))
    <3>1. ReadVarArg(file, p) = Item(Call("varop", i.fxn, <<i.regs[1]>> \o args), p + Len(b5))
      <4>1. Numbers(file, n, p + 17, 4).item = args /\ Numbers(file, n, p + 17, 4).next = p + Len(b5)
        BY <2>6 DEF Item
      <4> QED BY <2>2, <2>3, <2>4, <4>1, Zenon DEF ReadVarArg
    <3> QED BY <1>1, <3>1, Zenon
  <2>8. VarArg # ConstLoad
    BY DEF ConstLoad, VarArg
  <2> QED BY <2>5, <2>7, <2>8, Zenon DEF ReadInstr
<1>9. Len(b5) >= 8
  BY <1>0, <1>7
<1> QED BY <1>2, <1>7, <1>8, <1>9 DEF S, InstrReads

-----------------------------------------------------------------------------
(* The header.                                                             *)

Fields == 1..22
FieldName(k) == Layout[k][1]
FieldWidth(k) == Layout[k][2]

LEMMA LayoutIs ==
  /\ Len(Layout) = 22 /\ DOMAIN Layout = Fields
  /\ \A k \in Fields : FieldWidth(k) \in Nat \ {0}
<1>1. Len(Layout) = 22 /\ DOMAIN Layout = Fields
  BY DEF Layout, Fields
<1>2. ASSUME NEW k \in Fields PROVE FieldWidth(k) \in {1, 2, 4, 8}
  BY DEF Layout, Fields, FieldWidth
<1> QED BY <1>1, <1>2

LEMMA NamesDiffer ==
  ASSUME NEW j \in Fields, NEW k \in Fields, FieldName(j) = FieldName(k)
  PROVE  j = k
BY DEF Layout, Fields, FieldName

HeaderNames == {FieldName(k) : k \in Fields}

LEMMA NamesOfHeader ==
  ASSUME NEW p, NEW n
  PROVE  DOMAIN Header(p, n) = HeaderNames
BY DEF Header, Layout, Fields, FieldName, HeaderNames

(* The bytes of the fields of a header, one field after the other.         *)
FieldBytes(header) == [k \in Fields |-> Bytes(header[FieldName(k)], FieldWidth(k))]

LEMMA HeaderFields ==
  ASSUME NEW V, NEW header, \A k \in Fields : header[FieldName(k)] \in V
  PROVE  /\ FieldBytes(header) \in Seq(Seq(ByteOver(V))) /\ Len(FieldBytes(header)) = 22
         /\ \A k \in Fields : Len(FieldBytes(header)[k]) = FieldWidth(k)
         /\ HeaderBytes(header) = FlattenSeq(FieldBytes(header))
<1> DEFINE s == FieldBytes(header)
           S == ByteOver(V)
<1>1. ASSUME NEW k \in Fields
      PROVE  /\ Bytes(header[FieldName(k)], FieldWidth(k)) \in Seq(S)
             /\ Len(Bytes(header[FieldName(k)], FieldWidth(k))) = FieldWidth(k)
  <2>1. header[FieldName(k)] \in V /\ FieldWidth(k) \in Nat
    BY LayoutIs
  <2> QED BY <2>1, BytesType
<1> HIDE DEF S
<1>2. s \in [Fields -> Seq(S)]
  BY <1>1 DEF FieldBytes
<1>3. s \in Seq(Seq(S)) /\ Len(s) = 22
  BY <1>2, FunctionIsSeq DEF Fields
<1>4. HeaderBytes(header) = FlattenSeq(s)
  <2>1. DOMAIN Layout = Fields
    BY LayoutIs
  <2> QED BY <2>1 DEF HeaderBytes, Concat, FieldBytes, FieldName, FieldWidth
<1> QED BY <1>1, <1>3, <1>4 DEF FieldBytes, S

(* Before counts the bytes before a field.                                 *)
LEMMA BeforeCounts ==
  ASSUME NEW V, NEW header, \A k \in Fields : header[FieldName(k)] \in V
  PROVE  /\ \A k \in Fields : Before[k] = Len(Upto(FieldBytes(header), k - 1))
         /\ HeaderSize = Len(HeaderBytes(header)) /\ HeaderSize \in Nat
<1> DEFINE s == FieldBytes(header)
           S == ByteOver(V)
           R(f) == f = [k \in 1..(Len(Layout) + 1) |->
                          IF k = 1 THEN 0 ELSE f[k - 1] + Layout[k - 1][2]]
           w == [k \in 1..23 |-> Len(Upto(s, k - 1))]
<1>1. /\ s \in Seq(Seq(S)) /\ Len(s) = 22
      /\ \A k \in Fields : Len(s[k]) = FieldWidth(k)
      /\ HeaderBytes(header) = FlattenSeq(s)
  BY HeaderFields
<1>2. Len(Layout) + 1 = 23
  BY LayoutIs
<1> HIDE DEF s, S
<1>3. Upto(s, 0) = <<>> /\ Upto(s, 22) = FlattenSeq(s)
  <2>1. Upto(s, Len(s)) = FlattenSeq(s) /\ Upto(s, 0) = <<>>
    BY <1>1, UptoEnds
  <2> QED BY <1>1, <2>1
<1>4. w[1] = 0
  <2>1. w[1] = Len(Upto(s, 0))
    OBVIOUS
  <2> HIDE DEF w
  <2> QED BY <1>3, <2>1
<1>5. ASSUME NEW k \in 2..23 PROVE w[k] = w[k - 1] + Layout[k - 1][2]
  <2>1. k - 1 \in 1..Len(s) /\ k - 1 \in Fields /\ (k - 1) - 1 = k - 2
    BY <1>1 DEF Fields
  <2>2. Len(Upto(s, k - 1)) = Len(Upto(s, (k - 1) - 1)) + Len(s[k - 1])
    BY <1>1, <2>1, UptoStep
  <2>3. Len(s[k - 1]) = Layout[k - 1][2]
    BY <1>1, <2>1 DEF FieldWidth
  <2>4. w[k] = Len(Upto(s, k - 1)) /\ w[k - 1] = Len(Upto(s, (k - 1) - 1))
    <3>1. \A j \in 1..23 : w[j] = Len(Upto(s, j - 1))
      OBVIOUS
    <3>2. k \in 1..23 /\ k - 1 \in 1..23
      OBVIOUS
    <3> HIDE DEF w
    <3> QED BY <3>1, <3>2
  <2> QED BY <2>2, <2>3, <2>4
<1>6. R(w)
  <2>1. \A k \in 1..23 : w[k] = IF k = 1 THEN 0 ELSE w[k - 1] + Layout[k - 1][2]
    <3> SUFFICES ASSUME NEW k \in 1..23
                 PROVE  w[k] = IF k = 1 THEN 0 ELSE w[k - 1] + Layout[k - 1][2]
      OBVIOUS
    <3>1. k = 1 \/ k \in 2..23
      OBVIOUS
    <3> HIDE DEF w
    <3> QED BY <1>4, <1>5, <3>1
  <2>2. w = [k \in 1..23 |-> w[k]]
    OBVIOUS
  <2> HIDE DEF w
  <2> QED BY <1>2, <2>1, <2>2
<1>7. R(Before)
  <2>1. Before = CHOOSE f : R(f)
    BY DEF Before
  <2>2. R(CHOOSE f : R(f))
    <3> HIDE DEF R, w
    <3> QED BY <1>6
  <2> HIDE DEF R, w
  <2> QED BY <2>1, <2>2, Zenon
<1>8. \A k \in 1..23 : Before[k] = w[k]
  <2> DEFINE D == {j \in Nat : j + 1 \in 1..23 => Before[j + 1] = w[j + 1]}
  <2> HIDE DEF w
  <2>1. 0 \in D
    BY <1>2, <1>4, <1>7
  <2>2. ASSUME NEW j \in Nat, j \in D PROVE j + 1 \in D
    <3> SUFFICES ASSUME j + 2 \in 1..23 PROVE Before[j + 2] = w[j + 2]
      OBVIOUS
    <3>1. j + 1 \in 1..23 /\ (j + 2) - 1 = j + 1 /\ j + 2 # 1 /\ j + 2 \in 2..23
      OBVIOUS
    <3>2. Before[j + 2] = Before[j + 1] + Layout[j + 1][2]
      BY <1>2, <1>7, <3>1
    <3>3. w[j + 2] = w[j + 1] + Layout[j + 1][2]
      BY <1>5, <3>1
    <3>4. Before[j + 1] = w[j + 1]
      BY <2>2, <3>1
    <3> QED BY <3>2, <3>3, <3>4
  <2>3. Nat \subseteq D
    <3> HIDE DEF D
    <3> QED BY <2>1, <2>2, NatSetInduction
  <2> SUFFICES ASSUME NEW k \in 1..23 PROVE Before[k] = w[k]
    OBVIOUS
  <2>4. k - 1 \in Nat /\ (k - 1) + 1 = k
    OBVIOUS
  <2>5. k - 1 \in D
    <3> HIDE DEF D
    <3> QED BY <2>3, <2>4
  <2> QED BY <2>4, <2>5
<1>9. HeaderSize = Len(HeaderBytes(header))
  <2>1. w[23] = Len(Upto(s, 22))
    OBVIOUS
  <2> HIDE DEF w
  <2> QED BY <1>1, <1>2, <1>3, <1>8, <2>1 DEF HeaderSize
<1>10. HeaderSize \in Nat
  <2>1. FlattenSeq(s) \in Seq(S)
    BY <1>1, FlattenType
  <2> QED BY <1>1, <1>9, <2>1, LenProperties
<1>11. \A k \in Fields : Before[k] = Len(Upto(s, k - 1))
  <2>1. \A j \in 1..23 : w[j] = Len(Upto(s, j - 1))
    OBVIOUS
  <2>2. \A k \in Fields : k \in 1..23
    BY DEF Fields
  <2> HIDE DEF w
  <2> QED BY <1>8, <2>1, <2>2, Zenon
<1> QED BY <1>9, <1>10, <1>11 DEF s

(* Every field of the header is read back.                                 *)
LEMMA HeaderRead ==
  ASSUME NEW V, NEW header, \A k \in Fields : header[FieldName(k)] \in V,
         NEW file, Len(file) \in Nat, Holds(file, 0, HeaderBytes(header)),
         NEW k \in Fields
  PROVE  Read(file, Before[k], FieldWidth(k)) = header[FieldName(k)]
<1> DEFINE s == FieldBytes(header)
           S == ByteOver(V)
<1>1. s \in Seq(Seq(S)) /\ Len(s) = 22 /\ HeaderBytes(header) = FlattenSeq(s)
  BY HeaderFields
<1>2. s[k] = Bytes(header[FieldName(k)], FieldWidth(k))
  BY DEF FieldBytes
<1>3. Before[k] = Len(Upto(s, k - 1))
  BY BeforeCounts
<1> HIDE DEF s, S
<1>4. Holds(file, 0 + Len(Upto(s, k - 1)), s[k]) /\ 0 + Len(Upto(s, k - 1)) \in Nat
  <2>1. k \in 1..Len(s) /\ 0 \in Nat
    BY <1>1 DEF Fields
  <2>2. Holds(file, 0, FlattenSeq(s))
    BY <1>1
  <2> QED BY <1>1, <2>1, <2>2, HoldsEach, Zenon
<1>5. 0 + Len(Upto(s, k - 1)) = Len(Upto(s, k - 1))
  <2>1. k \in 1..Len(s)
    BY <1>1 DEF Fields
  <2>2. Upto(s, k - 1) \in Seq(S)
    BY <1>1, <2>1, UptoStep
  <2>3. Len(Upto(s, k - 1)) \in Nat
    BY <2>2, LenProperties
  <2> DEFINE l == Len(Upto(s, k - 1))
  <2>4. l \in Nat
    BY <2>3
  <2> HIDE DEF l
  <2>5. 0 + l = l
    BY <2>4
  <2> QED BY <2>5 DEF l
<1>6. Holds(file, Before[k], Bytes(header[FieldName(k)], FieldWidth(k))) /\ Before[k] \in Nat
  BY <1>2, <1>3, <1>4, <1>5, Zenon
<1> QED BY <1>6, LayoutIs, ReadsBack

-----------------------------------------------------------------------------
(* The sections.                                                           *)

LEMMA FeaturesRead ==
  ASSUME NEW V, Int \subseteq V, NEW fs \in Seq(V)
  PROVE  /\ FeatureBytes(fs) \in Seq(ByteOver(V)) /\ Len(FeatureBytes(fs)) >= 4
         /\ \A file : \A p \in Nat : Len(file) \in Nat /\ Holds(file, p, FeatureBytes(fs))
              => /\ Read(file, p, 4) = Len(fs)
                 /\ Numbers(file, Len(fs), p + 4, 8).item = fs
<1> DEFINE S == ByteOver(V)
           a == Bytes(Len(fs), 4)
           x == FlattenSeq(FieldsOf(fs, 8))
           b == a \o x
<1>1. FieldsOf(fs, 8) \in Seq(Seq(S)) /\ a \in Seq(S) /\ Len(a) = 4
  <2>1. Len(fs) \in V
    OBVIOUS
  <2>2. a \in Seq(S) /\ Len(a) = 4
    BY <2>1, BytesType
  <2> QED BY <2>2, FieldsType
<1>2. FeatureBytes(fs) = b
  <2>1. DOMAIN fs = 1..Len(fs)
    OBVIOUS
  <2> QED BY <2>1 DEF FeatureBytes, Concat, FieldsOf
<1> HIDE DEF S
<1>3. x \in Seq(S)
  BY <1>1, FlattenType
<1> HIDE DEF x, a
<1>4. Followed(S, b, a, 4, x)
  <2>1. 4 \in Nat
    OBVIOUS
  <2> QED BY <1>1, <1>3, <2>1, RestAdded, Zenon
<1> HIDE DEF b
<1>5. b \in Seq(S) /\ Len(b) >= 4
  BY <1>3, <1>4 DEF Followed
<1>6. ASSUME NEW file, NEW p \in Nat, Len(file) \in Nat, Holds(file, p, b)
      PROVE  Read(file, p, 4) = Len(fs) /\ Numbers(file, Len(fs), p + 4, 8).item = fs
  <2>1. Holds(file, p, a) /\ Holds(file, p + 4, x) /\ p + 4 \in Nat
    BY <1>4, <1>6 DEF Followed
  <2>2. Read(file, p, 4) = Len(fs)
    BY <1>6, <2>1, ReadsBack DEF a
  <2>3. Numbers(file, Len(fs), p + 4, 8) = Item(fs, (p + 4) + Len(x))
    BY <1>6, <2>1, NumbersRead DEF x
  <2> QED BY <2>2, <2>3 DEF Item
<1> QED BY <1>2, <1>5, <1>6 DEF S

LEMMA TypesRead ==
  ASSUME NEW V, Int \subseteq V, NEW ts \in Seq(TypeEntries(V))
  PROVE  /\ TypesBytes(ts) \in Seq(ByteOver(V)) /\ Len(TypesBytes(ts)) >= 4
         /\ \A file : \A p \in Nat : Len(file) \in Nat /\ Holds(file, p, TypesBytes(ts))
              => /\ Read(file, p, 4) = Len(ts)
                 /\ Many(Len(ts), p + 4, [pos \in Nat |-> ReadType(file, pos)]).item = ts
<1> DEFINE S == ByteOver(V)
           T == TypeEntries(V)
           a == Bytes(Len(ts), 4)
           s == [k \in 1..Len(ts) |-> TypeBytes(ts[k])]
           x == FlattenSeq(s)
           b == a \o x
<1>1. a \in Seq(S) /\ Len(a) = 4
  <2>1. Len(ts) \in V
    OBVIOUS
  <2> QED BY <2>1, BytesType
<1>2. TypesBytes(ts) = b
  <2>1. DOMAIN ts = 1..Len(ts)
    OBVIOUS
  <2> QED BY <2>1 DEF TypesBytes, Concat
<1>3. \A k \in 1..Len(ts) :
        /\ TypeBytes(ts[k]) \in Seq(S)
        /\ \A file : \A p \in Nat : Len(file) \in Nat /\ Holds(file, p, TypeBytes(ts[k]))
             => ReadType(file, p) = Item(ts[k], p + Len(TypeBytes(ts[k])))
  <2> SUFFICES ASSUME NEW k \in 1..Len(ts)
               PROVE  /\ TypeBytes(ts[k]) \in Seq(S)
                      /\ \A file : \A p \in Nat : Len(file) \in Nat /\ Holds(file, p, TypeBytes(ts[k]))
                           => ReadType(file, p) = Item(ts[k], p + Len(TypeBytes(ts[k])))
    OBVIOUS
  <2>1. ts[k] \in TypeEntries(V)
    BY ElementOfSeq
  <2> QED BY <2>1, TypeRead
<1> HIDE DEF S, T
<1>4. s \in Seq(Seq(S)) /\ Len(s) = Len(ts)
  <2>1. s \in [1..Len(ts) -> Seq(S)] /\ Len(ts) \in Nat
    BY <1>3
  <2> HIDE DEF s
  <2> QED BY <2>1, FunctionIsSeq
<1>5. x \in Seq(S)
  <2> HIDE DEF s
  <2> QED BY <1>4, FlattenType
<1> HIDE DEF x, a
<1>6. Followed(S, b, a, 4, x)
  <2>1. 4 \in Nat
    OBVIOUS
  <2> QED BY <1>1, <1>5, <2>1, RestAdded, Zenon
<1> HIDE DEF b
<1>7. b \in Seq(S) /\ Len(b) >= 4
  BY <1>5, <1>6 DEF Followed
<1>8. ASSUME NEW file, NEW p \in Nat, Len(file) \in Nat, Holds(file, p, b)
      PROVE  /\ Read(file, p, 4) = Len(ts)
             /\ Many(Len(ts), p + 4, [pos \in Nat |-> ReadType(file, pos)]).item = ts
  <2> DEFINE one == [pos \in Nat |-> ReadType(file, pos)]
  <2>1. Holds(file, p, a) /\ Holds(file, p + 4, x) /\ p + 4 \in Nat
    BY <1>6, <1>8 DEF Followed
  <2>2. Read(file, p, 4) = Len(ts)
    BY <1>8, <2>1, ReadsBack DEF a
  <2>3. ReadsItems(file, s, ts, one)
    BY <1>3, <1>4, <1>8 DEF ReadsItems
  <2>4. Holds(file, p + 4, FlattenSeq(s)) /\ ts \in Seq(T)
    BY <2>1 DEF x, T
  <2> HIDE DEF one, s
  <2>5. Many(Len(s), p + 4, one) = Item(ts, (p + 4) + Len(FlattenSeq(s)))
    BY <1>4, <1>8, <2>1, <2>3, <2>4, ManyRead
  <2>6. Many(Len(ts), p + 4, one).item = ts
    BY <1>4, <2>5 DEF Item
  <2> QED BY <2>2, <2>6 DEF one
<1> QED BY <1>2, <1>7, <1>8 DEF S

LEMMA ConstsRead ==
  ASSUME NEW V, Int \subseteq V, NEW cs \in Seq(ConstEntries(V))
  PROVE  /\ Concat(cs, ConstBytes) \in Seq(ByteOver(V))
         /\ \A file : \A p \in Nat : Len(file) \in Nat /\ Holds(file, p, Concat(cs, ConstBytes))
              => Many(Len(cs), p, [pos \in Nat |-> ReadConst(file, pos)]).item = cs
<1> DEFINE S == ByteOver(V)
           T == ConstEntries(V)
           s == [k \in 1..Len(cs) |-> ConstBytes(cs[k])]
           x == FlattenSeq(s)
<1>1. Concat(cs, ConstBytes) = x
  <2>1. DOMAIN cs = 1..Len(cs)
    OBVIOUS
  <2> QED BY <2>1 DEF Concat
<1>2. \A k \in 1..Len(cs) :
        /\ ConstBytes(cs[k]) \in Seq(S) /\ Len(ConstBytes(cs[k])) = 24
        /\ \A file : \A p \in Nat : Len(file) \in Nat /\ Holds(file, p, ConstBytes(cs[k]))
             => ReadConst(file, p) = Item(cs[k], p + 24)
  <2> SUFFICES ASSUME NEW k \in 1..Len(cs)
               PROVE  /\ ConstBytes(cs[k]) \in Seq(S) /\ Len(ConstBytes(cs[k])) = 24
                      /\ \A file : \A p \in Nat : Len(file) \in Nat /\ Holds(file, p, ConstBytes(cs[k]))
                           => ReadConst(file, p) = Item(cs[k], p + 24)
    OBVIOUS
  <2>1. cs[k] \in ConstEntries(V)
    BY ElementOfSeq
  <2> QED BY <2>1, ConstRead
<1> HIDE DEF S, T
<1>3. s \in Seq(Seq(S)) /\ Len(s) = Len(cs)
  <2>1. s \in [1..Len(cs) -> Seq(S)] /\ Len(cs) \in Nat
    BY <1>2
  <2> HIDE DEF s
  <2> QED BY <2>1, FunctionIsSeq
<1>4. x \in Seq(S)
  <2> HIDE DEF s
  <2> QED BY <1>3, FlattenType
<1>5. ASSUME NEW file, NEW p \in Nat, Len(file) \in Nat, Holds(file, p, x)
      PROVE  Many(Len(cs), p, [pos \in Nat |-> ReadConst(file, pos)]).item = cs
  <2> DEFINE one == [pos \in Nat |-> ReadConst(file, pos)]
  <2>1. ReadsItems(file, s, cs, one)
    BY <1>2, <1>3, <1>5 DEF ReadsItems
  <2>2. Holds(file, p, FlattenSeq(s)) /\ cs \in Seq(T)
    BY <1>5 DEF x, T
  <2> HIDE DEF one, s
  <2>3. Many(Len(s), p, one) = Item(cs, p + Len(FlattenSeq(s)))
    BY <1>3, <1>5, <2>1, <2>2, ManyRead
  <2>4. Many(Len(cs), p, one).item = cs
    BY <1>3, <2>3 DEF Item
  <2> QED BY <2>4 DEF one
<1> HIDE DEF x
<1> QED BY <1>1, <1>4, <1>5 DEF S

Instrs(V) == LoadInstrs(V) \cup OpInstrs(V)

LEMMA KnownInstrs ==
  ASSUME NEW V
  PROVE  Unknown \notin Instrs(V)
<1>1. \A i \in Instrs(V) : i.op \in {"load", "op", "varop"}
  BY DEF Instrs, LoadInstrs, OpInstrs
<1>2. Unknown.op = "unknown"
  BY DEF Unknown
<1> QED BY <1>1, <1>2

LEMMA InstructionsRead ==
  ASSUME NEW V, Int \subseteq V, NEW is \in Seq(Instrs(V))
  PROVE  /\ Concat(is, InstrBytes) \in Seq(ByteOver(V))
         /\ \A file : \A p \in Nat : Len(file) \in Nat /\ Holds(file, p, Concat(is, InstrBytes))
              => ReadInstrs(file, p, p + Len(Concat(is, InstrBytes))) = is
<1> DEFINE S == ByteOver(V)
           T == Instrs(V)
           s == [k \in 1..Len(is) |-> InstrBytes(is[k])]
           x == FlattenSeq(s)
<1>1. Concat(is, InstrBytes) = x
  <2>1. DOMAIN is = 1..Len(is)
    OBVIOUS
  <2> QED BY <2>1 DEF Concat
<1>2. \A k \in 1..Len(is) : InstrReads(S, is[k])
  <2> SUFFICES ASSUME NEW k \in 1..Len(is) PROVE InstrReads(S, is[k])
    OBVIOUS
  <2>1. is[k] \in LoadInstrs(V) \/ is[k] \in OpInstrs(V)
    BY ElementOfSeq DEF Instrs
  <2>2. is[k] \in OpInstrs(V) => is[k].op = "op" \/ is[k].op = "varop"
    BY DEF OpInstrs
  <2> QED BY <2>1, <2>2, LoadRead, FixedRead, VarArgRead
<1>u. Unknown \notin T /\ is \in Seq(T)
  BY KnownInstrs
<1> HIDE DEF S, T
<1>3. s \in Seq(Seq(S)) /\ Len(s) = Len(is)
  <2>1. s \in [1..Len(is) -> Seq(S)] /\ Len(is) \in Nat
    BY <1>2 DEF InstrReads
  <2> HIDE DEF s
  <2> QED BY <2>1, FunctionIsSeq
<1>4. x \in Seq(S)
  <2> HIDE DEF s
  <2> QED BY <1>3, FlattenType
<1>5. ASSUME NEW file, NEW p \in Nat, Len(file) \in Nat, Holds(file, p, x)
      PROVE  ReadInstrs(file, p, p + Len(x)) = is
  <2>1. ReadsInstrs(file, s, is)
    BY <1>2, <1>3, <1>5 DEF InstrReads, ReadsInstrs
  <2>2. Holds(file, p, FlattenSeq(s))
    BY <1>5 DEF x
  <2>3. AtLeastEight(s)
    BY <1>2, <1>3 DEF InstrReads, AtLeastEight
  <2> HIDE DEF s
  <2>4. ReadInstrs(file, p, p + Len(FlattenSeq(s))) = is
    BY <1>3, <1>5, <1>u, <2>1, <2>2, <2>3, InstrsRead
  <2> QED BY <2>4
<1> HIDE DEF x
<1> QED BY <1>1, <1>4, <1>5 DEF S

-----------------------------------------------------------------------------
(* The checksum.                                                           *)

LEMMA SealedIs ==
  ASSUME NEW S, NEW content \in Seq(S)
  PROVE  /\ Sealed(content) \in Seq(S \cup {Byte(content, i, 0) : i \in 1..4})
         /\ Len(Sealed(content)) = Len(content) + 4
         /\ \A i \in 1..Len(content) : Sealed(content)[i] = content[i]
         /\ \A i \in 1..4 : Sealed(content)[Len(content) + i] = Byte(content, i, 0)
<1> DEFINE c == Checksum(content)
           B(i) == Byte(content, i, 0)
           S2 == S \cup {B(i) : i \in 1..4}
           n == Len(content)
<1>1. n \in Nat /\ \A i \in 1..n : content[i] \in S
  OBVIOUS
<1>2. content \in Seq(S2)
  <2>1. content \in [1..n -> S2] /\ n \in Nat
    BY <1>1
  <2> HIDE DEF n, S2
  <2> QED BY <2>1, FunctionIsSeq
<1>3. /\ c \in Seq(S2) /\ \A i \in 1..4 : c[i] = B(i)
      /\ \E l \in Nat : l = 4 /\ Len(c) = l
  <2>1. c = [i \in 1..4 |-> B(i)]
    BY DEF Checksum
  <2> HIDE DEF c, B
  <2>2. c \in [1..4 -> S2]
    BY <2>1
  <2> HIDE DEF S2
  <2>3. c \in Seq(S2) /\ Len(c) = 4
    BY <2>2, FunctionIsSeq
  <2> QED BY <2>1, <2>3
<1> HIDE DEF c, B, S2
<1>4. PICK l \in Nat : l = 4 /\ Len(c) = l
  BY <1>3
<1>5. /\ content \o c \in Seq(S2) /\ Len(content \o c) = n + l
      /\ \A i \in 1..n : (content \o c)[i] = content[i]
      /\ \A i \in 1..l : (content \o c)[n + i] = c[i]
  <2>1. Len(c) = l
    BY <1>4
  <2>2. \A a, b \in Seq(S2) : /\ a \o b \in Seq(S2) /\ Len(a \o b) = Len(a) + Len(b)
                              /\ \A i \in 1..Len(a) : (a \o b)[i] = a[i]
                              /\ \A i \in 1..Len(b) : (a \o b)[Len(a) + i] = b[i]
    OBVIOUS
  <2>3. /\ content \o c \in Seq(S2) /\ Len(content \o c) = n + Len(c)
        /\ \A i \in 1..n : (content \o c)[i] = content[i]
        /\ \A i \in 1..Len(c) : (content \o c)[n + i] = c[i]
    <3>1. content \in Seq(S2) /\ c \in Seq(S2)
      BY <1>2, <1>3
    <3>2. /\ content \o c \in Seq(S2) /\ Len(content \o c) = Len(content) + Len(c)
          /\ \A i \in 1..Len(content) : (content \o c)[i] = content[i]
          /\ \A i \in 1..Len(c) : (content \o c)[Len(content) + i] = c[i]
      BY <3>1, <2>2
    <3> QED BY <3>2
  <2> HIDE DEF n
  <2> QED BY <2>1, <2>3, Zenon
<1>6. Sealed(content) = content \o c
  BY DEF Sealed, c
<1> QED BY <1>3, <1>4, <1>5, <1>6 DEF S2, B

LEMMA WholeVerified ==
  ASSUME NEW S, NEW content \in Seq(S)
  PROVE  HasChecksum(Sealed(content))
<1> DEFINE f == Sealed(content)
           n == Len(content)
           S2 == S \cup {Byte(content, i, 0) : i \in 1..4}
<1>1. /\ f \in Seq(S2) /\ Len(f) = n + 4 /\ n \in Nat
      /\ \A i \in 1..n : f[i] = content[i]
      /\ \A i \in 1..4 : f[n + i] = Byte(content, i, 0)
  <2>1. n \in Nat
    OBVIOUS
  <2> QED BY <2>1, SealedIs, Zenon
<1> HIDE DEF f, S2
<1>2. Len(f) >= 4 /\ Len(f) - 4 = n
  BY <1>1
<1>3. \A i \in 1..4 : f[n + i].part = i /\ f[n + i].width = 0 /\ f[n + i].of = content
  BY <1>1 DEF Byte
<1>4. SubSeq(f, 1, n) = content
  <2>1. SubSeq(f, 1, n) \in Seq(S2) /\ Len(SubSeq(f, 1, n)) = n
    BY <1>1
  <2>2. \A i \in 1..n : SubSeq(f, 1, n)[i] = f[i]
    BY <1>1
  <2>3. \A i \in 1..n : SubSeq(f, 1, n)[i] = content[i]
    BY <1>1, <2>2
  <2> HIDE DEF n
  <2> QED BY <2>1, <2>3, SeqEqual DEF n
<1>5. 1 \in 1..4
  OBVIOUS
<1> QED BY <1>2, <1>3, <1>4, <1>5, Zenon DEF HasChecksum, f

(* A file that ends early has a number's or a constant's byte where the checksum *)
(* would begin.                                                            *)
LEMMA CutNotVerified ==
  ASSUME NEW V, NEW content \in Seq(ByteOver(V)), NEW m \in Nat \ {0}
  PROVE  ~HasChecksum(SubSeq(Sealed(content), 1, Len(Sealed(content)) - m))
<1> DEFINE f == Sealed(content)
           n == Len(content)
           S == ByteOver(V)
           S2 == S \cup {Byte(content, i, 0) : i \in 1..4}
           k == (n + 4) - m
           cut == SubSeq(f, 1, k)
<1>1. /\ f \in Seq(S2) /\ Len(f) = n + 4 /\ n \in Nat
      /\ \A i \in 1..n : f[i] = content[i]
  <2>1. n \in Nat
    OBVIOUS
  <2> HIDE DEF S
  <2>2. content \in Seq(S)
    BY DEF S
  <2> QED BY <2>1, <2>2, SealedIs, Zenon
<1>2. \A i \in 1..n : content[i] \in ByteOver(V)
  BY ElementOfSeq
<1> HIDE DEF f, S, S2
<1> SUFFICES ASSUME HasChecksum(cut) PROVE FALSE
  BY <1>1 DEF f
<1>3. k \in Int /\ k <= n + 3
  BY <1>1
<1>4. Len(cut) = IF k > 0 THEN k ELSE 0
  BY <1>1, <1>3
<1>5. Len(cut) >= 4
  BY DEF HasChecksum
<1>6. k >= 4 /\ Len(cut) = k
  BY <1>3, <1>4, <1>5
<1>7. (k - 4) + 1 \in 1..n /\ (k - 4) + 1 \in 1..k
  BY <1>1, <1>3, <1>6
<1>8. cut[(k - 4) + 1] = content[(k - 4) + 1]
  BY <1>1, <1>3, <1>6, <1>7
<1>9. cut[(k - 4) + 1].part = 1 /\ cut[(k - 4) + 1].width = 0
  <2>1. \A i \in 1..4 : cut[(Len(cut) - 4) + i].part = i /\ cut[(Len(cut) - 4) + i].width = 0
    BY DEF HasChecksum
  <2> HIDE DEF cut, k
  <2> QED BY <1>6, <2>1
<1> HIDE DEF cut, k
<1>10. content[(k - 4) + 1] \in ByteOver(V)
  BY <1>2, <1>7
<1> QED BY <1>8, <1>9, <1>10 DEF ByteOver

-----------------------------------------------------------------------------
(* The file.                                                               *)

IsProgram(V, p) ==
  /\ p.features \in Seq(V) /\ p.types \in Seq(TypeEntries(V))
  /\ p.consts \in Seq(ConstEntries(V)) /\ p.blob \in Seq(ByteOver(V))
  /\ p.instrs \in Seq(Instrs(V))

LEMMA SectionsAre ==
  ASSUME NEW V, Int \subseteq V, NEW p, IsProgram(V, p)
  PROVE  /\ Sections(p) \in Seq(Seq(ByteOver(V))) /\ Len(Sections(p)) = 5
         /\ Sections(p)[1] = FeatureBytes(p.features) /\ Sections(p)[2] = TypesBytes(p.types)
         /\ Sections(p)[3] = Concat(p.consts, ConstBytes) /\ Sections(p)[4] = p.blob
         /\ Sections(p)[5] = Concat(p.instrs, InstrBytes)
<1> DEFINE S == ByteOver(V)
           a == FeatureBytes(p.features)
           b == TypesBytes(p.types)
           c == Concat(p.consts, ConstBytes)
           d == Concat(p.instrs, InstrBytes)
<1>1. a \in Seq(S) /\ b \in Seq(S) /\ c \in Seq(S) /\ p.blob \in Seq(S) /\ d \in Seq(S)
  BY FeaturesRead, TypesRead, ConstsRead, InstructionsRead DEF IsProgram
<1>2. Sections(p) = <<a, b, c, p.blob, d>>
  BY DEF Sections
<1> HIDE DEF S, a, b, c, d
<1>3. <<a, b, c, p.blob, d>> \in Seq(Seq(S))
  BY <1>1
<1> QED BY <1>2, <1>3 DEF S, a, b, c, d

LEMMA HeaderSizeNat == HeaderSize \in Nat
<1> DEFINE header == [name \in HeaderNames |-> 0]
<1>1. \A k \in Fields : header[FieldName(k)] \in Int
  BY DEF HeaderNames
<1> HIDE DEF header
<1> QED BY <1>1, BeforeCounts

(* Where the header says a section begins, and how long it is.             *)
Starts(p, k) == HeaderSize + Len(Upto(Sections(p), k - 1))

LEMMA HeaderIs ==
  ASSUME NEW p, NEW n
  PROVE  LET h == Header(p, n)
         IN /\ h.magic = Magic
            /\ h.types_count = Len(p.types) /\ h.const_count = Len(p.consts)
            /\ h.feature_off = Starts(p, 1) /\ h.types_off = Starts(p, 2)
            /\ h.const_tbl_off = Starts(p, 3) /\ h.const_blob_off = Starts(p, 4)
            /\ h.const_blob_len = Len(Sections(p)[4])
            /\ h.instr_off = Starts(p, 5) /\ h.instr_len = Len(Sections(p)[5])
            /\ h.reg_count = n
BY DEF Header, Starts, Upto

LEMMA StartsNat ==
  ASSUME NEW V, Int \subseteq V, NEW p, IsProgram(V, p), NEW k \in 1..6
  PROVE  Starts(p, k) \in Nat
<1> DEFINE s == Sections(p)
           S == ByteOver(V)
<1>1. s \in Seq(Seq(S)) /\ Len(s) = 5
  BY SectionsAre
<1> HIDE DEF s, S
<1>2. Upto(s, k - 1) \in Seq(S)
  <2> DEFINE j == k - 1
  <2>0. j \in 0..Len(s)
    BY <1>1
  <2> HIDE DEF j
  <2>1. SubSeq(s, 1, j) \in Seq(Seq(S))
    <3>1. \A q \in Seq(Seq(S)) : \A i \in 0..Len(q) : SubSeq(q, 1, i) \in Seq(Seq(S))
      OBVIOUS
    <3> QED BY <1>1, <2>0, <3>1, Zenon
  <2> QED BY <2>1, FlattenType DEF Upto, j
<1>3. Len(Upto(s, k - 1)) \in Nat
  BY <1>2, LenProperties
<1> QED BY <1>3, HeaderSizeNat DEF Starts, s

LEMMA HeaderFits ==
  ASSUME NEW V, Int \subseteq V, NEW p, IsProgram(V, p), NEW n \in Nat
  PROVE  \A k \in Fields : Header(p, n)[FieldName(k)] \in V
<1> DEFINE h == Header(p, n)
           o(k) == HeaderSize + Len(FlattenSeq(SubSeq(Sections(p), 1, k - 1)))
<1>1. \A k \in 1..6 : o(k) \in Nat
  BY StartsNat DEF Starts, Upto
<1>2. /\ Len(p.features) \in Nat /\ Len(p.types) \in Nat /\ Len(p.consts) \in Nat /\ Len(p.instrs) \in Nat
      /\ Len(Sections(p)[3]) \in Nat /\ Len(Sections(p)[4]) \in Nat /\ Len(Sections(p)[5]) \in Nat
  <2>1. Sections(p) \in Seq(Seq(ByteOver(V))) /\ Len(Sections(p)) = 5
    BY SectionsAre
  <2>2. \A k \in 1..5 : Sections(p)[k] \in Seq(ByteOver(V))
    BY <2>1, ElementOfSeq
  <2>3. \A k \in 1..5 : Len(Sections(p)[k]) \in Nat
    BY <2>2, LenProperties
  <2>4. 3 \in 1..5 /\ 4 \in 1..5 /\ 5 \in 1..5
    OBVIOUS
  <2>5. /\ Len(p.features) \in Nat /\ Len(p.types) \in Nat /\ Len(p.consts) \in Nat /\ Len(p.instrs) \in Nat
    BY LenProperties DEF IsProgram
  <2> QED BY <2>3, <2>4, <2>5
<1>3. 1 \in 1..6 /\ 2 \in 1..6 /\ 3 \in 1..6 /\ 4 \in 1..6 /\ 5 \in 1..6 /\ 6 \in 1..6
  OBVIOUS
<1>4. /\ o(1) \in Nat /\ o(2) \in Nat /\ o(3) \in Nat /\ o(4) \in Nat /\ o(5) \in Nat /\ o(6) \in Nat
  <2> HIDE DEF o
  <2> QED BY <1>1, <1>3
<1>5. h = [magic |-> Magic, version |-> 1, mech_ver |-> 0, flags |-> 0,
      reg_count |-> n, instr_count |-> Len(p.instrs),
      feature_count |-> Len(p.features), feature_off |-> o(1),
      types_count |-> Len(p.types), types_off |-> o(2),
      const_count |-> Len(p.consts), const_tbl_off |-> o(3), const_tbl_len |-> Len(Sections(p)[3]),
      const_blob_off |-> o(4), const_blob_len |-> Len(Sections(p)[4]),
      symbols_len |-> 0, symbols_off |-> o(5), instr_off |-> o(5), instr_len |-> Len(Sections(p)[5]),
      dict_off |-> o(6), dict_len |-> 0, reserved |-> 0]
  BY DEF Header
<1> HIDE DEF h, o
<1>6. \A name \in DOMAIN h : h[name] \in Int
  <2>1. /\ h.magic \in Int /\ h.version \in Int /\ h.mech_ver \in Int /\ h.flags \in Int
        /\ h.reg_count \in Int /\ h.instr_count \in Int /\ h.feature_count \in Int
        /\ h.feature_off \in Int /\ h.types_count \in Int /\ h.types_off \in Int
        /\ h.const_count \in Int
    BY <1>2, <1>4, <1>5 DEF Magic
  <2>2. /\ h.const_tbl_off \in Int /\ h.const_tbl_len \in Int
        /\ h.const_blob_off \in Int /\ h.const_blob_len \in Int
        /\ h.symbols_len \in Int /\ h.symbols_off \in Int /\ h.instr_off \in Int /\ h.instr_len \in Int
        /\ h.dict_off \in Int /\ h.dict_len \in Int /\ h.reserved \in Int
    BY <1>2, <1>4, <1>5
  <2>3. DOMAIN h = {"magic", "version", "mech_ver", "flags", "reg_count", "instr_count", "feature_count",
          "feature_off", "types_count", "types_off", "const_count", "const_tbl_off", "const_tbl_len",
          "const_blob_off", "const_blob_len", "symbols_len", "symbols_off", "instr_off", "instr_len",
          "dict_off", "dict_len", "reserved"}
    BY <1>5
  <2> QED BY <2>1, <2>2, <2>3
<1>7. \A k \in Fields : FieldName(k) \in DOMAIN h
  BY NamesOfHeader DEF HeaderNames, h
<1> QED BY <1>6, <1>7 DEF h

(* The header as load_program_from_reader reads it.                        *)
HeaderOf(file) ==
  LET f(name) == CHOOSE k \in DOMAIN Layout : Layout[k][1] = name
  IN [name \in {Layout[k][1] : k \in DOMAIN Layout} |-> Read(file, Before[f(name)], Layout[f(name)][2])]

LEMMA HeaderBack ==
  ASSUME NEW V, Int \subseteq V, NEW p, IsProgram(V, p), NEW n \in Nat,
         NEW file, Len(file) \in Nat, Holds(file, 0, HeaderBytes(Header(p, n)))
  PROVE  HeaderOf(file) = Header(p, n)
<1> DEFINE h == Header(p, n)
           f(name) == CHOOSE k \in DOMAIN Layout : Layout[k][1] = name
           H == HeaderOf(file)
<1>1. DOMAIN h = HeaderNames /\ h = [name \in DOMAIN h |-> h[name]]
  <2>1. h = [name \in DOMAIN h |-> h[name]]
    BY DEF Header
  <2> QED BY <2>1, NamesOfHeader
<1>2. DOMAIN Layout = Fields /\ {Layout[k][1] : k \in DOMAIN Layout} = HeaderNames
  BY LayoutIs DEF HeaderNames, FieldName
<1>3. ASSUME NEW k \in Fields PROVE f(FieldName(k)) = k
  BY <1>2, NamesDiffer DEF FieldName
<1>4. ASSUME NEW k \in Fields PROVE Read(file, Before[k], FieldWidth(k)) = h[FieldName(k)]
  <2>1. \A j \in Fields : h[FieldName(j)] \in V
    BY HeaderFits
  <2> HIDE DEF h
  <2>2. Holds(file, 0, HeaderBytes(h))
    BY DEF h
  <2> QED BY <2>1, <2>2, HeaderRead
<1> HIDE DEF h, f
<1>5. HeaderOf(file) = [name \in HeaderNames |-> Read(file, Before[f(name)], FieldWidth(f(name)))]
  BY <1>2 DEF HeaderOf, f, FieldWidth
<1>6. ASSUME NEW name \in HeaderNames
      PROVE  Read(file, Before[f(name)], FieldWidth(f(name))) = h[name]
  <2>1. PICK k \in Fields : name = FieldName(k)
    BY DEF HeaderNames
  <2>2. f(name) = k
    BY <1>3, <2>1
  <2> QED BY <1>4, <2>1, <2>2
<1>7. HeaderOf(file) = h
  BY <1>1, <1>5, <1>6
<1> QED BY <1>7 DEF h

(* Whatever program is written, loading gives it back, with its header.    *)
WithHeader(h, p) ==
  [header |-> h, features |-> p.features, types |-> p.types, consts |-> p.consts,
   blob |-> p.blob, instrs |-> p.instrs]

LEMMA ContentHolds ==
  ASSUME NEW V, Int \subseteq V, NEW p, IsProgram(V, p), NEW n \in Nat
  PROVE  LET content == Content(Header(p, n), p)
             file == Sealed(content)
         IN /\ content \in Seq(ByteOver(V)) /\ Len(file) \in Nat /\ Len(file) = Len(content) + 4
            /\ Len(content) = HeaderSize + Len(FlattenSeq(Sections(p)))
            /\ Holds(file, 0, HeaderBytes(Header(p, n)))
            /\ Holds(file, HeaderSize, FlattenSeq(Sections(p)))
<1> DEFINE S == ByteOver(V)
           a == HeaderBytes(Header(p, n))
           b == FlattenSeq(Sections(p))
           content == Content(Header(p, n), p)
           file == Sealed(content)
<1>1. a \in Seq(S) /\ HeaderSize = Len(a) /\ HeaderSize \in Nat
  <2> DEFINE h == Header(p, n)
  <2>1. \A k \in Fields : h[FieldName(k)] \in V
    BY HeaderFits
  <2> HIDE DEF h, S
  <2>2. FieldBytes(h) \in Seq(Seq(S)) /\ HeaderBytes(h) = FlattenSeq(FieldBytes(h))
    BY <2>1, HeaderFields DEF S
  <2>3. HeaderSize = Len(HeaderBytes(h)) /\ HeaderSize \in Nat
    BY <2>1, BeforeCounts
  <2> QED BY <2>2, <2>3, FlattenType DEF h
<1>2. b \in Seq(S)
  <2>1. Sections(p) \in Seq(Seq(S))
    BY SectionsAre
  <2> HIDE DEF S
  <2> QED BY <2>1, FlattenType
<1> HIDE DEF S, a, b
<1>3. content = a \o b
  BY DEF Content, a, b
<1>4. content \in Seq(S) /\ Len(content) = Len(a) + Len(b) /\ Len(content) \in Nat
  BY <1>1, <1>2, <1>3
<1> HIDE DEF content
<1>5. Len(file) = Len(content) + 4 /\ \A i \in 1..Len(content) : file[i] = content[i]
  BY <1>4, SealedIs, Zenon
<1> HIDE DEF file
<1>6. Holds(file, 0, content)
  BY <1>4, <1>5 DEF Holds
<1>7. Holds(file, 0, a) /\ Holds(file, 0 + Len(a), b)
  BY <1>1, <1>2, <1>3, <1>4, <1>5, <1>6, HoldsParts
<1>8. Holds(file, HeaderSize, b)
  BY <1>1, <1>7
<1> QED BY <1>1, <1>4, <1>5, <1>7, <1>8 DEF S, a, b, content, file

(* Each section lies where the header says.                                *)
LEMMA SectionHolds ==
  ASSUME NEW V, Int \subseteq V, NEW p, IsProgram(V, p), NEW n \in Nat, NEW k \in 1..5
  PROVE  /\ Holds(Sealed(Content(Header(p, n), p)), Starts(p, k), Sections(p)[k])
         /\ Starts(p, k) \in Nat
         /\ Len(Sections(p)[k]) \in Nat
         /\ Starts(p, k + 1) = Starts(p, k) + Len(Sections(p)[k])
<1> DEFINE S == ByteOver(V)
           s == Sections(p)
           file == Sealed(Content(Header(p, n), p))
<1>1. s \in Seq(Seq(S)) /\ Len(s) = 5
  BY SectionsAre
<1>2. Len(file) \in Nat /\ Holds(file, HeaderSize, FlattenSeq(s))
  BY ContentHolds
<1>3. k \in 1..Len(s)
  BY <1>1
<1> HIDE DEF S, s, file
<1>4. Holds(file, HeaderSize + Len(Upto(s, k - 1)), s[k])
  BY <1>1, <1>2, <1>3, HeaderSizeNat, HoldsEach, Zenon
<1>5. Starts(p, k) \in Nat
  <2>1. k \in 1..6
    OBVIOUS
  <2> QED BY <2>1, StartsNat
<1>6. Len(s[k]) \in Nat /\ Len(Upto(s, k)) = Len(Upto(s, k - 1)) + Len(s[k]) /\ Len(Upto(s, k - 1)) \in Nat
  BY <1>1, <1>3, UptoStep, LenProperties
<1>7. HeaderSize + Len(Upto(s, (k + 1) - 1)) = (HeaderSize + Len(Upto(s, k - 1))) + Len(s[k])
  <2> DEFINE x == Len(Upto(s, k - 1))
             y == Len(s[k])
             z == Len(Upto(s, k))
  <2>1. x \in Nat /\ y \in Nat /\ z = x + y /\ (k + 1) - 1 = k
    BY <1>6
  <2> HIDE DEF x, y, z
  <2>2. HeaderSize + z = (HeaderSize + x) + y
    BY <2>1, HeaderSizeNat
  <2> QED BY <2>1, <2>2 DEF x, y, z
<1> QED BY <1>4, <1>5, <1>6, <1>7 DEF Starts, s, file

(* What CompileCtx::compile writes, load_program_from_reader reads: every field of *)
(* the header and every section, for any program of any length.            *)
THEOREM WhatIsWrittenIsRead ==
  ASSUME NEW V, Int \subseteq V, NEW p, IsProgram(V, p), NEW n \in Nat
  PROVE  Loaded(Written(p, n)) = [ok |-> TRUE, program |-> WithHeader(Header(p, n), p)]
<1> DEFINE h == Header(p, n)
           s == Sections(p)
           content == Content(h, p)
           file == Sealed(content)
           end == h.instr_off + h.instr_len
           readF(o) == Numbers(file, Read(file, o, 4), o + 4, 8).item
           readT(o) == Many(Read(file, o, 4), o + 4, [pos \in Nat |-> ReadType(file, pos)]).item
           readC == Many(h.const_count, h.const_tbl_off, [pos \in Nat |-> ReadConst(file, pos)]).item
           readI == ReadInstrs(file, h.instr_off, end)
           readB == SubSeq(file, h.const_blob_off + 1, h.const_blob_off + h.const_blob_len)
<1>1. /\ content \in Seq(ByteOver(V)) /\ Len(file) \in Nat /\ Len(file) = Len(content) + 4
      /\ Len(content) = HeaderSize + Len(FlattenSeq(s))
      /\ Holds(file, 0, HeaderBytes(h))
  BY ContentHolds
<1>2. HeaderOf(file) = h
  <2> HIDE DEF content
  <2> HIDE DEF file
  <2> QED BY <1>1, HeaderBack
<1>3. HasChecksum(file)
  <2>1. content \in Seq(ByteOver(V))
    BY <1>1
  <2> HIDE DEF content
  <2> QED BY <2>1, WholeVerified
<1>4. \A k \in 1..5 : /\ Holds(file, Starts(p, k), s[k]) /\ Starts(p, k) \in Nat
                      /\ Len(s[k]) \in Nat /\ Starts(p, k + 1) = Starts(p, k) + Len(s[k])
  BY SectionHolds
<1>5. /\ s \in Seq(Seq(ByteOver(V))) /\ Len(s) = 5
      /\ s[1] = FeatureBytes(p.features) /\ s[2] = TypesBytes(p.types)
      /\ s[3] = Concat(p.consts, ConstBytes) /\ s[4] = p.blob /\ s[5] = Concat(p.instrs, InstrBytes)
  BY SectionsAre
<1>6. /\ h.magic = Magic
      /\ h.types_count = Len(p.types) /\ h.const_count = Len(p.consts)
      /\ h.feature_off = Starts(p, 1) /\ h.types_off = Starts(p, 2)
      /\ h.const_tbl_off = Starts(p, 3) /\ h.const_blob_off = Starts(p, 4)
      /\ h.const_blob_len = Len(s[4])
      /\ h.instr_off = Starts(p, 5) /\ h.instr_len = Len(s[5])
  BY HeaderIs
<1>7. Loaded(file) =
        IF ~Verified(file) \/ Len(file) < HeaderSize \/ HeaderOf(file).magic # Magic
           \/ HeaderOf(file).instr_off + HeaderOf(file).instr_len > Len(file)
           \/ Contains(ReadInstrs(file, HeaderOf(file).instr_off,
                                  HeaderOf(file).instr_off + HeaderOf(file).instr_len), Unknown)
        THEN Refused
        ELSE [ok |-> TRUE,
              program |-> [header |-> HeaderOf(file),
                features |-> IF HeaderOf(file).feature_off + 8 <= Len(file)
                               THEN readF(HeaderOf(file).feature_off) ELSE <<>>,
                types |-> IF HeaderOf(file).types_off + 8 <= Len(file)
                            THEN readT(HeaderOf(file).types_off) ELSE <<>>,
                consts |-> Many(HeaderOf(file).const_count, HeaderOf(file).const_tbl_off,
                                [pos \in Nat |-> ReadConst(file, pos)]).item,
                blob |-> SubSeq(file, HeaderOf(file).const_blob_off + 1,
                                HeaderOf(file).const_blob_off + HeaderOf(file).const_blob_len),
                instrs |-> ReadInstrs(file, HeaderOf(file).instr_off,
                                  HeaderOf(file).instr_off + HeaderOf(file).instr_len)]]
  <2> HIDE DEF file
  <2> QED BY Zenon DEF Loaded, HeaderOf
<1>8. Loaded(file) =
        IF ~Verified(file) \/ Len(file) < HeaderSize \/ h.magic # Magic
           \/ end > Len(file) \/ Contains(readI, Unknown)
        THEN Refused
        ELSE [ok |-> TRUE,
              program |-> [header |-> h,
                features |-> IF h.feature_off + 8 <= Len(file) THEN readF(h.feature_off) ELSE <<>>,
                types |-> IF h.types_off + 8 <= Len(file) THEN readT(h.types_off) ELSE <<>>,
                consts |-> readC, blob |-> readB, instrs |-> readI]]
  <2> HIDE DEF h, file, readF, readT
  <2> QED BY <1>2, <1>7, Zenon
<1> HIDE DEF h, s, content, file
<1>9. 1 \in 1..5 /\ 2 \in 1..5 /\ 3 \in 1..5 /\ 4 \in 1..5 /\ 5 \in 1..5
  OBVIOUS
<1>10. readF(h.feature_off) = p.features /\ readT(h.types_off) = p.types
  <2>1. /\ Holds(file, Starts(p, 1), FeatureBytes(p.features)) /\ Starts(p, 1) \in Nat
        /\ Holds(file, Starts(p, 2), TypesBytes(p.types)) /\ Starts(p, 2) \in Nat
    BY <1>4, <1>5, <1>9
  <2>2. p.features \in Seq(V) /\ p.types \in Seq(TypeEntries(V))
    BY DEF IsProgram
  <2>3. /\ Read(file, Starts(p, 1), 4) = Len(p.features)
        /\ Numbers(file, Len(p.features), Starts(p, 1) + 4, 8).item = p.features
    BY <1>1, <2>1, <2>2, FeaturesRead
  <2>4. /\ Read(file, Starts(p, 2), 4) = Len(p.types)
        /\ Many(Len(p.types), Starts(p, 2) + 4, [pos \in Nat |-> ReadType(file, pos)]).item = p.types
    BY <1>1, <2>1, <2>2, TypesRead
  <2> QED BY <1>6, <2>3, <2>4, Zenon
<1>11. readC = p.consts
  <2>1. Holds(file, Starts(p, 3), Concat(p.consts, ConstBytes)) /\ Starts(p, 3) \in Nat
    BY <1>4, <1>5, <1>9
  <2>2. p.consts \in Seq(ConstEntries(V))
    BY DEF IsProgram
  <2>3. Many(Len(p.consts), Starts(p, 3), [pos \in Nat |-> ReadConst(file, pos)]).item = p.consts
    BY <1>1, <2>1, <2>2, ConstsRead
  <2> QED BY <1>6, <2>3, Zenon
<1>12. readI = p.instrs /\ ~Contains(readI, Unknown)
  <2>1. Holds(file, Starts(p, 5), Concat(p.instrs, InstrBytes)) /\ Starts(p, 5) \in Nat
    BY <1>4, <1>5, <1>9
  <2>2. p.instrs \in Seq(Instrs(V))
    BY DEF IsProgram
  <2>3. ReadInstrs(file, Starts(p, 5), Starts(p, 5) + Len(Concat(p.instrs, InstrBytes))) = p.instrs
    BY <1>1, <2>1, <2>2, InstructionsRead
  <2>4. readI = p.instrs
    BY <1>5, <1>6, <2>3, Zenon
  <2>5. \A k \in DOMAIN p.instrs : p.instrs[k] # Unknown
    BY <2>2, KnownInstrs
  <2> QED BY <2>2, <2>4, <2>5 DEF Contains
<1>13. readB = p.blob
  <2>1. Holds(file, Starts(p, 4), p.blob) /\ Starts(p, 4) \in Nat /\ Len(p.blob) \in Nat
    BY <1>4, <1>5, <1>9
  <2> DEFINE o == Starts(p, 4)
             b == p.blob
             S2 == ByteOver(V) \cup {Byte(content, i, 0) : i \in 1..4}
  <2>2. b \in Seq(ByteOver(V)) /\ o \in Nat /\ Holds(file, o, b)
    BY <2>1 DEF IsProgram
  <2>3. file \in Seq(S2)
    BY <1>1, SealedIs DEF file
  <2> HIDE DEF o, b, S2
  <2>4. SubSeq(file, o + 1, o + Len(b)) = b
    <3> DEFINE l == Len(b)
               q == SubSeq(file, o + 1, o + l)
    <3>1. l \in Nat /\ o + l <= Len(file) /\ \A i \in 1..l : file[o + i] = b[i]
      BY <2>2 DEF Holds
    <3> HIDE DEF l
    <3>2. q \in Seq(S2) /\ Len(q) = l /\ \A i \in 1..l : q[i] = file[o + i]
      BY <2>2, <2>3, <3>1
    <3> HIDE DEF q
    <3>3. Len(q) = Len(b) /\ \A i \in 1..Len(q) : q[i] = b[i]
      BY <3>1, <3>2 DEF l
    <3>4. q = b
      BY <2>2, <3>2, <3>3, SeqEqual
    <3> QED BY <3>4 DEF q, l
  <2>5. h.const_blob_off = o /\ h.const_blob_len = Len(b)
    BY <1>5, <1>6 DEF o, b
  <2> QED BY <2>4, <2>5 DEF b
<1>14. h.feature_off + 8 <= Len(file) /\ h.types_off + 8 <= Len(file) /\ end <= Len(file) /\ ~(Len(file) < HeaderSize)
  <2> DEFINE l(k) == Len(s[k])
             o(k) == Starts(p, k)
  <2>1. /\ l(1) \in Nat /\ l(2) \in Nat /\ l(3) \in Nat /\ l(4) \in Nat /\ l(5) \in Nat
        /\ o(1) \in Nat /\ o(2) = o(1) + l(1) /\ o(3) = o(2) + l(2) /\ o(4) = o(3) + l(3)
        /\ o(5) = o(4) + l(4) /\ o(6) = o(5) + l(5)
    <3>1. o(1 + 1) = o(2) /\ o(2 + 1) = o(3) /\ o(3 + 1) = o(4) /\ o(4 + 1) = o(5) /\ o(5 + 1) = o(6)
      OBVIOUS
    <3> HIDE DEF o, l
    <3>2. \A k \in 1..5 : o(k) \in Nat /\ l(k) \in Nat /\ o(k + 1) = o(k) + l(k)
      BY <1>4 DEF o, l
    <3> QED BY <1>9, <3>1, <3>2
  <2>2. l(1) >= 4 /\ l(2) >= 4
    BY <1>5, FeaturesRead, TypesRead DEF IsProgram
  <2>3. o(6) = Len(content)
    <3>1. Upto(s, 5) = FlattenSeq(s)
      <4>1. Upto(s, Len(s)) = FlattenSeq(s)
        BY <1>5, UptoEnds
      <4> QED BY <1>5, <4>1
    <3>2. o(6) = HeaderSize + Len(Upto(s, 5))
      BY DEF Starts, s
    <3> QED BY <1>1, <3>1, <3>2
  <2>4. o(6) + 4 = Len(file)
    BY <1>1, <2>3
  <2>5. HeaderSize <= o(1)
    <3>1. Upto(s, 0) = <<>>
      BY <1>5, UptoEnds
    <3>2. o(1) = HeaderSize + Len(Upto(s, 0))
      BY DEF Starts, s
    <3>3. Len(Upto(s, 0)) = 0
      BY <3>1
    <3> HIDE DEF o
    <3> QED BY <3>2, <3>3, HeaderSizeNat
  <2>6. h.feature_off = o(1) /\ h.types_off = o(2) /\ end = o(5) + l(5)
    BY <1>6
  <2> HIDE DEF o, l, end
  <2>7. o(1) + 4 <= o(2) /\ o(2) + 4 <= o(3) /\ o(3) <= o(4) /\ o(4) <= o(5) /\ o(5) + l(5) = o(6)
    BY <2>1, <2>2
  <2>8. o(2) \in Nat /\ o(3) \in Nat /\ o(4) \in Nat /\ o(5) \in Nat /\ o(6) \in Nat
    BY <2>1
  <2>9. o(1) + 8 <= o(6) + 4 /\ o(2) + 8 <= o(6) + 4
    BY <2>1, <2>7, <2>8
  <2>10. o(5) + l(5) <= o(6) + 4 /\ ~(o(6) + 4 < HeaderSize)
    BY <2>1, <2>5, <2>7, <2>8, HeaderSizeNat
  <2> QED BY <2>4, <2>6, <2>9, <2>10, Zenon
<1> HIDE DEF end, readF, readT, readC, readI, readB
<1>15. Loaded(file) = [ok |-> TRUE, program |-> WithHeader(h, p)]
  <2>1. Verified(file)
    BY <1>3 DEF Verified
  <2>2. ~(end > Len(file)) /\ ~(h.magic # Magic)
    <3>1. end \in Int
      BY <1>4, <1>6, <1>9 DEF end
    <3> QED BY <3>1, <1>1, <1>6, <1>14
  <2>3. Loaded(file) = [ok |-> TRUE,
              program |-> [header |-> h, features |-> readF(h.feature_off), types |-> readT(h.types_off),
                consts |-> readC, blob |-> readB, instrs |-> readI]]
    BY <1>8, <1>12, <1>14, <2>1, <2>2, Zenon
  <2> QED BY <2>3, <1>10, <1>11, <1>12, <1>13, Zenon DEF WithHeader
<1>16. Written(p, n) = file
  BY DEF Written, file, content, h
<1> QED BY <1>15, <1>16 DEF h

-----------------------------------------------------------------------------
(* What the compilation keeps.                                             *)

(* How many of the first n instructions are operations.                    *)
OpsUpTo(is, n) == Cardinality({j \in 1..n : is[j].op # "load"})

(* Instruction i is the operation of plan step k, over the registers of its cells. *)
OpOfStep(regs, i, k) ==
  /\ i.fxn = plan[k].fxn /\ Len(i.regs) = Len(plan[k].cells)
  /\ i.op = "op" => plan[k].fxn \notin Variadic
  /\ \A j \in 1..Len(plan[k].cells) :
       plan[k].cells[j] \in DOMAIN regs /\ i.regs[j] = regs[plan[k].cells[j]]

(* The n-th operation is that of the n-th step.                            *)
OpsMatch ==
  /\ OpsUpTo(instrs, Len(instrs)) = at - 1
  /\ \A i \in 1..Len(instrs) : instrs[i].op # "load" =>
       LET k == OpsUpTo(instrs, i - 1) + 1
       IN k < at /\ OpOfStep(regOf, instrs[i], k)

(* Constant m, counted from 1, describes the value v, if it has bytes.     *)
Describes(cs, bytes, m, v) ==
  m \in 1..Len(cs) /\ (cs[m].length > 0 => bytes[cs[m].offset + 1].of = v)

(* Register r is that of a cell whose value constant m describes.          *)
ValueOfRegister(regs, cs, bytes, r, m) ==
  \E c \in DOMAIN regs : regs[c] = r /\ Describes(cs, bytes, m, heap[c])

LoadsMatch ==
  \A i \in 1..Len(instrs) : instrs[i].op = "load" =>
    ValueOfRegister(regOf, consts, blob, instrs[i].dst, instrs[i].const + 1)

OperandsMatch ==
  /\ at <= Len(plan) + 1 /\ (at = Len(plan) + 1 => loaded = <<>>)
  /\ at <= Len(plan) =>
       /\ Len(loaded) <= Len(Operands)
       /\ \A k \in 1..Len(loaded) : Operands[k] \in DOMAIN regOf /\ loaded[k] = regOf[Operands[k]]

CompileMatches ==
  /\ DOMAIN regOf \subseteq 1..Len(heap)
  /\ OperandsMatch /\ OpsMatch /\ LoadsMatch
  /\ phase \notin {"interpreting", "compiling", "panicked"} => at = Len(plan) + 1


LEMMA OpsCounted ==
  ASSUME NEW is, NEW n \in Nat
  PROVE  /\ OpsUpTo(is, 0) = 0 /\ OpsUpTo(is, n) \in Nat
         /\ OpsUpTo(is, n + 1) = OpsUpTo(is, n) + IF is[n + 1].op # "load" THEN 1 ELSE 0
<1> DEFINE A == {j \in 1..n : is[j].op # "load"}
           B == {j \in 1..(n + 1) : is[j].op # "load"}
<1>1. {j \in 1..0 : is[j].op # "load"} = {}
  OBVIOUS
<1>2. IsFiniteSet(A) /\ Cardinality(A) \in Nat
  <2>1. IsFiniteSet(1..n)
    BY FS_Interval
  <2>2. A \subseteq 1..n
    OBVIOUS
  <2> HIDE DEF A
  <2> QED BY <2>1, <2>2, FS_Subset, FS_CardinalityType
<1>3. n + 1 \notin A /\ B = IF is[n + 1].op # "load" THEN A \cup {n + 1} ELSE A
  OBVIOUS
<1> HIDE DEF A, B
<1>4. Cardinality(B) = Cardinality(A) + IF is[n + 1].op # "load" THEN 1 ELSE 0
  <2>1. Cardinality(A \cup {n + 1}) = Cardinality(A) + 1
    BY <1>2, <1>3, FS_AddElement
  <2> QED BY <1>2, <1>3, <2>1
<1> QED BY <1>1, <1>2, <1>4, FS_EmptySet DEF OpsUpTo, A, B

LEMMA OpsSame ==
  ASSUME NEW is, NEW js, NEW n \in Nat, SameUpTo(is, js, n)
  PROVE  OpsUpTo(is, n) = OpsUpTo(js, n)
<1>1. {j \in 1..n : is[j].op # "load"} = {j \in 1..n : js[j].op # "load"}
  BY DEF SameUpTo
<1> QED BY <1>1 DEF OpsUpTo

LEMMA PlanIs ==
  ASSUME CompileTypes
  PROVE  /\ plan \in Seq([fxn : Functions, cells : Seq(Nat)]) /\ heap \in Seq(Value)
         /\ \A k \in 1..Len(plan) : /\ plan[k].fxn \in Functions /\ plan[k].cells \in Seq(Nat)
                                    /\ plan[k].cells # <<>>
                                    /\ plan[k].fxn \notin Variadic => Len(plan[k].cells) <= 5
<1>1. /\ plan \in Seq([fxn : Functions, cells : Seq(Nat)]) /\ heap \in Seq(Value)
  BY SourcesAssumption DEF CompileTypes, heap, plan
<1>2. ASSUME NEW k \in 1..Len(plan)
      PROVE  /\ plan[k].fxn \in Functions /\ plan[k].cells \in Seq(Nat)
             /\ plan[k].cells # <<>>
             /\ plan[k].fxn \notin Variadic => Len(plan[k].cells) <= 5
  <2>1. plan[k] \in [fxn : Functions, cells : Seq(Nat)]
    BY <1>1, ElementOfSeq
  <2>2. plan[k].fxn \in Functions /\ plan[k].cells \in Seq(Nat)
    BY <2>1
  <2>3. plan[k].cells # <<>> /\ (plan[k].fxn \notin Variadic => Len(plan[k].cells) <= 5)
    BY LoadedAssumption DEF CompileTypes, plan
  <2> QED BY <2>2, <2>3
<1> QED BY <1>1, <1>2

(* A constant goes on describing its value when another is added.          *)
LEMMA StillDescribes ==
  ASSUME IInv, NEW v \in Value, ConstAdded(v), NEW m, NEW u, Describes(consts, blob, m, u)
  PROVE  Describes(consts', blob', m, u)
<1>1. m \in 1..Len(consts) /\ Len(consts) \in Nat /\ consts[m] \in Entries /\ Len(blob) \in Nat
  BY ElementOfSeq, LenProperties DEF Describes, IInv, CompileTypes
<1>2. m \in 1..Len(consts') /\ consts'[m] = consts[m]
  BY <1>1 DEF ConstAdded
<1>3. ASSUME consts[m].length > 0
      PROVE  blob'[consts[m].offset + 1] = blob[consts[m].offset + 1]
  <2>1. ConstHolds(consts[m], blob, types)
    BY <1>1 DEF IInv, ConstsHold
  <2>2. consts[m].offset \in Nat /\ consts[m].length \in Nat
    BY <1>1 DEF Entries
  <2>3. consts[m].offset + 1 \in 1..Len(blob)
    BY <1>1, <1>3, <2>1, <2>2 DEF ConstHolds
  <2> QED BY <2>3 DEF ConstAdded
<1> QED BY <1>2, <1>3 DEF Describes

LEMMA OperandLoaded ==
  ASSUME IInv, CompileMatches, LoadRegister
  PROVE  CompileMatches'
<1> DEFINE r == RegisterOf(Cell)
           n == Len(instrs)
           load == [op |-> "load", dst |-> r, const |-> Len(consts)]
<1>1. /\ heap[Cell] \in Value /\ Cell \in 1..Len(heap) /\ CompileConst(heap[Cell])
      /\ source' = source /\ at' = at /\ phase' = phase
  BY CellInHeap DEF LoadRegister, IInv
<1>2. ConstAdded(heap[Cell])
  BY <1>1, ConstAppended
<1>3. heap' = heap /\ plan' = plan /\ Operands' = Operands
  BY <1>1 DEF heap, plan, Operands
<1>4. /\ DOMAIN regOf' = DOMAIN regOf \cup {Cell} /\ regOf'[Cell] = r
      /\ \A c \in DOMAIN regOf : regOf'[c] = regOf[c]
  BY DEF LoadRegister, RegisterOf
<1>5. /\ n \in Nat /\ instrs \in Seq(Loads \cup Ops) /\ Len(consts) \in Nat /\ loaded \in Seq(Nat)
      /\ Len(blob) \in Nat /\ consts \in Seq(Entries)
  BY LenProperties DEF IInv, CompileTypes
<1>6. instrs' = Append(instrs, load) /\ loaded' = Append(loaded, r)
  BY DEF LoadRegister
<1>7. r \in Nat /\ load \in Loads /\ load.op = "load" /\ load.dst = r /\ load.const = Len(consts)
  BY <1>5 DEF Loads, RegisterOf, IInv, RegMapHolds, CompileTypes
<1>8. Describes(consts', blob', Len(consts) + 1, heap[Cell])
  BY <1>2, <1>5 DEF ConstAdded, Describes
<1> HIDE DEF r, load
<1>9. /\ Len(instrs') = n + 1 /\ instrs'[n + 1] = load /\ \A i \in 1..n : instrs'[i] = instrs[i]
  BY <1>5, <1>6, <1>7
<1>10. LoadsMatch'
  <2> SUFFICES ASSUME NEW i \in 1..(n + 1), instrs'[i].op = "load"
               PROVE  \E c \in DOMAIN regOf' : /\ regOf'[c] = instrs'[i].dst
                        /\ Describes(consts', blob', instrs'[i].const + 1, heap[c])
    BY <1>3, <1>9 DEF LoadsMatch, ValueOfRegister
  <2>1. CASE i = n + 1
    BY <2>1, <1>4, <1>7, <1>8, <1>9
  <2>2. CASE i \in 1..n
    <3>1. PICK c \in DOMAIN regOf : /\ regOf[c] = instrs[i].dst
                                    /\ Describes(consts, blob, instrs[i].const + 1, heap[c])
      <4>1. i \in 1..Len(instrs) /\ instrs[i].op = "load"
        BY <2>2, <1>9
      <4> QED BY <4>1 DEF CompileMatches, LoadsMatch, ValueOfRegister
    <3>2. Describes(consts', blob', instrs[i].const + 1, heap[c])
      BY <3>1, <1>1, <1>2, StillDescribes
    <3> QED BY <3>1, <3>2, <2>2, <1>4, <1>9
  <2> QED BY <2>1, <2>2, <1>5
<1>11. OpsMatch'
  <2>1. SameUpTo(instrs, instrs', n)
    BY <1>9 DEF SameUpTo
  <2>2. OpsUpTo(instrs', n) = OpsUpTo(instrs, n)
    BY <1>5, <2>1, OpsSame
  <2>3. OpsUpTo(instrs', n + 1) = at - 1
    <3>1. at \in Nat /\ OpsUpTo(instrs, n) = at - 1
      BY DEF CompileMatches, OpsMatch, IInv, CompileTypes
    <3>2. OpsUpTo(instrs', n + 1) = OpsUpTo(instrs', n)
      <4>1. instrs'[n + 1].op = "load" /\ n \in Nat
        BY <1>5, <1>7, <1>9
      <4>2. /\ OpsUpTo(instrs', n) \in Nat
            /\ OpsUpTo(instrs', n + 1) = OpsUpTo(instrs', n) + 0
        BY <4>1, OpsCounted, Zenon
      <4> QED BY <4>2
    <3> QED BY <3>1, <3>2, <2>2
  <2>4. ASSUME NEW i \in 1..(n + 1), instrs'[i].op # "load"
        PROVE  /\ OpsUpTo(instrs', i - 1) + 1 < at'
               /\ OpOfStep(regOf, instrs'[i], OpsUpTo(instrs', i - 1) + 1)
    <3>1. i \in 1..n /\ i - 1 \in Nat
      BY <2>4, <1>5, <1>7, <1>9
    <3>2. SameUpTo(instrs, instrs', i - 1)
      BY <3>1, <1>5, <1>9 DEF SameUpTo
    <3>3. OpsUpTo(instrs', i - 1) = OpsUpTo(instrs, i - 1)
      BY <3>1, <3>2, OpsSame
    <3>4. instrs'[i] = instrs[i] /\ instrs[i].op # "load"
      BY <3>1, <2>4, <1>9
    <3>5. /\ OpsUpTo(instrs, i - 1) + 1 < at
          /\ OpOfStep(regOf, instrs[i], OpsUpTo(instrs, i - 1) + 1)
      BY <3>1, <3>4 DEF CompileMatches, OpsMatch
    <3> QED BY <3>3, <3>4, <3>5, <1>1
  <2>5. \A i, k : OpOfStep(regOf, i, k) => OpOfStep(regOf', i, k)
    BY <1>4 DEF OpOfStep
  <2>6. ASSUME NEW i \in 1..(n + 1), instrs'[i].op # "load"
        PROVE  OpOfStep(regOf', instrs'[i], OpsUpTo(instrs', i - 1) + 1)
    BY <2>4, <2>5, <2>6
  <2> QED BY <1>1, <1>3, <1>9, <2>3, <2>4, <2>6 DEF OpsMatch, OpOfStep
<1>12. OperandsMatch'
  <2>1. /\ at <= Len(plan) /\ Len(loaded) < Len(Operands)
    BY DEF LoadRegister, LoadsNext, Compiling
  <2>2. /\ at \in Nat /\ Len(plan) \in Nat /\ Len(Operands) \in Nat /\ Len(loaded) \in Nat
    <3>1. at \in 1..Len(plan) /\ Len(plan) \in Nat
      BY <2>1, PlanIs, LenProperties DEF IInv, CompileTypes
    <3>2. plan[at].cells \in Seq(Nat)
      BY <3>1, PlanIs DEF IInv
    <3> QED BY <3>1, <3>2, <1>5, LenProperties DEF Operands
  <2>3. /\ Len(loaded') = Len(loaded) + 1 /\ loaded'[Len(loaded) + 1] = r
        /\ \A k \in 1..Len(loaded) : loaded'[k] = loaded[k]
    BY <1>5, <1>6, <1>7
  <2>4. ASSUME NEW k \in 1..(Len(loaded) + 1)
        PROVE  Operands[k] \in DOMAIN regOf' /\ loaded'[k] = regOf'[Operands[k]]
    <3>1. CASE k = Len(loaded) + 1
      BY <3>1, <2>3, <1>4 DEF Cell
    <3>2. CASE k \in 1..Len(loaded)
      <4>1. Operands[k] \in DOMAIN regOf /\ loaded[k] = regOf[Operands[k]]
        BY <3>2, <2>1 DEF CompileMatches, OperandsMatch
      <4> QED BY <4>1, <3>2, <2>3, <1>4
    <3> QED BY <3>1, <3>2, <2>2
  <2> QED BY <1>1, <1>3, <2>1, <2>2, <2>3, <2>4 DEF OperandsMatch
<1>13. DOMAIN regOf' \subseteq 1..Len(heap')
  BY <1>1, <1>3, <1>4 DEF CompileMatches
<1>14. at' = Len(plan') + 1 \/ phase' \in {"interpreting", "compiling", "panicked"}
  BY <1>1 DEF LoadRegister, LoadsNext, Compiling
<1> QED BY <1>10, <1>11, <1>12, <1>13, <1>14 DEF CompileMatches

(* The operation is that of the step whose operands were loaded.           *)
LEMMA OperationMatches ==
  ASSUME IInv, CompileMatches, EmitOp
  PROVE  CompileMatches'
<1> DEFINE n == Len(instrs)
           op == instrs'[n + 1]
<1>1. /\ at \in 1..Len(plan) /\ Len(plan) \in Nat /\ n \in Nat /\ instrs \in Seq(Loads \cup Ops)
      /\ Len(loaded) = Len(Operands) /\ loaded \in Seq(Nat)
  BY PlanIs, LenProperties DEF IInv, CompileTypes, EmitOp, Compiling
<1>2. /\ plan' = plan /\ heap' = heap /\ regOf' = regOf /\ consts' = consts /\ blob' = blob
      /\ at' = at + 1 /\ loaded' = <<>> /\ phase' = phase /\ phase = "compiling"
  BY DEF EmitOp, Compiling, plan, heap
<1>3. PICK kind \in {"op", "varop"} :
        /\ kind = "op" => plan[at].fxn \notin Variadic
        /\ instrs' = Append(instrs, [op |-> kind, fxn |-> plan[at].fxn, regs |-> loaded])
  BY DEF EmitOp
<1>4. /\ Len(instrs') = n + 1 /\ op.op = kind /\ op.fxn = plan[at].fxn /\ op.regs = loaded
      /\ \A i \in 1..n : instrs'[i] = instrs[i]
  <2>1. [op |-> kind, fxn |-> plan[at].fxn, regs |-> loaded] \in Loads \cup Ops
    BY <1>1, PlanIs DEF Ops, IInv
  <2> QED BY <1>1, <1>3, <2>1
<1>5. op.op # "load"
  BY <1>3, <1>4
<1> HIDE DEF op
<1>6. /\ OpsUpTo(instrs, n) = at - 1 /\ OpsUpTo(instrs', n) = at - 1
      /\ OpsUpTo(instrs', n + 1) = at
  <2>1. OpsUpTo(instrs, n) = at - 1
    BY DEF CompileMatches, OpsMatch
  <2>2. SameUpTo(instrs, instrs', n)
    BY <1>4 DEF SameUpTo
  <2>3. OpsUpTo(instrs', n) = at - 1
    BY <1>1, <2>1, <2>2, OpsSame
  <2>4. OpsUpTo(instrs', n + 1) = OpsUpTo(instrs', n) + 1
    BY <1>1, <1>5, OpsCounted DEF op
  <2> QED BY <1>1, <2>1, <2>3, <2>4
<1>7. OpOfStep(regOf, op, at)
  BY <1>1, <1>3, <1>4 DEF OpOfStep, CompileMatches, OperandsMatch, Operands
<1>8. OpsMatch'
  <2> SUFFICES ASSUME NEW i \in 1..(n + 1), instrs'[i].op # "load"
               PROVE  /\ OpsUpTo(instrs', i - 1) + 1 < at + 1
                      /\ OpOfStep(regOf, instrs'[i], OpsUpTo(instrs', i - 1) + 1)
    BY <1>1, <1>2, <1>4, <1>6 DEF OpsMatch, OpOfStep
  <2>1. CASE i = n + 1
    <3>1. i - 1 = n /\ instrs'[i] = op /\ at - 1 + 1 = at
      BY <2>1, <1>1 DEF op
    <3>2. OpsUpTo(instrs', i - 1) + 1 = at
      BY <3>1, <1>6
    <3> QED BY <3>1, <3>2, <1>1, <1>7
  <2>2. CASE i \in 1..n
    <3>1. SameUpTo(instrs, instrs', i - 1) /\ i - 1 \in Nat
      BY <2>2, <1>1, <1>4 DEF SameUpTo
    <3>2. OpsUpTo(instrs', i - 1) = OpsUpTo(instrs, i - 1) /\ instrs'[i] = instrs[i]
      BY <2>2, <3>1, <1>4, OpsSame
    <3>3. /\ OpsUpTo(instrs, i - 1) + 1 < at
          /\ OpOfStep(regOf, instrs[i], OpsUpTo(instrs, i - 1) + 1)
      BY <2>2, <3>2 DEF CompileMatches, OpsMatch
    <3>4. OpsUpTo(instrs, i - 1) \in Nat
      BY <3>1, OpsCounted
    <3> QED BY <3>2, <3>3, <3>4, <1>1
  <2> QED BY <2>1, <2>2, <1>1
<1>9. LoadsMatch'
  <2> SUFFICES ASSUME NEW i \in 1..(n + 1), instrs'[i].op = "load"
               PROVE  ValueOfRegister(regOf, consts, blob, instrs'[i].dst, instrs'[i].const + 1)
    BY <1>2, <1>4 DEF LoadsMatch, ValueOfRegister
  <2>1. i \in 1..n
    BY <1>1, <1>5 DEF op
  <2>2. instrs'[i] = instrs[i]
    BY <2>1, <1>4
  <2> QED BY <2>1, <2>2 DEF CompileMatches, LoadsMatch
<1>10. OperandsMatch'
  BY <1>1, <1>2 DEF OperandsMatch
<1> QED BY <1>2, <1>8, <1>9, <1>10 DEF CompileMatches

(* A step of the compilation, and every later one, keeps them.             *)
LEMMA CompilationMatches ==
  ASSUME IInv, CompileMatches, Compile \/ (UNCHANGED <<source, ctx>> /\ phase \notin {"compiling", "interpreting", "panicked"})
  PROVE  CompileMatches'
<1>1. ASSUME UNCHANGED <<source, ctx>>,
             \/ phase' \in {"interpreting", "compiling", "panicked"}
             \/ phase \notin {"interpreting", "compiling", "panicked"}
             \/ at = Len(plan) + 1
      PROVE  CompileMatches'
  BY <1>1 DEF CompileMatches, OperandsMatch, Operands, OpsMatch, OpOfStep, LoadsMatch, ValueOfRegister,
              heap, plan, ctx
<1>2. CASE BeginCompile \/ Panic
  BY <1>1, <1>2 DEF BeginCompile, Panic
<1>3. CASE EndCompile
  <2>1. at = Len(plan) + 1
    BY <1>3, PlanIs, LenProperties DEF EndCompile, IInv, CompileTypes, CompileMatches, OperandsMatch
  <2> QED BY <2>1, <1>1, <1>3 DEF EndCompile
<1> QED BY <1>1, <1>2, <1>3, OperandLoaded, OperationMatches DEF Compile

-----------------------------------------------------------------------------
(* What was compiled is a program, so that loading gives it back.          *)

(* What a byte of the file can belong to.                                  *)
Owners == Int \cup Kinds \cup Functions \cup Value \cup {"padding"}

LEMMA SeqOver ==
  ASSUME NEW A, NEW B, A \subseteq B, NEW s \in Seq(A)
  PROVE  s \in Seq(B)
<1>1. s \in [1..Len(s) -> B] /\ Len(s) \in Nat
  OBVIOUS
<1> QED BY <1>1, FunctionIsSeq

LEMMA SetToSeqIs ==
  ASSUME NEW S, IsFiniteSet(S)
  PROVE  SetToSeq(S) \in Seq(S)
<1> DEFINE n == Cardinality(S)
<1>1. n \in Nat /\ ExistsBijection(1..n, S)
  BY FS_CardinalityType
<1>2. PICK f \in Bijection(1..n, S) : TRUE
  BY <1>1 DEF ExistsBijection
<1>3. f \in [1..n -> S] /\ IsInjective(f)
  BY <1>2 DEF Bijection, Injection
<1>4. SetToSeq(S) \in [1..n -> S]
  BY <1>3 DEF SetToSeq
<1> HIDE DEF n
<1> QED BY <1>1, <1>4, FunctionIsSeq

(* The items of a sequence, each taken for something of it, are finitely many. *)
LEMMA FiniteRange ==
  ASSUME NEW f, NEW n \in Nat, DOMAIN f = 1..n
  PROVE  IsFiniteSet({f[i] : i \in 1..n})
<1> DEFINE T == {f[i] : i \in 1..n}
           g == [i \in 1..n |-> f[i]]
<1>1. g \in Surjection(1..n, T)
  BY DEF Surjection
<1>2. IsFiniteSet(1..n)
  BY FS_Interval
<1> HIDE DEF g, T
<1>3. IsFiniteSet(T)
  BY <1>1, <1>2, FS_Surjection
<1> QED BY <1>3 DEF T

LEMMA FeaturesAre ==
  ASSUME IInv
  PROVE  Features \in Seq(Owners)
<1> DEFINE K == {types[c.type + 1] : c \in ToSet(consts)}
           F == {plan[i].fxn : i \in DOMAIN plan}
           k == [i \in 1..Len(consts) |-> types[consts[i].type + 1]]
           f == [i \in 1..Len(plan) |-> plan[i].fxn]
<1>1. /\ consts \in Seq(Entries) /\ Len(consts) \in Nat /\ DOMAIN consts = 1..Len(consts)
      /\ Len(plan) \in Nat /\ DOMAIN plan = 1..Len(plan)
  BY PlanIs, LenProperties DEF IInv, CompileTypes
<1>2. IsFiniteSet(K) /\ K \subseteq Owners
  <2>1. K = {k[i] : i \in 1..Len(consts)}
    BY <1>1 DEF ToSet
  <2>2. IsFiniteSet({k[i] : i \in 1..Len(consts)})
    BY <1>1, FiniteRange
  <2>3. ASSUME NEW i \in 1..Len(consts)
        PROVE  k[i] \in Owners
    <3>1. consts[i].type + 1 \in 1..Len(types) /\ types \in Seq(Kinds)
      BY DEF IInv, ConstsHold, ConstHolds, CompileTypes
    <3> QED BY <3>1, ElementOfSeq DEF Owners
  <2> QED BY <2>1, <2>2, <2>3
<1>3. IsFiniteSet(F) /\ F \subseteq Owners
  <2>1. F = {f[i] : i \in 1..Len(plan)}
    BY <1>1
  <2>2. IsFiniteSet({f[i] : i \in 1..Len(plan)})
    BY <1>1, FiniteRange
  <2>3. \A i \in 1..Len(plan) : f[i] \in Owners
    BY PlanIs DEF IInv, Owners
  <2> QED BY <2>1, <2>2, <2>3
<1>4. Features = SetToSeq(K \cup F)
  BY DEF Features
<1> HIDE DEF K, F
<1>5. IsFiniteSet(K \cup F) /\ K \cup F \subseteq Owners
  BY <1>2, <1>3, FS_Union
<1> QED BY <1>4, <1>5, SetToSeqIs, SeqOver

LEMMA TypesAre ==
  ASSUME IInv
  PROVE  [i \in DOMAIN types |-> TypeEntry(types[i])] \in Seq(TypeEntries(Owners))
<1>1. types \in Seq(Kinds) /\ Len(types) \in Nat /\ DOMAIN types = 1..Len(types)
  BY LenProperties DEF IInv, CompileTypes
<1>2. ASSUME NEW i \in 1..Len(types)
      PROVE  TypeEntry(types[i]) \in TypeEntries(Owners)
  <2>1. types[i] \in Kinds
    BY <1>1, ElementOfSeq
  <2>2. CASE types[i] \in DOMAIN Element
    <3>1. PICK k \in 1..(i - 1) : types[k] = Element[types[i]]
      BY <2>2 DEF IInv, WellFounded
    <3>2. k \in 1..Len(types)
      BY <1>1
    <3>3. \E j \in 1..Len(types) : types[j] = Element[types[i]]
      BY <3>1, <3>2
    <3>4. TypeId(types, Element[types[i]]) \in Int
      BY <3>3, <1>1 DEF TypeId
    <3> QED BY <2>1, <2>2, <3>4 DEF TypeEntry, TypeEntries, Owners
  <2>3. CASE types[i] \notin DOMAIN Element
    BY <2>1, <2>3 DEF TypeEntry, TypeEntries, Owners
  <2> QED BY <2>2, <2>3
<1>3. [i \in DOMAIN types |-> TypeEntry(types[i])] \in [1..Len(types) -> TypeEntries(Owners)]
  BY <1>1, <1>2
<1> QED BY <1>1, <1>3, FunctionIsSeq

LEMMA InstrsAre ==
  ASSUME IInv, CompileMatches
  PROVE  instrs \in Seq(Instrs(Owners))
<1>1. instrs \in Seq(Loads \cup Ops) /\ Len(instrs) \in Nat
  BY LenProperties DEF IInv, CompileTypes
<1>2. ASSUME NEW i \in 1..Len(instrs)
      PROVE  instrs[i] \in Instrs(Owners)
  <2>1. instrs[i] \in Loads \cup Ops
    BY <1>1, ElementOfSeq
  <2>2. CASE instrs[i] \in Loads
    BY <2>2 DEF Loads, Instrs, LoadInstrs, Owners
  <2>3. CASE instrs[i] \in Ops
    <3> DEFINE k == OpsUpTo(instrs, i - 1) + 1
    <3>1. instrs[i].op # "load" /\ instrs[i].regs \in Seq(Nat) /\ instrs[i].fxn \in Functions
      BY <2>3 DEF Ops
    <3>2. k < at /\ OpOfStep(regOf, instrs[i], k)
      BY <3>1 DEF CompileMatches, OpsMatch
    <3>3. k \in 1..Len(plan)
      <4>1. i - 1 \in Nat /\ OpsUpTo(instrs, i - 1) \in Nat
        BY <1>1, OpsCounted
      <4>2. at \in Nat /\ at <= Len(plan) + 1 /\ Len(plan) \in Nat
        BY PlanIs, LenProperties DEF IInv, CompileTypes, CompileMatches, OperandsMatch
      <4> QED BY <4>1, <4>2, <3>2
    <3> HIDE DEF k
    <3>4. /\ plan[k].cells \in Seq(Nat) /\ plan[k].cells # <<>>
          /\ plan[k].fxn \notin Variadic => Len(plan[k].cells) <= 5
      BY <3>3, PlanIs DEF IInv
    <3>5. Len(instrs[i].regs) = Len(plan[k].cells) /\ (instrs[i].op = "op" => plan[k].fxn \notin Variadic)
      BY <3>2 DEF OpOfStep
    <3>6. instrs[i].regs # <<>>
      <4>1. \A q \in Seq(Nat) : q # <<>> => Len(q) # 0
        OBVIOUS
      <4>2. Len(instrs[i].regs) # 0
        BY <3>4, <3>5, <4>1, Zenon
      <4>3. \A q \in Seq(Nat) : q = <<>> => Len(q) = 0
        OBVIOUS
      <4> QED BY <3>1, <4>2, <4>3, Zenon
    <3>7. instrs[i].op = "op" => Len(instrs[i].regs) <= 5
      BY <3>4, <3>5
    <3>8. instrs[i].regs \in Seq(Owners)
      <4>1. Nat \subseteq Owners
        BY DEF Owners
      <4> QED BY <3>1, <4>1, SeqOver
    <3>9. instrs[i] \in [op : {"op", "varop"}, fxn : Owners, regs : Seq(Owners)]
      <4>1. \A o \in Ops : o.fxn \in Owners /\ o.regs \in Seq(Owners)
                            => o \in [op : {"op", "varop"}, fxn : Owners, regs : Seq(Owners)]
        BY DEF Ops
      <4>2. instrs[i].fxn \in Owners
        BY <3>1 DEF Owners
      <4> QED BY <2>3, <3>8, <4>1, <4>2
    <3> QED BY <3>6, <3>7, <3>9 DEF Instrs, OpInstrs
  <2> QED BY <2>1, <2>2, <2>3
<1>3. instrs \in [1..Len(instrs) -> Instrs(Owners)]
  BY <1>1, <1>2
<1> QED BY <1>1, <1>3, FunctionIsSeq

LEMMA CompiledIsProgram ==
  ASSUME IInv, CompileMatches
  PROVE  IsProgram(Owners, Compiled) /\ Int \subseteq Owners /\ nextReg \in Nat
<1>1. consts \in Seq(ConstEntries(Owners))
  <2>1. Entries \subseteq ConstEntries(Owners)
    BY DEF Entries, ConstEntries, Owners
  <2>2. consts \in Seq(Entries)
    BY DEF IInv, CompileTypes
  <2> QED BY <2>1, <2>2, SeqOver
<1>2. blob \in Seq(ByteOver(Owners))
  <2>1. AnyByte \subseteq ByteOver(Owners)
    BY DEF AnyByte, ByteOver, Owners
  <2>2. blob \in Seq(AnyByte)
    BY DEF IInv, CompileTypes
  <2> QED BY <2>1, <2>2, SeqOver
<1>3. /\ Compiled.features = Features /\ Compiled.consts = consts /\ Compiled.blob = blob
      /\ Compiled.instrs = instrs
      /\ Compiled.types = [i \in DOMAIN types |-> TypeEntry(types[i])]
  BY DEF Compiled
<1>4. Int \subseteq Owners /\ nextReg \in Nat
  BY DEF Owners, IInv, CompileTypes
<1> QED BY <1>1, <1>2, <1>3, <1>4, FeaturesAre, TypesAre, InstrsAre DEF IsProgram

(* Loading the file: it is whole and gives back what was compiled, twice, or it *)
(* is refused.                                                             *)
ProgramIsCompiled == program = WithHeader(Header(Compiled, nextReg), Compiled)

LEMMA KeptBytes ==
  ASSUME NEW p, NEW h
  PROVE  ToBytes(WithHeader(h, p)) = Sealed(Content(h, p))
<1>1. Sections(WithHeader(h, p)) = Sections(p)
  BY DEF Sections, WithHeader
<1>2. WithHeader(h, p).header = h
  BY DEF WithHeader
<1> QED BY <1>1, <1>2 DEF ToBytes, Content

LEMMA FileIs ==
  ASSUME IInv, CompileMatches, missing \in Nat
  PROVE  /\ missing = 0 => File = Written(Compiled, nextReg)
         /\ missing > 0 => ~Verified(File)
<1> DEFINE content == Content(Header(Compiled, nextReg), Compiled)
           bytes == Sealed(content)
<1>1. IsProgram(Owners, Compiled) /\ Int \subseteq Owners /\ nextReg \in Nat
  BY CompiledIsProgram
<1>2. content \in Seq(ByteOver(Owners))
  BY <1>1, ContentHolds
<1>3. Written(Compiled, nextReg) = bytes
  BY DEF Written
<1>4. File = SubSeq(bytes, 1, Len(bytes) - missing)
  BY <1>3 DEF File
<1>5. missing > 0 => ~Verified(File)
  <2>1. missing > 0 => missing \in Nat \ {0}
    OBVIOUS
  <2> HIDE DEF content
  <2> QED BY <1>2, <1>4, <2>1, CutNotVerified DEF Verified
<1>6. missing = 0 => File = bytes
  <2> DEFINE S == ByteOver(Owners) \cup {Byte(content, i, 0) : i \in 1..4}
  <2> HIDE DEF content
  <2>1. bytes \in Seq(S)
    BY <1>2, SealedIs
  <2> HIDE DEF S, bytes
  <2>2. \A q \in Seq(S) : SubSeq(q, 1, Len(q) - 0) = q
    OBVIOUS
  <2> QED BY <1>4, <2>1, <2>2
<1> QED BY <1>3, <1>5, <1>6

LEMMA LoadIs ==
  ASSUME IInv, CompileMatches, missing \in Nat, Load
  PROVE  \/ /\ missing = 0 /\ phase' = "loaded"
            /\ program' = WithHeader(Header(Compiled, nextReg), Compiled)
         \/ missing > 0 /\ phase' = "refused"
<1> DEFINE h == Header(Compiled, nextReg)
           p == WithHeader(h, Compiled)
           done == [ok |-> TRUE, program |-> p]
<1>1. Loaded(Written(Compiled, nextReg)) = done
  BY CompiledIsProgram, WhatIsWrittenIsRead
<1>2. CASE missing = 0
  <2>1. File = Written(Compiled, nextReg)
    BY <1>2, FileIs
  <2>2. ToBytes(p) = Written(Compiled, nextReg)
    BY KeptBytes DEF Written
  <2>3. done.ok /\ done.program = p
    OBVIOUS
  <2> HIDE DEF done, p, h
  <2>4. phase' = "loaded" /\ program' = p
    BY <1>1, <2>1, <2>2, <2>3 DEF Load
  <2> QED BY <1>2, <2>4 DEF p, h
<1>3. CASE missing > 0
  <2>1. ~Verified(File)
    BY <1>3, FileIs
  <2>2. Loaded(File) = Refused
    BY <2>1 DEF Loaded
  <2>3. ~Refused.ok
    BY DEF Refused
  <2>4. phase' = "refused"
    BY <2>2, <2>3 DEF Load
  <2> QED BY <1>3, <2>4
<1> QED BY <1>2, <1>3

-----------------------------------------------------------------------------
(* What the loading interpreter keeps.                                     *)

(* Register r holds nothing yet or a constant of the value of its cell.    *)
RegisterHolds(r) ==
  registers[r + 1] # Empty => ValueOfRegister(regOf, consts, blob, r, registers[r + 1] + 1)

RegistersHold ==
  /\ registers \in [1..nextReg -> Int]
  /\ \A r \in 0..(nextReg - 1) : RegisterHolds(r)
  /\ \A i \in 1..(ip - 1) : instrs[i].op = "load" => registers[instrs[i].dst + 1] # Empty

(* Step s of the loaded plan is the step t of the compiled one, over cells *)
(* of their own, in the order in which the factory took them.              *)
SameStep(s, t) ==
  /\ s.fxn = t.fxn /\ Accepted(t.fxn, Len(t.cells)) /\ DOMAIN s.cells = 1..Len(t.cells)
  /\ \A j \in 1..Len(t.cells) :
       Describes(consts, blob, s.cells[j], heap[AsTaken(t.fxn, t.cells)[j]])

StepsHold ==
  /\ steps \in Seq([fxn : Functions, cells : Seq(Int)])
  /\ Len(steps) = OpsUpTo(instrs, ip - 1)
  /\ \A k \in 1..Len(steps) : SameStep(steps[k], plan[k])
  /\ Len(steps) > 0 => out = steps[Len(steps)].cells[1]

CellsHold ==
  \A m \in 1..Len(consts) : consts[m].length > 0 /\ cells[m] = blob[consts[m].offset + 1].of

LoadedTypes ==
  /\ passes \in Nat /\ missing \in Nat
  /\ phase \in {"interpreting", "compiling", "panicked", "compiled", "written", "refused",
                 "loaded", "running", "failed", "ran", "undefined"}
  /\ passes # 0 => phase \in {"ran", "undefined"}

LInv ==
  /\ IInv /\ CompileMatches /\ LoadedTypes
  /\ phase \in {"loaded", "running", "failed", "ran"} => ProgramIsCompiled
  /\ phase \in {"running", "ran"} =>
       /\ ip \in 1..(Len(instrs) + 1)
       /\ RegistersHold /\ StepsHold /\ (passes = 0 => CellsHold)
  /\ phase = "ran" => ip = Len(instrs) + 1
  /\ phase \notin {"running", "failed", "ran", "undefined"} => steps = <<>>
  /\ WholeFilesLoad /\ FailsForCause

LEMMA CtxKept ==
  ASSUME UNCHANGED <<source, ctx>>
  PROVE  /\ heap' = heap /\ plan' = plan /\ instrs' = instrs /\ consts' = consts /\ blob' = blob
         /\ regOf' = regOf /\ nextReg' = nextReg /\ types' = types /\ at' = at
         /\ Compiled' = Compiled
         /\ IInv => IInv'
         /\ missing' = missing => File' = File
<1>1. /\ heap' = heap /\ plan' = plan /\ instrs' = instrs /\ consts' = consts /\ blob' = blob
      /\ regOf' = regOf /\ nextReg' = nextReg /\ types' = types /\ at' = at
  BY DEF ctx, heap, plan
<1>2. Compiled' = Compiled
  BY <1>1 DEF Compiled, Features, TypeEntry
<1>3. IInv => IInv'
  BY DEF IInv, CompileTypes, RegMapHolds, OperandsHold, OpsHold, ConstsHold, ctx
<1>4. missing' = missing => File' = File
  BY <1>1, <1>2 DEF File
<1> QED BY <1>1, <1>2, <1>3, <1>4

(* A step of the compilation: nothing is loaded yet.                       *)
LEMMA CompileKeeps ==
  ASSUME LInv, Compile, UNCHANGED loading
  PROVE  LInv'
<1>1. /\ phase \in {"interpreting", "compiling"}
      /\ phase' \in {"compiling", "panicked", "compiled"}
  BY DEF Compile, BeginCompile, LoadRegister, LoadsNext, Compiling, Panic, EmitOp, EndCompile
<1>2. IInv'
  BY StepHolds DEF LInv
<1>3. CompileMatches'
  BY CompilationMatches DEF LInv
<1>4. LoadedTypes' /\ steps' = <<>>
  BY <1>1 DEF LInv, LoadedTypes, loading
<1>5. WholeFilesLoad' /\ FailsForCause'
  BY <1>1 DEF WholeFilesLoad, FailsForCause
<1> QED BY <1>1, <1>2, <1>3, <1>4, <1>5 DEF LInv

(* Steps after the compilation that leave it as it was.                    *)
LEMMA RestKept ==
  ASSUME LInv, UNCHANGED <<source, ctx>>, phase \notin {"interpreting", "compiling", "panicked"}
  PROVE  IInv' /\ CompileMatches'
<1>1. IInv'
  BY CtxKept DEF LInv
<1>2. CompileMatches'
  BY CompilationMatches DEF LInv
<1> QED BY <1>1, <1>2

LEMMA FileWritten ==
  ASSUME LInv, WriteFile
  PROVE  LInv'
<1>1. /\ UNCHANGED <<source, ctx>> /\ phase = "compiled" /\ phase' = "written"
      /\ missing' \in Nat /\ passes' = passes /\ steps' = steps
  BY LoadedAssumption DEF WriteFile
<1>2. IInv' /\ CompileMatches'
  BY <1>1, RestKept
<1>3. LoadedTypes' /\ steps' = <<>>
  BY <1>1 DEF LInv, LoadedTypes
<1>4. WholeFilesLoad' /\ FailsForCause'
  BY <1>1 DEF WholeFilesLoad, FailsForCause
<1> QED BY <1>1, <1>2, <1>3, <1>4 DEF LInv

LEMMA FileLoaded ==
  ASSUME LInv, Load
  PROVE  LInv'
<1>1. /\ UNCHANGED <<source, ctx>> /\ phase = "written"
      /\ missing' = missing /\ passes' = passes /\ steps' = steps
  BY DEF Load
<1>2. IInv' /\ CompileMatches'
  BY <1>1, RestKept
<1>3. \/ /\ missing = 0 /\ phase' = "loaded"
         /\ program' = WithHeader(Header(Compiled, nextReg), Compiled)
      \/ missing > 0 /\ phase' = "refused"
  BY LoadIs DEF LInv, LoadedTypes
<1>4. LoadedTypes' /\ steps' = <<>> /\ passes' = 0
  BY <1>1, <1>3 DEF LInv, LoadedTypes
<1>5. Compiled' = Compiled /\ nextReg' = nextReg /\ File' = File
  BY <1>1, CtxKept
<1>6. phase' = "loaded" => ProgramIsCompiled'
  BY <1>3, <1>5 DEF ProgramIsCompiled
<1>7. phase' = "loaded" => ToBytes(program') = File
  <2>1. ToBytes(WithHeader(Header(Compiled, nextReg), Compiled)) = Written(Compiled, nextReg)
    BY KeptBytes DEF Written
  <2>2. missing = 0 => File = Written(Compiled, nextReg)
    BY FileIs DEF LInv, LoadedTypes
  <2> QED BY <1>3, <2>1, <2>2
<1>8. WholeFilesLoad' /\ FailsForCause'
  BY <1>1, <1>3, <1>5, <1>7 DEF WholeFilesLoad, FailsForCause
<1> QED BY <1>2, <1>3, <1>4, <1>6, <1>8 DEF LInv

(* What run_program finds in the program.                                  *)
LEMMA ProgramHolds ==
  ASSUME LInv, ProgramIsCompiled
  PROVE  /\ program.header.reg_count = nextReg /\ program.blob = blob
         /\ program.consts = consts /\ program.instrs = instrs
         /\ \A m \in 1..Len(consts) : KindOf(consts[m]) = types[consts[m].type + 1]
<1>1. /\ program.header = Header(Compiled, nextReg)
      /\ program.blob = Compiled.blob /\ program.consts = Compiled.consts
      /\ program.instrs = Compiled.instrs /\ program.types = Compiled.types
  BY DEF ProgramIsCompiled, WithHeader
<1>2. /\ Compiled.blob = blob /\ Compiled.consts = consts /\ Compiled.instrs = instrs
      /\ Compiled.types = [i \in DOMAIN types |-> TypeEntry(types[i])]
  BY DEF Compiled
<1>3. Header(Compiled, nextReg).reg_count = nextReg
  BY HeaderIs
<1>4. ASSUME NEW m \in 1..Len(consts)
      PROVE  KindOf(consts[m]) = types[consts[m].type + 1]
  <2>1. consts[m].type + 1 \in 1..Len(types)
    BY DEF LInv, IInv, ConstsHold, ConstHolds
  <2>2. DOMAIN types = 1..Len(types)
    BY LenProperties DEF LInv, IInv, CompileTypes
  <2>3. program.types[consts[m].type + 1] = TypeEntry(types[consts[m].type + 1])
    BY <1>1, <1>2, <2>1, <2>2
  <2> QED BY <2>3 DEF KindOf, TypeEntry
<1> QED BY <1>1, <1>2, <1>3, <1>4

(* A constant is decoded unless its kind has no arm.                       *)
LEMMA Decodes ==
  ASSUME LInv, ProgramIsCompiled, NEW m \in 1..Len(consts)
  PROVE  /\ types[consts[m].type + 1] \in Decodable <=> DecodedAlright(consts[m])
         /\ DecodedAlright(consts[m]) =>
              consts[m].length > 0 /\ Decode(consts[m]) = blob[consts[m].offset + 1].of
<1> DEFINE c == consts[m]
<1>1. c \in Entries /\ ConstHolds(c, blob, types)
  BY ElementOfSeq DEF LInv, IInv, CompileTypes, ConstsHold
<1>2. KindOf(c) = types[c.type + 1] /\ program.blob = blob
  BY ProgramHolds
<1>3. c.offset \in Nat /\ c.length \in Nat /\ c.align # 0
  BY <1>1 DEF Entries
<1> HIDE DEF c
<1>4. types[c.type + 1] \in Decodable <=> DecodedAlright(c)
  BY <1>1, <1>2, <1>3 DEF DecodedAlright, ConstHolds
<1>5. DecodedAlright(c) => c.length > 0
  BY LoadedAssumption DEF DecodedAlright
<1>6. c.length > 0 => Decode(c) = blob[c.offset + 1].of
  BY <1>1, <1>2 DEF ConstHolds, Decode, Read
<1> QED BY <1>4, <1>5, <1>6 DEF c

LEMMA RunBegun ==
  ASSUME LInv, BeginRun
  PROVE  LInv'
<1>1. /\ UNCHANGED <<source, ctx>> /\ phase = "loaded" /\ phase' \in {"running", "failed"}
      /\ missing' = missing /\ passes' = passes /\ steps' = steps /\ program' = program /\ ip' = 1
  BY DEF BeginRun
<1>2. IInv' /\ CompileMatches'
  BY <1>1, RestKept
<1>3. LoadedTypes' /\ steps' = <<>> /\ passes' = 0
  BY <1>1 DEF LInv, LoadedTypes
<1>4. /\ Compiled' = Compiled /\ nextReg' = nextReg /\ instrs' = instrs /\ consts' = consts
      /\ blob' = blob /\ types' = types
  BY <1>1, CtxKept
<1>5. ProgramIsCompiled
  BY <1>1 DEF LInv
<1>6. ProgramIsCompiled'
  BY <1>1, <1>4, <1>5 DEF ProgramIsCompiled
<1>7. /\ program.header.reg_count = nextReg /\ program.consts = consts /\ program.instrs = instrs
  BY <1>5, ProgramHolds
<1>8. /\ consts \in Seq(Entries) /\ Len(instrs) \in Nat /\ nextReg \in Nat
      /\ DOMAIN consts = 1..Len(consts)
  BY LenProperties DEF LInv, IInv, CompileTypes
<1>9. ToSet(consts) = {consts[m] : m \in 1..Len(consts)}
  BY <1>8 DEF ToSet
<1>10. phase' = "failed" => \E m \in 1..Len(consts) : types[consts[m].type + 1] \notin Decodable
  <2>1. phase' = "failed" => ~\A c \in ToSet(consts) : DecodedAlright(c)
    BY <1>7 DEF BeginRun
  <2>2. phase' = "failed" => \E m \in 1..Len(consts) : ~DecodedAlright(consts[m])
    BY <2>1, <1>9
  <2> QED BY <2>2, <1>5, Decodes
<1>11. WholeFilesLoad' /\ FailsForCause'
  BY <1>1, <1>4, <1>9, <1>10 DEF WholeFilesLoad, FailsForCause
<1>12. phase' = "running" => CellsHold'
  <2> SUFFICES ASSUME phase' = "running", NEW m \in 1..Len(consts)
               PROVE  consts[m].length > 0 /\ cells'[m] = blob[consts[m].offset + 1].of
    BY <1>4 DEF CellsHold
  <2>1. /\ \A c \in ToSet(consts) : DecodedAlright(c)
        /\ cells' = [i \in DOMAIN consts |-> Decode(consts[i])]
    BY <1>7 DEF BeginRun
  <2>2. DecodedAlright(consts[m]) /\ cells'[m] = Decode(consts[m])
    BY <2>1, <1>8, <1>9
  <2> QED BY <2>2, <1>5, Decodes
<1>13. registers' = [r \in 1..nextReg |-> Empty]
  BY <1>7 DEF BeginRun
<1>14. RegistersHold'
  BY <1>1, <1>4, <1>8, <1>13 DEF RegistersHold, RegisterHolds, Empty
<1>15. StepsHold'
  <2>1. OpsUpTo(instrs, 0) = 0
    BY OpsCounted
  <2> QED BY <1>1, <1>3, <1>4, <2>1 DEF StepsHold
<1>16. ip' \in 1..(Len(instrs') + 1)
  BY <1>1, <1>4, <1>8
<1> QED BY <1>1, <1>2, <1>3, <1>6, <1>11, <1>12, <1>14, <1>15, <1>16 DEF LInv

(* Nothing but the constants loaded changes, then the plan grows.          *)
LEMMA RunKept ==
  ASSUME LInv, UNCHANGED <<source, ctx, missing, program, passes>>, phase = "running"
  PROVE  /\ IInv' /\ CompileMatches' /\ passes = 0 /\ passes' = 0 /\ missing' \in Nat
         /\ ProgramIsCompiled /\ ProgramIsCompiled' /\ program.instrs = instrs
         /\ instrs \in Seq(Loads \cup Ops) /\ ip \in Nat /\ Len(instrs) \in Nat
         /\ ip \in 1..(Len(instrs) + 1) /\ RegistersHold /\ StepsHold /\ CellsHold
         /\ nextReg \in Nat
         /\ cells' = cells => CellsHold'
<1>1. IInv' /\ CompileMatches'
  BY RestKept
<1>2. ProgramIsCompiled /\ passes = 0 /\ missing \in Nat
  BY DEF LInv, LoadedTypes
<1>3. Compiled' = Compiled /\ nextReg' = nextReg /\ consts' = consts /\ blob' = blob
  BY CtxKept
<1>4. ProgramIsCompiled' /\ program.instrs = instrs
  BY <1>2, <1>3, ProgramHolds DEF ProgramIsCompiled
<1>5. instrs \in Seq(Loads \cup Ops) /\ Len(instrs) \in Nat /\ nextReg \in Nat
  BY LenProperties DEF LInv, IInv, CompileTypes
<1>6. ip \in 1..(Len(instrs) + 1) /\ RegistersHold /\ StepsHold /\ CellsHold
  BY <1>2 DEF LInv
<1>7. cells' = cells => CellsHold'
  BY <1>3, <1>6 DEF CellsHold
<1> QED BY <1>1, <1>2, <1>4, <1>5, <1>6, <1>7

LEMMA RegisterFilled ==
  ASSUME LInv, ConstLoaded
  PROVE  LInv'
<1> DEFINE i == instrs[ip]
<1>1. /\ UNCHANGED <<source, ctx, missing, program, passes>> /\ cells' = cells /\ steps' = steps
      /\ out' = out /\ ip' = ip + 1 /\ phase = "running" /\ phase' = phase
  BY DEF ConstLoaded, Running
<1>2. /\ IInv' /\ CompileMatches' /\ passes = 0 /\ passes' = 0 /\ missing' \in Nat
      /\ ProgramIsCompiled' /\ program.instrs = instrs
      /\ instrs \in Seq(Loads \cup Ops) /\ ip \in Nat /\ Len(instrs) \in Nat
      /\ ip \in 1..(Len(instrs) + 1) /\ RegistersHold /\ StepsHold
      /\ nextReg \in Nat /\ CellsHold'
  BY <1>1, RunKept
<1>3. /\ ip \in 1..Len(instrs) /\ i.op = "load"
      /\ registers' = [registers EXCEPT ![i.dst + 1] = i.const]
  BY <1>2 DEF ConstLoaded, Running, Instr, Register
<1>4. i \in Loads
  <2>1. i \in Loads \cup Ops
    BY <1>2, <1>3, ElementOfSeq
  <2> QED BY <2>1, <1>3 DEF Ops
<1>5. i.dst \in Nat /\ i.const \in Nat
  BY <1>4 DEF Loads
<1>6. ValueOfRegister(regOf, consts, blob, i.dst, i.const + 1)
  BY <1>3 DEF LInv, CompileMatches, LoadsMatch
<1>7. i.dst \in 0..(nextReg - 1)
  BY <1>2, <1>5, <1>6 DEF ValueOfRegister, LInv, IInv, RegMapHolds
<1>8. /\ Compiled' = Compiled /\ nextReg' = nextReg /\ instrs' = instrs /\ consts' = consts
      /\ blob' = blob /\ regOf' = regOf /\ heap' = heap /\ plan' = plan
  BY <1>1, CtxKept
<1> DEFINE d == i.dst
           c == i.const
<1>9. /\ registers \in [1..nextReg -> Int] /\ d + 1 \in 1..nextReg /\ c \in Int /\ c # Empty
      /\ c \in Nat /\ d \in Nat
  <2>1. registers \in [1..nextReg -> Int] /\ nextReg \in Nat
    BY <1>2 DEF RegistersHold, LInv, IInv, CompileTypes
  <2> HIDE DEF LInv, i
  <2>2. d + 1 \in 1..nextReg
    BY <1>5, <1>7, <2>1
  <2>3. c \in Int /\ c # Empty
    BY <1>5 DEF Empty
  <2> QED BY <1>5, <2>1, <2>2, <2>3
<1>10. ip - 1 \in Nat /\ ip - 1 + 1 = ip /\ (ip + 1) - 1 = ip
  BY <1>3
<1> HIDE DEF i
<1>11. /\ registers' \in [1..nextReg -> Int] /\ registers'[d + 1] = c
       /\ \A q \in 1..nextReg : q # d + 1 => registers'[q] = registers[q]
  BY <1>3, <1>9
<1> HIDE DEF d, c
<1>12. ASSUME NEW r \in 0..(nextReg - 1), registers'[r + 1] # Empty
       PROVE  ValueOfRegister(regOf, consts, blob, r, registers'[r + 1] + 1)
  <2>1. CASE r = d
    BY <2>1, <1>6, <1>11 DEF d, c
  <2>2. CASE r # d
    <3>1. r + 1 \in 1..nextReg /\ r + 1 # d + 1
      BY <2>2, <1>2, <1>9
    <3>2. registers'[r + 1] = registers[r + 1]
      BY <3>1, <1>11
    <3> QED BY <3>2, <1>2, <1>12 DEF RegistersHold, RegisterHolds
  <2> QED BY <2>1, <2>2
<1>13. ASSUME NEW j \in 1..ip, instrs[j].op = "load"
       PROVE  registers'[instrs[j].dst + 1] # Empty
  <2>1. CASE instrs[j].dst = d
    BY <2>1, <1>9, <1>11
  <2>2. CASE j = ip
    BY <2>1, <2>2 DEF i, d
  <2>3. CASE j \in 1..(ip - 1) /\ instrs[j].dst # d
    <3>1. instrs[j] \in Loads \cup Ops
      BY <1>2, <1>3, ElementOfSeq
    <3>2. instrs[j].dst \in Nat
      BY <3>1, <1>13 DEF Loads, Ops
    <3>3. ValueOfRegister(regOf, consts, blob, instrs[j].dst, instrs[j].const + 1)
      BY <1>2, <1>3, <1>13 DEF LInv, CompileMatches, LoadsMatch
    <3>4. instrs[j].dst < nextReg
      BY <3>3 DEF ValueOfRegister, LInv, IInv, RegMapHolds
    <3>5. instrs[j].dst + 1 \in 1..nextReg /\ instrs[j].dst + 1 # d + 1
      BY <2>3, <3>2, <3>4, <1>2, <1>9
    <3>6. registers[instrs[j].dst + 1] # Empty
      BY <2>3, <1>2, <1>13 DEF RegistersHold
    <3> QED BY <3>5, <3>6, <1>11
  <2> QED BY <2>1, <2>2, <2>3, <1>3
<1>14. RegistersHold'
  <2>1. \A r \in 0..(nextReg - 1) : RegisterHolds(r)'
    BY <1>8, <1>12 DEF RegisterHolds, ValueOfRegister
  <2> QED BY <1>1, <1>8, <1>10, <1>11, <1>13, <2>1 DEF RegistersHold
<1>15. StepsHold'
  <2>1. OpsUpTo(instrs, ip) = OpsUpTo(instrs, ip - 1)
    <3>1. instrs[(ip - 1) + 1].op = "load"
      BY <1>3, <1>10 DEF i
    <3>2. /\ OpsUpTo(instrs, ip - 1) \in Nat
          /\ OpsUpTo(instrs, (ip - 1) + 1) = OpsUpTo(instrs, ip - 1) + 0
      BY <3>1, <1>10, OpsCounted, Zenon
    <3> QED BY <3>2, <1>10
  <2>2. ip' - 1 = ip
    BY <1>1, <1>10
  <2> QED BY <1>1, <1>2, <1>8, <2>1, <2>2 DEF StepsHold, SameStep
<1>16. ip' \in 1..(Len(instrs') + 1)
  BY <1>1, <1>3, <1>8
<1>17. LoadedTypes' /\ WholeFilesLoad' /\ FailsForCause'
  BY <1>1, <1>2 DEF LoadedTypes, WholeFilesLoad, FailsForCause
<1> QED BY <1>1, <1>2, <1>14, <1>15, <1>16, <1>17 DEF LInv

(* An instruction is that of the next step of the compiled plan: its registers were *)
(* loaded, with constants of the values of its cells.                      *)
LEMMA ArgumentsHold ==
  ASSUME LInv, phase = "running", ip \in 1..Len(instrs), instrs[ip].op # "load",
         program.instrs = instrs
  PROVE  /\ Len(steps) + 1 \in 1..Len(plan)
         /\ Instr.fxn = plan[Len(steps) + 1].fxn /\ Instr.fxn \in Functions
         /\ Len(Instr.regs) = Len(plan[Len(steps) + 1].cells)
         /\ Len(Instr.regs) \in Nat /\ Len(Instr.regs) > 0
         /\ Arguments \in [1..Len(Instr.regs) -> Int]
         /\ \A j \in 1..Len(Instr.regs) :
              Describes(consts, blob, Arguments[j], heap[plan[Len(steps) + 1].cells[j]])
<1> DEFINE i == instrs[ip]
           k == Len(steps) + 1
           a == Arguments
<1>1. /\ instrs \in Seq(Loads \cup Ops) /\ Len(instrs) \in Nat /\ ip \in Nat /\ ip - 1 \in Nat
      /\ RegistersHold /\ StepsHold /\ nextReg \in Nat
  BY LenProperties DEF LInv, IInv, CompileTypes
<1>2. i \in Ops
  <2>1. i \in Loads \cup Ops
    BY <1>1, ElementOfSeq
  <2> QED BY <2>1 DEF Loads
<1>3. i.regs \in Seq(Nat) /\ i.fxn \in Functions
  BY <1>2 DEF Ops
<1>4. k < at /\ OpOfStep(regOf, i, k)
  BY <1>1 DEF LInv, CompileMatches, OpsMatch, StepsHold
<1>5. k \in 1..Len(plan)
  <2>1. Len(steps) \in Nat
    BY <1>1 DEF StepsHold
  <2>2. at \in Nat /\ at <= Len(plan) + 1 /\ Len(plan) \in Nat
    BY PlanIs, LenProperties DEF LInv, IInv, CompileTypes, CompileMatches, OperandsMatch
  <2> QED BY <2>1, <2>2, <1>4
<1> HIDE DEF k
<1>6. plan[k].cells \in Seq(Nat) /\ plan[k].cells # <<>>
  BY <1>5, PlanIs DEF LInv, IInv
<1>7. /\ i.fxn = plan[k].fxn /\ Len(i.regs) = Len(plan[k].cells)
      /\ \A j \in 1..Len(plan[k].cells) :
           plan[k].cells[j] \in DOMAIN regOf /\ i.regs[j] = regOf[plan[k].cells[j]]
  BY <1>4 DEF OpOfStep
<1> DEFINE l == Len(plan[k].cells)
<1>8. l \in Nat /\ l > 0 /\ DOMAIN i.regs = 1..l
  <2>1. \A q \in Seq(Nat) : Len(q) \in Nat /\ DOMAIN q = 1..Len(q) /\ (q # <<>> => Len(q) > 0)
    OBVIOUS
  <2> QED BY <2>1, <1>3, <1>6, <1>7
<1>9. Instr = i
  BY DEF Instr
<1> HIDE DEF l
<1>10. a = [j \in 1..l |-> registers[i.regs[j] + 1] + 1]
  BY <1>8, <1>9 DEF Arguments
<1>11. ASSUME NEW j \in 1..l
       PROVE  /\ registers[i.regs[j] + 1] \in Int
              /\ Describes(consts, blob, registers[i.regs[j] + 1] + 1, heap[plan[k].cells[j]])
  <2> DEFINE r == i.regs[j]
             cell == plan[k].cells[j]
  <2>1. cell \in DOMAIN regOf /\ r = regOf[cell] /\ r \in Nat /\ j \in 1..Len(i.regs)
    BY <1>3, <1>7, ElementOfSeq DEF l
  <2>2. r < nextReg /\ IsLoaded(r, instrs, ip - 1)
    BY <2>1, <1>1 DEF LInv, IInv, OpsHold, OpHolds
  <2> HIDE DEF r, cell
  <2>3. registers[r + 1] # Empty
    BY <2>2, <1>1 DEF IsLoaded, RegistersHold
  <2>4. r \in 0..(nextReg - 1) /\ r + 1 \in 1..nextReg
    BY <2>1, <2>2, <1>1
  <2>5. ValueOfRegister(regOf, consts, blob, r, registers[r + 1] + 1)
    BY <2>3, <2>4, <1>1 DEF RegistersHold, RegisterHolds
  <2>6. PICK c \in DOMAIN regOf :
          regOf[c] = r /\ Describes(consts, blob, registers[r + 1] + 1, heap[c])
    BY <2>5 DEF ValueOfRegister
  <2>7. c = cell
    BY <2>1, <2>6 DEF LInv, IInv, RegMapHolds
  <2>8. registers[r + 1] \in Int
    BY <2>4, <1>1 DEF RegistersHold
  <2> QED BY <2>6, <2>7, <2>8 DEF r, cell
<1>12. a \in [1..l -> Int]
  BY <1>10, <1>11
<1> HIDE DEF a, i
<1>13. \A j \in 1..l : Describes(consts, blob, a[j], heap[plan[k].cells[j]])
  BY <1>10, <1>11
<1>14. Len(Instr.regs) = l
  BY <1>7, <1>9 DEF l
<1> QED BY <1>3, <1>5, <1>7, <1>8, <1>9, <1>12, <1>13, <1>14 DEF k, a, l

(* The step an accepted instruction builds is that of the compiled plan.    *)
LEMMA StepBuilt ==
  ASSUME LInv, phase = "running", ip \in 1..Len(instrs), instrs[ip].op # "load",
         program.instrs = instrs, Accepted(Instr.fxn, Len(Instr.regs))
  PROVE  /\ Len(steps) + 1 \in 1..Len(plan)
         /\ FunctionArgs \in Seq(Int) /\ Len(FunctionArgs) > 0
         /\ SameStep([fxn |-> Instr.fxn, cells |-> FunctionArgs], plan[Len(steps) + 1])
<1> DEFINE t == plan[Len(steps) + 1]
           f == Instr.fxn
           a == Arguments
           l == Len(Instr.regs)
           b == FunctionArgs
<1>1. /\ Len(steps) + 1 \in 1..Len(plan) /\ f = t.fxn /\ f \in Functions /\ l = Len(t.cells)
      /\ l \in Nat /\ l > 0 /\ a \in [1..l -> Int] /\ Accepted(f, l)
      /\ \A j \in 1..l : Describes(consts, blob, a[j], heap[t.cells[j]])
  BY ArgumentsHold
<1>2. b = AsTaken(f, a)
  BY DEF FunctionArgs
<1>3. t.cells \in Seq(Nat)
  BY <1>1, PlanIs DEF LInv, IInv
<1> HIDE DEF t, f, a, l, b
<1>4. DOMAIN t.cells = 1..l
  BY <1>1, <1>3
<1>5. b \in [1..l -> Int] /\ \A j \in 1..l : Describes(consts, blob, b[j], heap[AsTaken(f, t.cells)[j]])
  <2>1. CASE f \in Variadic
    BY <2>1, <1>1, <1>2 DEF AsTaken
  <2>2. CASE f \notin Variadic
    <3>1. \A j \in 1..l : Takes[f][j] \in 1..l
      BY <2>2, <1>1, LoadedAssumption DEF Accepted
    <3>2. b = [j \in 1..l |-> a[Takes[f][j]]] /\ DOMAIN a = 1..l
      BY <2>2, <1>1, <1>2 DEF AsTaken
    <3>3. AsTaken(f, t.cells) = [j \in 1..l |-> t.cells[Takes[f][j]]]
      BY <2>2, <1>4 DEF AsTaken
    <3>4. b \in [1..l -> Int]
      BY <3>1, <3>2, <1>1
    <3>5. ASSUME NEW j \in 1..l
          PROVE  Describes(consts, blob, b[j], heap[AsTaken(f, t.cells)[j]])
      BY <3>1, <3>2, <3>3, <1>1
    <3> QED BY <3>4, <3>5
  <2> QED BY <2>1, <2>2
<1>6. b \in Seq(Int) /\ Len(b) = l
  BY <1>1, <1>5, FunctionIsSeq
<1>7. SameStep([fxn |-> f, cells |-> b], t)
  BY <1>1, <1>5 DEF SameStep
<1> QED BY <1>1, <1>6, <1>7 DEF t, f, b

LEMMA PlanGrows ==
  ASSUME LInv, OpBuilt
  PROVE  LInv'
<1> DEFINE n == Len(steps)
           new == [fxn |-> Instr.fxn, cells |-> FunctionArgs]
<1>1. /\ UNCHANGED <<source, ctx, missing, program, passes>> /\ cells' = cells
      /\ registers' = registers /\ ip' = ip + 1 /\ phase = "running" /\ phase' = phase
      /\ steps' = Append(steps, new) /\ out' = Head(FunctionArgs) /\ Instr.fxn \in Registered
      /\ Accepted(Instr.fxn, Len(Instr.regs))
  BY DEF OpBuilt, Running
<1>2. /\ IInv' /\ CompileMatches' /\ passes = 0 /\ passes' = 0 /\ missing' \in Nat
      /\ ProgramIsCompiled' /\ program.instrs = instrs
      /\ instrs \in Seq(Loads \cup Ops) /\ ip \in Nat /\ Len(instrs) \in Nat
      /\ ip \in 1..(Len(instrs) + 1) /\ RegistersHold /\ StepsHold
      /\ CellsHold'
  BY <1>1, RunKept
<1>3. ip \in 1..Len(instrs) /\ instrs[ip].op # "load"
  BY <1>2 DEF OpBuilt, Running, Instr
<1>4. /\ n + 1 \in 1..Len(plan) /\ FunctionArgs \in Seq(Int) /\ Len(FunctionArgs) > 0
      /\ SameStep(new, plan[n + 1])
  BY <1>1, <1>2, <1>3, StepBuilt
<1>5. /\ Compiled' = Compiled /\ nextReg' = nextReg /\ instrs' = instrs /\ consts' = consts
      /\ blob' = blob /\ regOf' = regOf /\ heap' = heap /\ plan' = plan
  BY <1>1, CtxKept
<1>6. new \in [fxn : Functions, cells : Seq(Int)] /\ new.cells = FunctionArgs
  BY <1>1, <1>4, LoadedAssumption
<1>7. steps \in Seq([fxn : Functions, cells : Seq(Int)]) /\ n \in Nat
  BY <1>2, LenProperties DEF StepsHold
<1> HIDE DEF new
<1>8. /\ steps' \in Seq([fxn : Functions, cells : Seq(Int)]) /\ Len(steps') = n + 1
      /\ steps'[n + 1] = new /\ \A k \in 1..n : steps'[k] = steps[k]
  BY <1>1, <1>6, <1>7
<1>9. ip - 1 \in Nat /\ ip - 1 + 1 = ip /\ ip' - 1 = ip
  BY <1>1, <1>3
<1>10. OpsUpTo(instrs, ip) = n + 1
  <2>1. OpsUpTo(instrs, (ip - 1) + 1) = OpsUpTo(instrs, ip - 1) + 1
    BY <1>3, <1>9, OpsCounted
  <2> QED BY <2>1, <1>2, <1>9 DEF StepsHold
<1>11. ASSUME NEW k \in 1..(n + 1)
       PROVE  SameStep(steps'[k], plan[k])
  <2>1. CASE k = n + 1
    BY <2>1, <1>4, <1>8
  <2>2. CASE k \in 1..n
    <3>1. steps'[k] = steps[k]
      BY <2>2, <1>8
    <3>2. SameStep(steps[k], plan[k])
      BY <2>2, <1>2 DEF StepsHold
    <3> QED BY <3>1, <3>2
  <2> QED BY <2>1, <2>2, <1>7
<1>12. out' = steps'[Len(steps')].cells[1]
  <2>1. \A q \in Seq(Int) : Head(q) = q[1]
    OBVIOUS
  <2>2. Head(FunctionArgs) = FunctionArgs[1]
    BY <1>4, <2>1
  <2> QED BY <1>1, <1>6, <1>8, <2>2
<1>13. StepsHold'
  BY <1>5, <1>8, <1>9, <1>10, <1>11, <1>12 DEF StepsHold, SameStep
<1>14. RegistersHold'
  <2>1. \A j \in 1..ip : instrs[j].op = "load" => j \in 1..(ip - 1)
    BY <1>3
  <2> QED BY <1>1, <1>2, <1>5, <1>9, <2>1 DEF RegistersHold, RegisterHolds, ValueOfRegister
<1>15. ip' \in 1..(Len(instrs') + 1)
  BY <1>1, <1>3, <1>5
<1>16. LoadedTypes' /\ WholeFilesLoad' /\ FailsForCause'
  BY <1>1, <1>2 DEF LoadedTypes, WholeFilesLoad, FailsForCause
<1> QED BY <1>1, <1>2, <1>13, <1>14, <1>15, <1>16 DEF LInv

LEMMA RunFails ==
  ASSUME LInv, OpUnknown \/ OpRefused
  PROVE  LInv'
<1>1. /\ UNCHANGED <<source, ctx, missing, program, passes>> /\ phase = "running" /\ phase' = "failed"
  BY DEF OpUnknown, OpRefused, Running, loading
<1>2. /\ IInv' /\ CompileMatches' /\ passes' = 0 /\ missing' \in Nat
      /\ ProgramIsCompiled' /\ program.instrs = instrs
      /\ ip \in 1..(Len(instrs) + 1) /\ ip \in Nat /\ Len(instrs) \in Nat
  BY <1>1, RunKept
<1>3. /\ ip \in 1..Len(instrs) /\ instrs[ip].op # "load"
      /\ Instr.fxn \notin Registered \/ ~Accepted(Instr.fxn, Len(Instr.regs))
  BY <1>2 DEF OpUnknown, OpRefused, Running, Instr
<1>4. plan' = plan /\ DOMAIN plan = 1..Len(plan)
  BY <1>1, CtxKept, PlanIs DEF LInv, IInv
<1>5. \E k \in DOMAIN plan :
        plan[k].fxn \notin Registered \/ ~Accepted(plan[k].fxn, Len(plan[k].cells))
  <2>1. /\ Len(steps) + 1 \in DOMAIN plan
        /\ Instr.fxn = plan[Len(steps) + 1].fxn
        /\ Len(Instr.regs) = Len(plan[Len(steps) + 1].cells)
    BY <1>1, <1>2, <1>3, <1>4, ArgumentsHold
  <2> QED BY <2>1, <1>3
<1>6. LoadedTypes' /\ WholeFilesLoad' /\ FailsForCause'
  BY <1>1, <1>2, <1>4, <1>5 DEF LoadedTypes, WholeFilesLoad, FailsForCause
<1> QED BY <1>1, <1>2, <1>6 DEF LInv

LEMMA RunEnds ==
  ASSUME LInv, EndRun
  PROVE  LInv'
<1>1. /\ UNCHANGED <<source, ctx, missing, program, passes>> /\ phase = "running" /\ phase' = "ran"
      /\ cells' = cells /\ registers' = registers /\ ip' = ip /\ steps' = steps /\ out' = out
  BY DEF EndRun, loading
<1>2. /\ IInv' /\ CompileMatches' /\ passes' = 0 /\ missing' \in Nat
      /\ ProgramIsCompiled' /\ program.instrs = instrs
      /\ ip \in 1..(Len(instrs) + 1) /\ ip \in Nat /\ Len(instrs) \in Nat
      /\ RegistersHold /\ StepsHold /\ CellsHold'
  BY <1>1, RunKept
<1>3. ip = Len(instrs) + 1
  BY <1>2 DEF EndRun
<1>4. /\ nextReg' = nextReg /\ instrs' = instrs /\ consts' = consts
      /\ blob' = blob /\ regOf' = regOf /\ heap' = heap /\ plan' = plan
  BY <1>1, CtxKept
<1>5. RegistersHold' /\ StepsHold'
  BY <1>1, <1>2, <1>4 DEF RegistersHold, RegisterHolds, ValueOfRegister, StepsHold, SameStep
<1>6. LoadedTypes' /\ WholeFilesLoad' /\ FailsForCause'
  BY <1>1, <1>2 DEF LoadedTypes, WholeFilesLoad, FailsForCause
<1> QED BY <1>1, <1>2, <1>3, <1>4, <1>5, <1>6 DEF LInv

LEMMA PlanStepped ==
  ASSUME LInv, Step
  PROVE  LInv'
<1>1. /\ UNCHANGED <<source, ctx, missing, program>> /\ phase = "ran" /\ phase' = "ran"
      /\ registers' = registers /\ ip' = ip /\ steps' = steps /\ out' = out
      /\ passes' = passes + 1
  BY DEF Step
<1>2. IInv' /\ CompileMatches'
  BY <1>1, RestKept
<1>3. passes' \in Nat \ {0} /\ missing' \in Nat
  BY <1>1 DEF LInv, LoadedTypes
<1>4. /\ nextReg' = nextReg /\ instrs' = instrs /\ consts' = consts
      /\ blob' = blob /\ regOf' = regOf /\ heap' = heap /\ plan' = plan /\ Compiled' = Compiled
  BY <1>1, CtxKept
<1>5. ProgramIsCompiled' /\ ip' = Len(instrs') + 1 /\ ip' \in 1..(Len(instrs') + 1)
  BY <1>1, <1>4 DEF LInv, ProgramIsCompiled
<1>6. RegistersHold' /\ StepsHold'
  BY <1>1, <1>4 DEF LInv, RegistersHold, RegisterHolds, ValueOfRegister, StepsHold, SameStep
<1>7. LoadedTypes' /\ WholeFilesLoad' /\ FailsForCause'
  BY <1>1, <1>3 DEF LoadedTypes, WholeFilesLoad, FailsForCause
<1> QED BY <1>1, <1>2, <1>3, <1>5, <1>6, <1>7 DEF LInv

LEMMA StepUndefined ==
  ASSUME LInv, StepMisread
  PROVE  LInv'
<1>1. /\ UNCHANGED <<source, ctx, missing, program, passes>> /\ phase = "ran" /\ phase' = "undefined"
  BY DEF StepMisread, loading
<1>2. IInv' /\ CompileMatches'
  BY <1>1, RestKept
<1>3. LoadedTypes' /\ WholeFilesLoad' /\ FailsForCause'
  BY <1>1 DEF LInv, LoadedTypes, WholeFilesLoad, FailsForCause
<1> QED BY <1>1, <1>2, <1>3 DEF LInv

-----------------------------------------------------------------------------
(* The invariant.                                                          *)

LEMMA LoadedInitHolds == LoadedInit => LInv
<1> SUFFICES ASSUME LoadedInit PROVE LInv
  OBVIOUS
<1>1. /\ source \in Sources /\ phase = "interpreting" /\ at = 1 /\ loaded = <<>> /\ regOf = <<>>
      /\ instrs = <<>> /\ missing = 0 /\ passes = 0 /\ steps = <<>>
  BY DEF LoadedInit, Init
<1>2. IInv
  BY InitHolds DEF LoadedInit
<1>3. Len(plan) \in Nat
  BY <1>2, PlanIs, LenProperties DEF IInv
<1>4. OpsUpTo(instrs, 0) = 0
  BY OpsCounted
<1>5. OperandsMatch
  <2>1. at <= Len(plan) => plan[at].cells \in Seq(Nat)
    BY <1>1, <1>2, <1>3, PlanIs DEF IInv
  <2> QED BY <1>1, <1>3, <2>1 DEF OperandsMatch, Operands
<1>6. CompileMatches
  BY <1>1, <1>4, <1>5 DEF CompileMatches, OpsMatch, LoadsMatch
<1>7. LoadedTypes /\ WholeFilesLoad /\ FailsForCause
  BY <1>1 DEF LoadedTypes, WholeFilesLoad, FailsForCause
<1> QED BY <1>1, <1>2, <1>6, <1>7 DEF LInv

LEMMA LoadedStepHolds ==
  ASSUME LInv, [Next]_vars
  PROVE  LInv'
<1>1. CASE UNCHANGED vars
  <2>1. /\ UNCHANGED <<source, ctx, missing, program, passes>> /\ phase' = phase
        /\ cells' = cells /\ registers' = registers /\ ip' = ip /\ steps' = steps /\ out' = out
    BY <1>1 DEF vars, loading
  <2>2. /\ nextReg' = nextReg /\ instrs' = instrs /\ consts' = consts /\ types' = types
        /\ blob' = blob /\ regOf' = regOf /\ heap' = heap /\ plan' = plan /\ Compiled' = Compiled
        /\ File' = File /\ IInv' /\ at' = at /\ loaded' = loaded
    BY <2>1, CtxKept DEF LInv, ctx
  <2>3. CompileMatches'
    BY <2>1, <2>2 DEF LInv, CompileMatches, OperandsMatch, Operands, OpsMatch, OpOfStep, LoadsMatch,
                      ValueOfRegister
  <2>4. LoadedTypes' /\ WholeFilesLoad' /\ FailsForCause'
    BY <2>1, <2>2 DEF LInv, LoadedTypes, WholeFilesLoad, FailsForCause
  <2>5. /\ RegistersHold => RegistersHold'
        /\ StepsHold => StepsHold'
        /\ CellsHold => CellsHold'
        /\ ProgramIsCompiled => ProgramIsCompiled'
    BY <2>1, <2>2 DEF RegistersHold, RegisterHolds, ValueOfRegister, StepsHold, SameStep, CellsHold,
                      ProgramIsCompiled
  <2> QED BY <2>1, <2>2, <2>3, <2>4, <2>5 DEF LInv
<1> QED BY <1>1, CompileKeeps, FileWritten, FileLoaded, RunBegun, RegisterFilled, PlanGrows,
           RunFails, RunEnds, PlanStepped, StepUndefined DEF Next

LEMMA LoadedInvariance == Spec => []LInv
<1>1. LInv /\ [Next]_vars => LInv'
  BY LoadedStepHolds
<1> QED BY <1>1, LoadedInitHolds, PTL DEF Spec

-----------------------------------------------------------------------------
(* Theorems.                                                               *)

(* A written file is loaded if and only if no byte of it is lost, and what is kept of *)
(* it can be written again byte by byte.                                   *)
THEOREM WholeFilesAreLoaded == Spec => []WholeFilesLoad
<1>1. LInv => WholeFilesLoad
  BY DEF LInv
<1> QED BY <1>1, LoadedInvariance, PTL

(* A loaded program fails only over a kind without an arm in decode_const_entries, *)
(* a function that is not registered or a factory that takes another number of *)
(* operands than compile emits: bounds, alignment and registers fit.       *)
THEOREM FailuresHaveACause == Spec => []FailsForCause
<1>1. LInv => FailsForCause
  BY DEF LInv
<1> QED BY <1>1, LoadedInvariance, PTL

(* What run_program leaves is the plan that was compiled, over cells that hold what *)
(* the cells of the compiling interpreter held, each step's in the order in which the *)
(* factory of its function takes them, and it returns the value of the last step's *)
(* output.                                                                 *)
THEOREM WhatWasCompiledRuns == Spec => []RunsWhatWasCompiled
<1>1. LInv => RunsWhatWasCompiled
  <2> SUFFICES ASSUME LInv, phase = "ran", passes = 0
               PROVE  /\ Len(steps) = Len(plan)
                      /\ \A i \in DOMAIN plan :
                           /\ steps[i].fxn = plan[i].fxn
                           /\ Values(cells, steps[i]) = AsTaken(plan[i].fxn, Values(heap, plan[i]))
                      /\ plan # <<>> => cells[out] = heap[plan[Len(plan)].cells[1]]
    BY DEF RunsWhatWasCompiled
  <2>1. StepsHold /\ CellsHold /\ ip = Len(instrs) + 1 /\ CompileMatches
    BY DEF LInv
  <2>2. /\ Len(plan) \in Nat /\ DOMAIN plan = 1..Len(plan) /\ at \in Nat /\ Len(instrs) \in Nat
        /\ plan # <<>> => Len(plan) > 0
    <3>1. plan \in Seq([fxn : Functions, cells : Seq(Nat)])
      BY PlanIs DEF LInv, IInv
    <3> QED BY <3>1, LenProperties DEF LInv, IInv, CompileTypes
  <2>3. Len(steps) = Len(plan)
    <3>1. OpsUpTo(instrs, Len(instrs)) = at - 1 /\ at = Len(plan) + 1
      BY <2>1 DEF CompileMatches, OpsMatch
    <3>2. ip - 1 = Len(instrs)
      BY <2>1, <2>2
    <3> QED BY <3>1, <3>2, <2>1, <2>2 DEF StepsHold
  <2>4. ASSUME NEW k \in 1..Len(plan)
        PROVE  /\ steps[k].fxn = plan[k].fxn
               /\ Values(cells, steps[k]) = AsTaken(plan[k].fxn, Values(heap, plan[k]))
               /\ cells[steps[k].cells[1]] = heap[plan[k].cells[1]]
    <3> DEFINE t == plan[k]
               q == steps[k]
               l == Len(t.cells)
    <3>1. SameStep(q, t)
      BY <2>1, <2>3 DEF StepsHold
    <3>2. t.cells \in Seq(Nat) /\ t.cells # <<>> /\ t.fxn \in Functions
      BY <2>2, PlanIs, ElementOfSeq DEF LInv, IInv
    <3>3. DOMAIN t.cells = 1..l /\ 1 \in 1..l
      <4>1. \A p \in Seq(Nat) : DOMAIN p = 1..Len(p) /\ (p # <<>> => 1 \in 1..Len(p))
        OBVIOUS
      <4> QED BY <3>2, <4>1, Zenon
    <3>4. \A j \in 1..l : cells[q.cells[j]] = heap[AsTaken(t.fxn, t.cells)[j]]
      BY <2>1, <3>1 DEF SameStep, Describes, CellsHold
    <3>5. q.fxn = t.fxn /\ DOMAIN q.cells = 1..l /\ Accepted(t.fxn, l)
      BY <3>1 DEF SameStep
    <3> HIDE DEF t, q, l
    <3>6. Values(cells, q) = [j \in 1..l |-> heap[AsTaken(t.fxn, t.cells)[j]]]
      BY <3>4, <3>5 DEF Values
    <3>7. Values(heap, t) = [j \in 1..l |-> heap[t.cells[j]]]
      BY <3>3 DEF Values
    <3>8. CASE t.fxn \in Variadic
      <4>1. AsTaken(t.fxn, t.cells) = t.cells /\ AsTaken(t.fxn, Values(heap, t)) = Values(heap, t)
        BY <3>8 DEF AsTaken
      <4> QED BY <4>1, <3>3, <3>4, <3>5, <3>6, <3>7 DEF t, q
    <3>9. CASE t.fxn \notin Variadic
      <4>1. Takes[t.fxn][1] = 1 /\ \A j \in 1..l : Takes[t.fxn][j] \in 1..l
        BY <3>2, <3>5, <3>9, LoadedAssumption DEF Accepted
      <4>2. AsTaken(t.fxn, t.cells) = [j \in 1..l |-> t.cells[Takes[t.fxn][j]]]
        BY <3>3, <3>9 DEF AsTaken
      <4>3. AsTaken(t.fxn, Values(heap, t)) = [j \in 1..l |-> heap[t.cells[Takes[t.fxn][j]]]]
        <5>1. AsTaken(t.fxn, Values(heap, t)) = [j \in 1..l |-> Values(heap, t)[Takes[t.fxn][j]]]
          BY <3>7, <3>9 DEF AsTaken
        <5>2. \A j \in 1..l : Values(heap, t)[Takes[t.fxn][j]] = heap[t.cells[Takes[t.fxn][j]]]
          BY <3>7, <4>1
        <5> QED BY <5>1, <5>2
      <4>4. Values(cells, q) = AsTaken(t.fxn, Values(heap, t))
        <5>1. \A j \in 1..l : AsTaken(t.fxn, t.cells)[j] = t.cells[Takes[t.fxn][j]]
          BY <4>2
        <5> QED BY <5>1, <3>6, <4>3
      <4>5. cells[q.cells[1]] = heap[t.cells[1]]
        BY <3>3, <3>4, <4>1, <4>2
      <4> QED BY <3>5, <4>4, <4>5 DEF t, q
    <3> QED BY <3>8, <3>9
  <2>5. plan # <<>> => out = steps[Len(plan)].cells[1] /\ Len(plan) \in 1..Len(plan)
    BY <2>1, <2>2, <2>3 DEF StepsHold
  <2> QED BY <2>2, <2>3, <2>4, <2>5
<1> QED BY <1>1, LoadedInvariance, PTL
=============================================================================
