---------------------------- MODULE BasicLemmas ----------------------------
(***************************************************************************)
(* Induction stated with sets in place of predicates, and the facts about  *)
(* numbers, masks and chains of writes that the proofs share.  To show     *)
(* P(n) for every n, apply NatSetInduction to {n \in Nat : P(n)}.  Both    *)
(* principles follow from the fact that the finite subsets of a set are    *)
(* well founded by strict inclusion (FiniteSetTheorems), so that a set of  *)
(* them has a minimal member: the least counterexample.                    *)
(***************************************************************************)
EXTENDS Integers, Sequences, FiniteSetsExt, FiniteSetTheorems, TLAPS

\* A set that holds 0 and the successor of each natural number in it holds all
\* natural numbers.
LEMMA NatSetInduction ==
  ASSUME NEW S, 0 \in S, \A n \in Nat : n \in S => n + 1 \in S
  PROVE  Nat \subseteq S
<1> SUFFICES ASSUME Nat \ S # {} PROVE FALSE
  OBVIOUS
<1> DEFINE Upto(n) == 1..n
           T == {Upto(n) : n \in Nat \ S}
           R == StrictSubsetOrdering(Nat)
<1>1. T \subseteq FiniteSubsetsOf(Nat) /\ T # {}
  <2> SUFFICES ASSUME NEW n \in Nat PROVE Upto(n) \in FiniteSubsetsOf(Nat)
    OBVIOUS
  <2>1. IsFiniteSet(1..n) /\ 1..n \subseteq Nat
    BY FS_Interval
  <2> QED BY <2>1 DEF FiniteSubsetsOf
<1>2. IsWellFoundedOn(R, FiniteSubsetsOf(Nat))
  BY FS_StrictSubsetOrderingWellFounded
<1>3. PICK x \in T : \A y \in T : <<y, x>> \notin R
  <2> HIDE DEF T, R
  <2> QED BY <1>1, <1>2, WFMin
<1>4. PICK n \in Nat \ S : x = Upto(n)
  OBVIOUS
<1>5. n # 0 /\ n - 1 \in Nat \ S
  OBVIOUS
<1>6. <<Upto(n - 1), Upto(n)>> \in R
  <2>1. 1..(n-1) \subseteq 1..n /\ 1..n \subseteq Nat /\ n \in 1..n /\ n \notin 1..(n-1)
    BY <1>5
  <2> QED BY <2>1 DEF StrictSubsetOrdering
<1> QED BY <1>3, <1>4, <1>5, <1>6

\* A set of sets that holds {} and, with each of its members, that member with
\* one more element of S, holds the finite set S.
LEMMA FiniteSetInduction ==
  ASSUME NEW S, IsFiniteSet(S), NEW C, {} \in C,
         \A T \in SUBSET S : \A x \in S \ T : T \in C => T \cup {x} \in C
  PROVE  S \in C
<1> SUFFICES ASSUME S \notin C PROVE FALSE
  OBVIOUS
<1> DEFINE T == (SUBSET S) \ C
           R == StrictSubsetOrdering(S)
<1>1. T \subseteq FiniteSubsetsOf(S) /\ T # {}
  BY FS_FiniteSubsetsOfFinite
<1>2. IsWellFoundedOn(R, FiniteSubsetsOf(S))
  BY FS_StrictSubsetOrderingWellFounded
<1>3. PICK U \in T : \A V \in T : <<V, U>> \notin R
  <2> HIDE DEF T, R
  <2> QED BY <1>1, <1>2, WFMin
<1>4. PICK x \in U : TRUE
  <2>1. U # {}
    <3>1. {} \notin T
      OBVIOUS
    <3> QED BY <1>3, <3>1
  <2> QED BY <2>1
<1>5. U \ {x} \in SUBSET S /\ x \in S \ (U \ {x}) /\ (U \ {x}) \cup {x} = U
  OBVIOUS
<1>6. U \ {x} \in T
  BY <1>5
<1>7. <<U \ {x}, U>> \in R
  BY <1>4 DEF StrictSubsetOrdering
<1> QED BY <1>3, <1>6, <1>7

-----------------------------------------------------------------------------
(* Numbers, chains of writes, masks and sums.                             *)

(* The greatest member of a set is the member that none exceeds.           *)
LEMMA MaxIs ==
  ASSUME NEW s, NEW m \in s, m \in Int, \A x \in s : x \in Int /\ x <= m
  PROVE  Max(s) = m
<1>1. m \in s /\ \A y \in s : m >= y
  OBVIOUS
<1>2. Max(s) \in s /\ \A y \in s : Max(s) >= y
  BY <1>1 DEF Max
<1>3. Max(s) \in Int /\ Max(s) <= m /\ m <= Max(s)
  BY <1>2
<1> HIDE DEF Max
<1> QED BY <1>3

(* Numbers up to k have a greatest among them.                             *)
LEMMA MaxIn ==
  ASSUME NEW k \in Nat, NEW s \in SUBSET (1..k), s # {}
  PROVE  Max(s) \in s /\ \A y \in s : Max(s) >= y
<1> DEFINE D == {n \in Nat : \A t \in SUBSET (1..n) : t # {} => \E m \in t : \A y \in t : m >= y}
<1>1. 0 \in D
  <2>1. 1..0 = {}
    OBVIOUS
  <2> QED BY <2>1
<1>2. ASSUME NEW n \in Nat, n \in D PROVE n + 1 \in D
  <2>1. ASSUME NEW t \in SUBSET (1..(n + 1)), t # {} PROVE \E m \in t : \A y \in t : m >= y
    <3>1. CASE n + 1 \in t
      BY <3>1
    <3>2. CASE n + 1 \notin t
      <4>1. t \in SUBSET (1..n)
        BY <3>2
      <4> QED BY <4>1, <1>2, <2>1
    <3> QED BY <3>1, <3>2
  <2> QED BY <2>1
<1>3. Nat \subseteq D
  <2> HIDE DEF D
  <2> QED BY <1>1, <1>2, NatSetInduction
<1>4. \E m \in s : \A y \in s : m >= y
  BY <1>3
<1> QED BY <1>4 DEF Max

(* The first k of n, and those before the last of them.                    *)
LEMMA FirstNumbers ==
  ASSUME NEW n \in Nat, NEW k \in 1..n
  PROVE  /\ 1..k \in SUBSET (1..n) /\ 1..k # {} /\ (1..k) \ {k} = 1..(k - 1)
         /\ Max(1..k) = k /\ k - 1 \in 0..n
<1>1. Max(1..k) = k
  <2>1. k \in 1..k /\ k \in Int /\ \A x \in 1..k : x \in Int /\ x <= k
    OBVIOUS
  <2> QED BY <2>1, MaxIs
<1>2. (1..k) \ {k} = 1..(k - 1)
  OBVIOUS
<1>3. 1..k \subseteq 1..n /\ k \in 1..k /\ k - 1 \in 0..n
  OBVIOUS
<1> HIDE DEF Max
<1> QED BY <1>1, <1>2, <1>3

(* Taking the greatest member from a set of numbers up to k + 1.           *)
LEMMA WithoutMax ==
  ASSUME NEW k \in Nat, NEW s \in SUBSET (1..(k + 1)), s # {}
  PROVE  /\ s \ {Max(s)} \in SUBSET (1..k)
         /\ k + 1 \in s => Max(s) = k + 1
         /\ k + 1 \notin s => s \in SUBSET (1..k)
<1>1. ASSUME k + 1 \in s PROVE Max(s) = k + 1
  <2>1. k + 1 \in Int /\ \A x \in s : x \in Int /\ x <= k + 1
    OBVIOUS
  <2> QED BY <1>1, <2>1, MaxIs
<1>2. ASSUME k + 1 \notin s PROVE s \in SUBSET (1..k)
  BY <1>2
<1>3. s \ {Max(s)} \in SUBSET (1..k)
  <2>1. CASE k + 1 \in s
    <3>1. s \ {k + 1} \in SUBSET (1..k)
      OBVIOUS
    <3> QED BY <1>1, <2>1, <3>1
  <2>2. CASE k + 1 \notin s
    BY <1>2, <2>2
  <2> QED BY <2>1, <2>2
<1> QED BY <1>1, <1>2, <1>3

(* s keeps n integers and its elements at the positions no move writes.    *)
Untouched(s, base, N, moves, n) ==
  /\ s \in [1..N -> Int]
  /\ \A i \in 1..N : (\A k \in 1..n : moves[k].to # i) => s[i] = base[i]

(* What a chain of single writes leaves as it was.                         *)
LEMMA ChainKeeps ==
  ASSUME NEW N \in Nat, NEW n \in Nat, NEW r, NEW moves, r[0] \in [1..N -> Int],
         \A k \in 1..n : r[k - 1] \in [1..N -> Int] =>
           \E a \in Int : r[k] = [r[k - 1] EXCEPT ![moves[k].to] = a]
  PROVE  Untouched(r[n], r[0], N, moves, n)
<1> DEFINE D == {k \in Nat : k <= n => Untouched(r[k], r[0], N, moves, k)}
<1>1. 0 \in D
  BY DEF Untouched
<1>2. ASSUME NEW k \in Nat, k \in D PROVE k + 1 \in D
  <2> SUFFICES ASSUME k + 1 <= n PROVE Untouched(r[k + 1], r[0], N, moves, k + 1)
    OBVIOUS
  <2>1. Untouched(r[k], r[0], N, moves, k)
    BY <1>2
  <2>2. k + 1 \in 1..n /\ (k + 1) - 1 = k /\ k + 1 \in 1..(k + 1) /\ 1..k \subseteq 1..(k + 1)
    OBVIOUS
  <2>3. PICK a \in Int : r[k + 1] = [r[k] EXCEPT ![moves[k + 1].to] = a]
    BY <2>1, <2>2 DEF Untouched
  <2>4. r[k + 1] \in [1..N -> Int]
    BY <2>1, <2>3 DEF Untouched
  <2>5. ASSUME NEW i \in 1..N, \A j \in 1..(k + 1) : moves[j].to # i PROVE r[k + 1][i] = r[0][i]
    <3>1. moves[k + 1].to # i /\ r[k][i] = r[0][i]
      BY <2>1, <2>2, <2>5 DEF Untouched
    <3>2. r[k] \in [1..N -> Int]
      BY <2>1 DEF Untouched
    <3> QED BY <3>1, <3>2, <2>3
  <2> QED BY <2>4, <2>5 DEF Untouched
<1>3. n \in D
  <2> HIDE DEF D
  <2> QED BY <1>1, <1>2, NatSetInduction
<1> QED BY <1>3

BitsOf(f, k, mask) ==
  f = [n \in 0..k |-> IF n = 0 THEN << >>
                      ELSE IF mask[n] THEN Append(f[n - 1], n)
                      ELSE f[n - 1]]

(* The fold that collects the places of a mask exists.                     *)
LEMMA BitsExist ==
  ASSUME NEW mask, NEW N \in Nat
  PROVE  \E f : BitsOf(f, N, mask)
<1> DEFINE G(f, k) == BitsOf(f, k, mask)
           D == {k \in Nat : \E f : G(f, k)}
<1>1. 0 \in D
  <2> DEFINE f == [n \in 0..0 |-> << >>]
  <2>1. G(f, 0)
    BY DEF BitsOf
  <2> QED BY <2>1
<1>2. ASSUME NEW k \in Nat, k \in D PROVE k + 1 \in D
  <2>1. PICK f : G(f, k)
    BY <1>2
  <2> DEFINE next == IF mask[k + 1] THEN Append(f[k], k + 1) ELSE f[k]
             g == [n \in 0..(k + 1) |-> IF n = k + 1 THEN next ELSE f[n]]
             value(n) == IF n = 0 THEN << >> ELSE IF mask[n] THEN Append(g[n - 1], n) ELSE g[n - 1]
  <2>2. ASSUME NEW n \in 0..(k + 1) PROVE g[n] = value(n)
    <3>1. CASE n = k + 1
      <4>1. n # 0 /\ n - 1 = k /\ g[n - 1] = f[k] /\ g[n] = next
        BY <3>1
      <4> HIDE DEF g
      <4> QED BY <3>1, <4>1
    <3>2. CASE n \in 0..k
      <4>1. g[n] = f[n] /\ (n # 0 => g[n - 1] = f[n - 1])
        BY <3>2
      <4>2. f[n] = IF n = 0 THEN << >> ELSE IF mask[n] THEN Append(f[n - 1], n) ELSE f[n - 1]
        BY <2>1, <3>2 DEF BitsOf
      <4> HIDE DEF g
      <4> QED BY <4>1, <4>2
    <3> QED BY <3>1, <3>2
  <2>3. g = [n \in 0..(k + 1) |-> g[n]]
    OBVIOUS
  <2>4. G(g, k + 1)
    <3> HIDE DEF g
    <3> QED BY <2>2, <2>3 DEF BitsOf
  <2> HIDE DEF G
  <2> QED BY <2>4
<1>3. N \in D
  <2> HIDE DEF D
  <2> QED BY <1>1, <1>2, NatSetInduction
<1> QED BY <1>3

(* b lists, in order, the positions up to k at which mask is set.          *)
Lists(b, k, mask) ==
  /\ b \in Seq(Nat)
  /\ \A i \in 1..Len(b) : b[i] \in 1..k /\ mask[b[i]] /\ i <= b[i]
  /\ \A i, j \in 1..Len(b) : i < j => b[i] < b[j]
  /\ \A p \in 1..k : mask[p] => \E i \in 1..Len(b) : b[i] = p

(* The list of the places of a mask, one place further.                    *)
LEMMA ListsMore ==
  ASSUME NEW k \in Nat, NEW mask, NEW b, Lists(b, k, mask)
  PROVE  /\ mask[k + 1] => Lists(Append(b, k + 1), k + 1, mask)
         /\ ~mask[k + 1] => Lists(b, k + 1, mask)
<1> DEFINE c == Append(b, k + 1)
           m == Len(b)
<1>1. b \in Seq(Nat) /\ m \in Nat /\ 1..k \subseteq 1..(k + 1) /\ k + 1 \in 1..(k + 1)
      /\ \A p \in 1..(k + 1) : p = k + 1 \/ p \in 1..k
  BY DEF Lists
<1>2. /\ c \in Seq(Nat) /\ Len(c) = m + 1 /\ c[m + 1] = k + 1
      /\ \A i \in 1..m : c[i] = b[i]
  BY <1>1
<1>3. ASSUME ~mask[k + 1] PROVE Lists(b, k + 1, mask)
  BY <1>1, <1>3 DEF Lists
<1>4. ASSUME mask[k + 1] PROVE Lists(c, k + 1, mask)
  <2> HIDE DEF c, m
  <2>1. \A i \in 1..(m + 1) : i = m + 1 \/ i \in 1..m
    BY <1>1
  <2>2. \A i \in 1..m : b[i] \in 1..k /\ mask[b[i]] /\ i <= b[i]
    BY DEF Lists, m
  <2>6. m <= k
    <3>1. m = 0 \/ m \in 1..m
      BY <1>1
    <3>2. ASSUME m \in 1..m PROVE b[m] \in 1..k /\ m <= b[m]
      BY <2>2, <3>2
    <3>3. ASSUME m \in 1..m PROVE m <= k
      BY <1>1, <3>2, <3>3
    <3> QED BY <3>1, <3>3
  <2>3. \A i \in 1..(m + 1) : c[i] \in 1..(k + 1) /\ mask[c[i]] /\ i <= c[i]
    <3>1. \A i \in 1..m : c[i] \in 1..(k + 1) /\ mask[c[i]] /\ i <= c[i]
      BY <1>1, <1>2, <2>2
    <3>2. c[m + 1] \in 1..(k + 1) /\ mask[c[m + 1]] /\ m + 1 <= c[m + 1]
      BY <1>1, <1>2, <1>4, <2>6
    <3> QED BY <2>1, <3>1, <3>2
  <2>4. ASSUME NEW i \in 1..(m + 1), NEW j \in 1..(m + 1), i < j PROVE c[i] < c[j]
    <3>1. i \in 1..m /\ c[i] = b[i] /\ b[i] \in 1..k
      BY <1>1, <1>2, <2>2, <2>4
    <3>2. CASE j = m + 1
      BY <1>2, <3>1, <3>2
    <3>3. CASE j \in 1..m
      <4>1. \A p, q \in 1..m : p < q => b[p] < b[q]
        BY DEF Lists, m
      <4> QED BY <1>2, <3>1, <3>3, <4>1, <2>4
    <3> QED BY <2>1, <3>2, <3>3
  <2>5. ASSUME NEW p \in 1..(k + 1), mask[p] PROVE \E i \in 1..(m + 1) : c[i] = p
    <3>1. CASE p = k + 1
      <4>1. m + 1 \in 1..(m + 1)
        BY <1>1
      <4> QED BY <1>2, <3>1, <4>1
    <3>2. CASE p \in 1..k
      <4>1. PICK i \in 1..m : b[i] = p
        BY <2>5, <3>2 DEF Lists, m
      <4>2. i \in 1..(m + 1)
        BY <1>1
      <4> QED BY <1>2, <4>1, <4>2
    <3> QED BY <1>1, <3>1, <3>2
  <2> QED BY <1>2, <2>3, <2>4, <2>5 DEF Lists
<1> QED BY <1>3, <1>4

(* The smaller of two numbers.                                             *)
LEMMA MinIs ==
  ASSUME NEW a \in Nat, NEW b \in Nat
  PROVE  Min({a, b}) \in Nat /\ Min({a, b}) <= a /\ Min({a, b}) <= b
         /\ (a <= b => Min({a, b}) = a) /\ (b <= a => Min({a, b}) = b)
<1>1. \E m \in {a, b} : \A y \in {a, b} : m <= y
  OBVIOUS
<1>2. Min({a, b}) \in {a, b} /\ \A y \in {a, b} : Min({a, b}) <= y
  BY <1>1 DEF Min
<1> HIDE DEF Min
<1> QED BY <1>2

(* Numbers up to n have a least among them.                                *)
LEMMA MinExists ==
  ASSUME NEW n \in Nat, NEW s \in SUBSET (1..n), s # {}
  PROVE  Min(s) \in s
<1> DEFINE D == {k \in Nat : \A t \in SUBSET (1..k) : t # {} => \E m \in t : \A y \in t : m <= y}
<1>1. 0 \in D
  <2>1. 1..0 = {}
    OBVIOUS
  <2> QED BY <2>1
<1>2. ASSUME NEW k \in Nat, k \in D PROVE k + 1 \in D
  <2>1. ASSUME NEW t \in SUBSET (1..(k + 1)), t # {} PROVE \E m \in t : \A y \in t : m <= y
    <3>1. CASE t = {k + 1}
      BY <3>1
    <3>2. CASE t # {k + 1}
      <4> DEFINE u == t \ {k + 1}
      <4>1. u \in SUBSET (1..k) /\ u # {}
        BY <2>1, <3>2
      <4>2. PICK m \in u : \A y \in u : m <= y
        <5> HIDE DEF u
        <5> QED BY <1>2, <4>1
      <4>3. m \in t /\ m <= k + 1
        BY <4>1
      <4> QED BY <4>2, <4>3
    <3> QED BY <3>1, <3>2
  <2> QED BY <2>1
<1>3. Nat \subseteq D
  <2> HIDE DEF D
  <2> QED BY <1>1, <1>2, NatSetInduction
<1>4. \E m \in s : \A y \in s : m <= y
  BY <1>3
<1> QED BY <1>4 DEF Min

(* The place of row b of block a, in p blocks of q rows.                   *)
LEMMA BlockIndex ==
  ASSUME NEW p \in Nat, NEW q \in Nat, NEW a \in 1..p, NEW b \in 1..q
  PROVE  (a - 1) * q + b \in 1..(p * q)
<1>1. PICK d \in Nat : p = a + d
  <2>1. p - a \in Nat /\ p = a + (p - a)
    OBVIOUS
  <2> QED BY <2>1
<1>2. PICK e \in Nat : a = e + 1
  <2>1. a - 1 \in Nat /\ a = (a - 1) + 1
    OBVIOUS
  <2> QED BY <2>1
<1>3. e * q \in Nat /\ d * q \in Nat /\ p * q = e * q + q + d * q
  BY <1>1, <1>2
<1>4. a - 1 = e
  BY <1>2
<1> QED BY <1>3, <1>4

(* The remainder and the quotient of such a place.                         *)
LEMMA PlaceIsUnique ==
  ASSUME NEW m \in Nat, NEW a \in 1..m, NEW b \in Nat \ {0}
  PROVE  LET k == (b - 1) * m + a
         IN  ((k - 1) % m) + 1 = a /\ ((k - 1) \div m) + 1 = b
<1> DEFINE k == (b - 1) * m + a
           n == k - 1
           q == n \div m
           r == n % m
<1>1. PICK e \in Nat : b = e + 1
  <2>1. b - 1 \in Nat /\ b = (b - 1) + 1
    OBVIOUS
  <2> QED BY <2>1
<1>2. n = m * e + (a - 1) /\ a - 1 \in Nat /\ a - 1 < m /\ m > 0 /\ n \in Nat
  <2>1. b - 1 = e /\ m * e \in Nat /\ e * m = m * e
    BY <1>1
  <2> QED BY <2>1
<1>3. q \in Nat /\ r \in Nat /\ r < m /\ n = m * q + r
  BY <1>2
<1> HIDE DEF q, r, n, k
<1>4. q = e
  <2>1. \A u, v, w, z \in Nat : u < v /\ w < m /\ z < m => m * u + w # m * v + z
    <3> SUFFICES ASSUME NEW u \in Nat, NEW v \in Nat, NEW w \in Nat, NEW z \in Nat, u < v, w < m
                 PROVE  m * u + w # m * v + z
      OBVIOUS
    <3>1. PICK d \in Nat : v = u + 1 + d
      <4>1. v - (u + 1) \in Nat /\ v = u + 1 + (v - (u + 1))
        OBVIOUS
      <4> QED BY <4>1
    <3>2. m * v = m * u + m + m * d /\ m * d \in Nat /\ m * u \in Nat
      BY <3>1
    <3> QED BY <3>2
  <2>2. ~(q < e) /\ ~(e < q)
    BY <1>2, <1>3, <2>1
  <2> QED BY <1>3, <2>2
<1>5. m * q = m * e /\ m * e \in Nat
  BY <1>4
<1>6. r = a - 1
  BY <1>2, <1>3, <1>5
<1> QED BY <1>1, <1>4, <1>6 DEF n, k, q, r

(* A remainder is at most what is divided.                                 *)
LEMMA RemainderIs ==
  ASSUME NEW a \in Nat, NEW b \in Nat, b > 0
  PROVE  a % b \in Nat /\ a % b <= a
<1> DEFINE q == a \div b
           r == a % b
<1>1. q \in Nat /\ r \in Nat /\ a = b * q + r
  OBVIOUS
<1> HIDE DEF q, r
<1>2. b * q \in Nat
  BY <1>1
<1>3. r <= a
  BY <1>1, <1>2
<1> QED BY <1>1, <1>3 DEF r

(* A product of natural numbers is one.                                    *)
LEMMA ProductIsNat == \A a, b \in Nat : a * b \in Nat
OBVIOUS

(* The quotient and the remainder by which one index runs over two.        *)
LEMMA LoopsIndex ==
  ASSUME NEW n \in Nat, NEW m \in Nat, NEW k \in 1..(n * m)
  PROVE  ((k - 1) \div m) + 1 \in 1..n /\ ((k - 1) % m) + 1 \in 1..m
<1>1. n * m \in Nat /\ m # 0 /\ k - 1 \in Nat /\ k - 1 < n * m
  <2>1. n * m \in Nat
    OBVIOUS
  <2>2. m # 0
    <3> SUFFICES ASSUME m = 0 PROVE FALSE
      OBVIOUS
    <3>1. n * m = 0
      OBVIOUS
    <3> QED BY <3>1
  <2> QED BY <2>1, <2>2
<1> DEFINE q == (k - 1) \div m
           r == (k - 1) % m
<1>2. /\ q \in Nat /\ r \in Nat /\ r < m /\ k - 1 = m * q + r
  BY <1>1
<1> HIDE DEF q, r
<1>3. q < n
  <2> SUFFICES ASSUME q >= n PROVE FALSE
    BY <1>2
  <2>1. PICK d \in Nat : q = n + d
    <3>1. q - n \in Nat /\ q = n + (q - n)
      BY <1>2
    <3> QED BY <3>1
  <2>2. m * q = n * m + m * d /\ m * d >= 0
    BY <2>1
  <2> QED BY <1>1, <1>2, <2>2
<1> QED BY <1>2, <1>3 DEF q, r

SumFold(f, n, s) ==
  f = [w \in SUBSET (1..n) |-> IF w = {} THEN 0 ELSE f[w \ {Max(w)}] + s[Max(w)]]

(* The fold that sums s exists.                                            *)
LEMMA SumExists ==
  ASSUME NEW s, NEW n \in Nat
  PROVE \E f : SumFold(f, n, s)
<1> DEFINE G(f, k) == SumFold(f, k, s)
           D == {k \in Nat : \E f : G(f, k)}
<1>1. 0 \in D
  <2>1. G([w \in SUBSET (1..0) |-> 0], 0)
    BY DEF SumFold
  <2> QED BY <2>1
<1>2. ASSUME NEW k \in Nat, k \in D PROVE k + 1 \in D
  <2>1. PICK f : G(f, k)
    BY <1>2
  <2> DEFINE T == SUBSET (1..(k + 1))
             value(w) == IF w = {} THEN 0 ELSE f[w \ {Max(w)}] + s[Max(w)]
             g == [w \in T |-> value(w)]
  <2>2. \A w \in SUBSET (1..k) : w \in T /\ f[w] = value(w)
    <3>1. SUBSET (1..k) \subseteq T
      OBVIOUS
    <3>2. ASSUME NEW w \in SUBSET (1..k) PROVE f[w] = value(w)
      <4>1. f = [t \in SUBSET (1..k) |-> value(t)]
        BY <2>1 DEF SumFold
      <4> HIDE DEF value
      <4> QED BY <4>1
    <3> HIDE DEF T, value
    <3> QED BY <3>1, <3>2
  <2>3. ASSUME NEW w \in T, w # {} PROVE f[w \ {Max(w)}] = g[w \ {Max(w)}]
    <3>1. w \ {Max(w)} \in SUBSET (1..k)
      BY <2>3, WithoutMax
    <3> HIDE DEF value
    <3> QED BY <2>2, <3>1
  <2>4. \A w \in T : g[w] = IF w = {} THEN 0 ELSE g[w \ {Max(w)}] + s[Max(w)]
    BY <2>3
  <2>5. g = [w \in T |-> g[w]]
    OBVIOUS
  <2>6. G(g, k + 1)
    <3> HIDE DEF g
    <3> QED BY <2>4, <2>5 DEF SumFold
  <2> HIDE DEF G
  <2> QED BY <2>6
<1>3. n \in D
  <2> HIDE DEF D
  <2> QED BY <1>1, <1>2, NatSetInduction
<1> QED BY <1>3

=============================================================================
