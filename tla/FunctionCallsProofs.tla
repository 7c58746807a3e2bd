------------------------ MODULE FunctionCallsProofs ------------------------
(***************************************************************************)
(* Theorems about calls of user functions, for every library of functions  *)
(* and every expression.                                                   *)
(*                                                                         *)
(* Both properties are about every activation on the stack, and a step     *)
(* changes the top of it.  So each is stated of a stack s that need not be *)
(* the state's, with a lemma (Locals, Links) that says when it holds of    *)
(* <<x>> \o s in terms of x and of s: with these, a push, a pop or a       *)
(* replacement of the top is a few lines.                                  *)
(***************************************************************************)
EXTENDS FunctionCalls, BasicLemmas

IsSeq(s) == \E F : s \in Seq(F)

\* What a push makes.
LEMMA PushSeq ==
  ASSUME NEW s, IsSeq(s), NEW x
  PROVE  LET t == <<x>> \o s
         IN  /\ IsSeq(t) /\ t # <<>> /\ Head(t) = x /\ Tail(t) = s /\ t[1] = x
             /\ Len(t) = Len(s) + 1 /\ Len(s) \in Nat
             /\ DOMAIN t = 1..(Len(s) + 1) /\ DOMAIN s = 1..Len(s)
             /\ \A i \in 1..Len(s) : t[i + 1] = s[i]
<1>1. PICK F : s \in Seq(F)
  BY DEF IsSeq
<1> DEFINE G == F \cup {x}
<1>2. s \in Seq(G) /\ <<x>> \in Seq(G)
  BY <1>1
<1> HIDE DEF G
<1>3. <<x>> \o s \in Seq(G)
  BY <1>2
<1>4. Tail(<<x>> \o s) = s
  BY <1>2
<1> QED BY <1>2, <1>3, <1>4 DEF IsSeq

LEMMA AppendSeq ==
  ASSUME NEW s, IsSeq(s), NEW x
  PROVE  IsSeq(Append(s, x)) /\ Len(Append(s, x)) = Len(s) + 1 /\ Len(s) \in Nat
<1>1. PICK F : s \in Seq(F)
  BY DEF IsSeq
<1> DEFINE G == F \cup {x}
<1>2. s \in Seq(G) /\ x \in G
  BY <1>1
<1> HIDE DEF G
<1>3. Append(s, x) \in Seq(G) /\ Len(Append(s, x)) = Len(s) + 1 /\ Len(s) \in Nat
  BY <1>2
<1> QED BY <1>3 DEF IsSeq

\* Every stack that is not empty was made by a push.
LEMMA SplitSeq ==
  ASSUME NEW s, IsSeq(s), s # <<>>
  PROVE  IsSeq(Tail(s)) /\ s = <<Head(s)>> \o Tail(s)
<1>1. PICK F : s \in Seq(F)
  BY DEF IsSeq
<1>2. Tail(s) \in Seq(F) /\ s = <<Head(s)>> \o Tail(s)
  BY <1>1
<1> QED BY <1>2 DEF IsSeq

\* A set of positions has a last one.
LEMMA LastExists ==
  ASSUME NEW n \in Nat, NEW S, S \subseteq 1..n, S # {}
  PROVE  \E m \in S : \A k \in S : k <= m
<1> DEFINE Good(k) == \A T : T \subseteq 1..k /\ T # {} => \E m \in T : \A j \in T : j <= m
           N == {k \in Nat : Good(k)}
<1>1. 0 \in N
  OBVIOUS
<1>2. ASSUME NEW k \in Nat, k \in N PROVE k + 1 \in N
  <2> SUFFICES ASSUME NEW T, T \subseteq 1..(k + 1), T # {}
               PROVE  \E m \in T : \A j \in T : j <= m
    OBVIOUS
  <2>1. CASE k + 1 \in T
    BY <2>1
  <2>2. CASE k + 1 \notin T
    <3>1. T \subseteq 1..k
      BY <2>2
    <3> QED BY <1>2, <3>1
  <2> QED BY <2>1, <2>2
<1>3. n \in N
  <2> HIDE DEF N
  <2> QED BY <1>1, <1>2, NatSetInduction
<1> QED BY <1>3

-----------------------------------------------------------------------------
(* The tables of the activations.                                          *)

Bodies(s, i) == {j \in 1..(i - 1) : s[j].frame = "body"}

Table(s, symbols, i) ==
  IF Bodies(s, i) = {} THEN symbols
  ELSE s[CHOOSE j \in Bodies(s, i) : \A k \in Bodies(s, i) : k <= j].saved.symbols

\* LocalsDoNotBleed of a stack, the live table and what its top is at ("below" where
\* it is not the state's whole stack).
Apart(s, symbols, at) ==
  /\ Table(s, symbols, Len(s) + 1) = Globals
  /\ \A i \in DOMAIN s :
       s[i].frame = "body" =>
         \/ at = "raised" /\ Bodies(s, i) = {}
         \/ Extends(Table(s, symbols, i), Bound(s[i].fxn, s[i].args))

LEMMA LocalsAsApart ==
  LocalsDoNotBleed <=> Apart(stack, scope.symbols, focus.at)
BY DEF LocalsDoNotBleed, Apart, TableOf, Table, Above, Bodies, Body

\* The last body among the positions above i.
LEMMA TableIs ==
  ASSUME NEW s, NEW symbols, NEW i \in Nat, NEW m \in Bodies(s, i), \A k \in Bodies(s, i) : k <= m
  PROVE  Table(s, symbols, i) = s[m].saved.symbols
<1>1. (CHOOSE j \in Bodies(s, i) : \A k \in Bodies(s, i) : k <= j) = m
  <2>1. \A j \in Bodies(s, i) : (\A k \in Bodies(s, i) : k <= j) => j = m
    BY DEF Bodies
  <2> QED BY <2>1
<1> QED BY <1>1 DEF Table

\* Below a pushed frame the tables are what they were, and what was the live table
\* is the one the frame saved, if it is an activation.
LEMMA PushTable ==
  ASSUME NEW s, IsSeq(s), NEW x, NEW symbols, NEW i \in 1..(Len(s) + 1)
  PROVE  Table(<<x>> \o s, symbols, i + 1) =
           Table(s, IF x.frame = "body" THEN x.saved.symbols ELSE symbols, i)
<1> DEFINE t == <<x>> \o s
           live == IF x.frame = "body" THEN x.saved.symbols ELSE symbols
<1>1. /\ t[1] = x /\ Len(s) \in Nat
      /\ \A j \in 1..Len(s) : t[j + 1] = s[j]
  BY PushSeq
<1> HIDE DEF t
<1>2. \A j \in Bodies(t, i + 1) : (j = 1 /\ x.frame = "body") \/ j - 1 \in Bodies(s, i)
  <2> SUFFICES ASSUME NEW j \in Bodies(t, i + 1), j # 1
               PROVE  j - 1 \in Bodies(s, i)
    BY <1>1 DEF Bodies
  <2>1. j - 1 \in 1..(i - 1) /\ j - 1 \in 1..Len(s) /\ t[(j - 1) + 1] = s[j - 1] /\ (j - 1) + 1 = j
    BY <1>1 DEF Bodies
  <2>2. t[j] = s[j - 1] /\ t[j].frame = "body"
    BY <2>1 DEF Bodies
  <2> QED BY <2>1, <2>2 DEF Bodies
<1>3. \A j \in Bodies(s, i) : j + 1 \in Bodies(t, i + 1)
  BY <1>1 DEF Bodies
<1>4. x.frame = "body" => 1 \in Bodies(t, i + 1)
  BY <1>1 DEF Bodies
<1>5. CASE Bodies(s, i) # {}
  <2>1. PICK m \in Bodies(s, i) : \A k \in Bodies(s, i) : k <= m
    <3>1. Bodies(s, i) \subseteq 1..(i - 1) /\ i - 1 \in Nat
      BY DEF Bodies
    <3> QED BY <1>5, <3>1, LastExists
  <2>2. m \in 1..Len(s) /\ m \in Nat
    BY <1>1 DEF Bodies
  <2>3. m + 1 \in Bodies(t, i + 1) /\ \A k \in Bodies(t, i + 1) : k <= m + 1
    <3>1. ASSUME NEW k \in Bodies(t, i + 1) PROVE k <= m + 1
      <4>1. k \in Nat
        BY DEF Bodies
      <4>2. CASE k = 1
        BY <2>2, <4>2
      <4>3. CASE k - 1 \in Bodies(s, i)
        BY <2>1, <2>2, <4>1, <4>3
      <4> QED BY <1>2, <4>2, <4>3
    <3> QED BY <1>3, <3>1
  <2>4. Table(t, symbols, i + 1) = t[m + 1].saved.symbols /\ Table(s, live, i) = s[m].saved.symbols
    <3> HIDE DEF live
    <3> QED BY <2>1, <2>3, TableIs
  <2> QED BY <1>1, <2>2, <2>4 DEF t
<1>6. CASE Bodies(s, i) = {} /\ x.frame = "body"
  <2>1. \A k \in Bodies(t, i + 1) : k <= 1
    BY <1>2, <1>6
  <2>2. Table(t, symbols, i + 1) = x.saved.symbols
    BY <1>1, <1>4, <1>6, <2>1, TableIs
  <2> QED BY <1>6, <2>2 DEF Table, t
<1>7. CASE Bodies(s, i) = {} /\ x.frame # "body"
  <2>1. Bodies(t, i + 1) = {}
    BY <1>2, <1>7
  <2> QED BY <1>7, <2>1 DEF Table, t
<1> QED BY <1>5, <1>6, <1>7

LEMMA Locals ==
  ASSUME NEW s, IsSeq(s), NEW x, NEW symbols, NEW at
  PROVE  Apart(<<x>> \o s, symbols, at) <=>
           IF x.frame = "body"
             THEN /\ at = "raised" \/ Extends(symbols, Bound(x.fxn, x.args))
                  /\ Apart(s, x.saved.symbols, "below")
             ELSE Apart(s, symbols, at)
<1> DEFINE t == <<x>> \o s
           live == IF x.frame = "body" THEN x.saved.symbols ELSE symbols
           down == IF x.frame = "body" THEN "below" ELSE at
           Holds(u, table, a, i) == u[i].frame = "body" =>
                                      \/ a = "raised" /\ Bodies(u, i) = {}
                                      \/ Extends(table, Bound(u[i].fxn, u[i].args))
<1>1. /\ t[1] = x /\ Len(s) \in Nat /\ DOMAIN s = 1..Len(s) /\ DOMAIN t = 1..(Len(s) + 1)
      /\ Len(t) = Len(s) + 1
      /\ \A j \in 1..Len(s) : t[j + 1] = s[j]
  BY PushSeq
<1>2. \A i \in 1..(Len(s) + 1) : Table(t, symbols, i + 1) = Table(s, live, i)
  BY PushTable
<1> HIDE DEF t, live
<1>3. Table(t, symbols, Len(t) + 1) = Table(s, live, Len(s) + 1)
  BY <1>1, <1>2
<1>4. Bodies(t, 1) = {} /\ Table(t, symbols, 1) = symbols
  BY DEF Bodies, Table
<1>5. \A i \in 1..Len(s) : Bodies(t, i + 1) = {} <=> (x.frame # "body" /\ Bodies(s, i) = {})
  <2> SUFFICES ASSUME NEW i \in 1..Len(s)
               PROVE  Bodies(t, i + 1) = {} <=> (x.frame # "body" /\ Bodies(s, i) = {})
    OBVIOUS
  <2>1. x.frame = "body" => 1 \in Bodies(t, i + 1)
    BY <1>1 DEF Bodies
  <2>2. \A j \in Bodies(s, i) : j + 1 \in Bodies(t, i + 1)
    BY <1>1 DEF Bodies
  <2>3. ASSUME NEW j \in Bodies(t, i + 1), j # 1 PROVE j - 1 \in Bodies(s, i)
    <3>1. j - 1 \in 1..(i - 1) /\ j - 1 \in 1..Len(s) /\ (j - 1) + 1 = j /\ t[j].frame = "body"
      BY <1>1, <2>3 DEF Bodies
    <3>2. t[j] = s[j - 1]
      BY <1>1, <3>1
    <3> QED BY <3>1, <3>2 DEF Bodies
  <2>4. 1 \in Bodies(t, i + 1) => x.frame = "body"
    BY <1>1 DEF Bodies
  <2> QED BY <2>1, <2>2, <2>3, <2>4
<1>6. Holds(t, Table(t, symbols, 1), at, 1) <=>
        (x.frame = "body" => at = "raised" \/ Extends(symbols, Bound(x.fxn, x.args)))
  BY <1>1, <1>4
<1>7. \A i \in 1..Len(s) :
        Holds(t, Table(t, symbols, i + 1), at, i + 1) <=>
          Holds(s, Table(s, live, i), down, i)
  <2> SUFFICES ASSUME NEW i \in 1..Len(s)
               PROVE  Holds(t, Table(t, symbols, i + 1), at, i + 1) <=>
                        Holds(s, Table(s, live, i), down, i)
    OBVIOUS
  <2>1. Table(t, symbols, i + 1) = Table(s, live, i) /\ t[i + 1] = s[i]
    BY <1>1, <1>2
  <2> QED BY <1>5, <2>1
<1>8. Apart(t, symbols, at) <=>
        /\ Table(t, symbols, Len(t) + 1) = Globals
        /\ \A i \in 1..(Len(s) + 1) : Holds(t, Table(t, symbols, i), at, i)
  BY <1>1 DEF Apart
<1>9. Apart(s, live, down) <=>
        /\ Table(s, live, Len(s) + 1) = Globals
        /\ \A i \in 1..Len(s) : Holds(s, Table(s, live, i), down, i)
  BY <1>1 DEF Apart
<1> HIDE DEF Holds
<1>10. (\A i \in 1..(Len(s) + 1) : Holds(t, Table(t, symbols, i), at, i)) <=>
         /\ Holds(t, Table(t, symbols, 1), at, 1)
         /\ \A i \in 1..Len(s) : Holds(t, Table(t, symbols, i + 1), at, i + 1)
  <2>1. \A i \in 1..(Len(s) + 1) : i = 1 \/ (i - 1 \in 1..Len(s) /\ (i - 1) + 1 = i)
    BY <1>1
  <2>2. 1 \in 1..(Len(s) + 1) /\ \A i \in 1..Len(s) : i + 1 \in 1..(Len(s) + 1)
    BY <1>1
  <2> QED BY <2>1, <2>2
<1>11. Apart(t, symbols, at) <=>
         /\ x.frame = "body" => at = "raised" \/ Extends(symbols, Bound(x.fxn, x.args))
         /\ Apart(s, live, down)
  BY <1>3, <1>6, <1>7, <1>8, <1>9, <1>10
<1>12. CASE x.frame = "body"
  BY <1>11, <1>12 DEF live, down, t
<1>13. CASE x.frame # "body"
  BY <1>11, <1>13 DEF live, down, t
<1> QED BY <1>12, <1>13

\* An error only weakens what is said of the top.
LEMMA ApartRaised ==
  ASSUME NEW s, NEW symbols, NEW at, NEW before, before # "raised", Apart(s, symbols, before)
  PROVE  Apart(s, symbols, at)
BY DEF Apart

LEMMA ApartEmpty ==
  ASSUME NEW symbols, NEW at
  PROVE  Apart(<<>>, symbols, at) <=> symbols = Globals
<1>1. Bodies(<<>>, Len(<<>>) + 1) = {}
  BY DEF Bodies
<1> QED BY <1>1 DEF Apart, Table

-----------------------------------------------------------------------------
(* What lies on what: no two activations of one function of match arms     *)
(* are next to each other on the stack.                                    *)

Bottom == [frame |-> "bottom"]

Under(s, i) == IF i < Len(s) THEN s[i + 1] ELSE Bottom

ArmBodies(f) == {Def[f].arms[i].body : i \in 1..Len(Def[f].arms)}

OfArms(y) == y.frame = "body" /\ IsMatchArms(y.fxn)

\* A call that does not nest: of another function, or one that will fail.
DoesNotNest(f, g, n) == f = g => n # Arity(g)

\* The statement an activation evaluates defines none of its inputs.
DefinesNoInput(x) ==
  ~ IsMatchArms(x.fxn) =>
    Def[x.fxn].statements[x.statement].name \notin DOMAIN Bound(x.fxn, x.args)

\* Frame x with the fields of its kind, on y: as a tail call, it is on the activation
\* of the function it calls; on an activation of match arms, it is another function's
\* or it evaluates the arguments of an arm's call, one of them at the moment unless
\* the focus is on the frame itself.
Rests(x, y, at) ==
  /\ \/ /\ x = [frame |-> "arguments", call |-> x.call, env |-> x.env, tail |-> x.tail,
                rest |-> x.rest, done |-> x.done]
        /\ x.tail \in BOOLEAN
        /\ x.tail => OfArms(y) /\ y.fxn = x.call.fxn /\ y.fxn \in Functions
        /\ OfArms(y) =>
             /\ x.call \in ArmBodies(y.fxn) /\ x.call.op = "call"
             /\ x.rest \in Seq(ToSet(x.call.args)) /\ IsSeq(x.done)
             /\ Len(x.done) + Len(x.rest) = Len(x.call.args) - (IF at = "continue" THEN 0 ELSE 1)
             /\ ~ x.tail => DoesNotNest(x.call.fxn, y.fxn, Len(x.call.args))
     \/ /\ x = [frame |-> "body", fxn |-> x.fxn, args |-> x.args, saved |-> x.saved,
                statement |-> x.statement]
        /\ x.saved = Scope(x.saved.symbols, x.saved.steps)
        /\ x.fxn \in Functions
        /\ OfArms(y) => x.fxn # y.fxn
        /\ at \notin {"continue", "raised"} => DefinesNoInput(x)
     \/ x = [frame |-> "broadcast", fxn |-> x.fxn, rest |-> x.rest, done |-> x.done]
        /\ x.fxn \in Functions

Linked(s, at) == \A i \in DOMAIN s : Rests(s[i], Under(s, i), IF i = 1 THEN at ELSE "below")

\* What Rests says of a frame of each kind.
LEMMA BodyShape ==
  ASSUME NEW x, NEW y, NEW at, Rests(x, y, at), x.frame = "body"
  PROVE  /\ x = [frame |-> "body", fxn |-> x.fxn, args |-> x.args, saved |-> x.saved,
                 statement |-> x.statement]
         /\ x.saved = Scope(x.saved.symbols, x.saved.steps)
         /\ x.fxn \in Functions
         /\ OfArms(y) => x.fxn # y.fxn
         /\ at \notin {"continue", "raised"} => DefinesNoInput(x)
<1>1. ASSUME x = [frame |-> "arguments", call |-> x.call, env |-> x.env, tail |-> x.tail,
                  rest |-> x.rest, done |-> x.done]
      PROVE  FALSE
  <2>1. x.frame = "arguments"
    BY <1>1
  <2> QED BY <2>1
<1>2. ASSUME x = [frame |-> "broadcast", fxn |-> x.fxn, rest |-> x.rest, done |-> x.done]
      PROVE  FALSE
  <2>1. x.frame = "broadcast"
    BY <1>2
  <2> QED BY <2>1
<1> QED BY <1>1, <1>2 DEF Rests

LEMMA ArgumentsShape ==
  ASSUME NEW x, NEW y, NEW at, Rests(x, y, at), x.frame = "arguments"
  PROVE  /\ x = [frame |-> "arguments", call |-> x.call, env |-> x.env, tail |-> x.tail,
                 rest |-> x.rest, done |-> x.done]
         /\ x.tail \in BOOLEAN
         /\ x.tail => OfArms(y) /\ y.fxn = x.call.fxn /\ y.fxn \in Functions
         /\ OfArms(y) =>
              /\ x.call \in ArmBodies(y.fxn) /\ x.call.op = "call"
              /\ x.rest \in Seq(ToSet(x.call.args)) /\ IsSeq(x.done)
              /\ Len(x.done) + Len(x.rest) = Len(x.call.args) - (IF at = "continue" THEN 0 ELSE 1)
              /\ ~ x.tail => DoesNotNest(x.call.fxn, y.fxn, Len(x.call.args))
<1>1. ASSUME x = [frame |-> "body", fxn |-> x.fxn, args |-> x.args, saved |-> x.saved,
                  statement |-> x.statement]
      PROVE  FALSE
  <2>1. x.frame = "body"
    BY <1>1
  <2> QED BY <2>1
<1>2. ASSUME x = [frame |-> "broadcast", fxn |-> x.fxn, rest |-> x.rest, done |-> x.done]
      PROVE  FALSE
  <2>1. x.frame = "broadcast"
    BY <1>2
  <2> QED BY <2>1
<1> QED BY <1>1, <1>2 DEF Rests

\* What an activation of match arms is on does not depend on what the focus is at.
LEMMA BodyAnywhere ==
  ASSUME NEW x, NEW y, NEW at, Rests(x, y, at), x.frame = "body", IsMatchArms(x.fxn), NEW other
  PROVE  Rests(x, y, other)
BY BodyShape DEF Rests, DefinesNoInput

LEMMA BroadcastShape ==
  ASSUME NEW x, NEW y, NEW at, Rests(x, y, at), x.frame = "broadcast"
  PROVE  x = [frame |-> "broadcast", fxn |-> x.fxn, rest |-> x.rest, done |-> x.done]
         /\ x.fxn \in Functions
<1>1. ASSUME x = [frame |-> "arguments", call |-> x.call, env |-> x.env, tail |-> x.tail,
                  rest |-> x.rest, done |-> x.done]
      PROVE  FALSE
  <2>1. x.frame = "arguments"
    BY <1>1
  <2> QED BY <2>1
<1>2. ASSUME x = [frame |-> "body", fxn |-> x.fxn, args |-> x.args, saved |-> x.saved,
                  statement |-> x.statement]
      PROVE  FALSE
  <2>1. x.frame = "body"
    BY <1>2
  <2> QED BY <2>1
<1> QED BY <1>1, <1>2 DEF Rests

LEMMA Links ==
  ASSUME NEW s, IsSeq(s), NEW x, NEW at
  PROVE  Linked(<<x>> \o s, at) <=>
           Rests(x, IF s = <<>> THEN Bottom ELSE Head(s), at) /\ Linked(s, "below")
<1> DEFINE t == <<x>> \o s
           y == IF s = <<>> THEN Bottom ELSE Head(s)
<1>1. /\ t[1] = x /\ Len(s) \in Nat /\ DOMAIN s = 1..Len(s) /\ DOMAIN t = 1..(Len(s) + 1)
      /\ Len(t) = Len(s) + 1
      /\ \A j \in 1..Len(s) : t[j + 1] = s[j]
  BY PushSeq
<1> HIDE DEF t
<1>2. Under(t, 1) = y
  <2>1. CASE s = <<>>
    BY <1>1, <2>1 DEF Under
  <2>2. CASE s # <<>>
    <3>1. Len(s) > 0 /\ Head(s) = s[1] /\ 1 \in 1..Len(s)
      BY <1>1, <2>2 DEF IsSeq
    <3> QED BY <1>1, <2>2, <3>1 DEF Under
  <2> QED BY <2>1, <2>2
<1>3. \A i \in 1..Len(s) : Under(t, i + 1) = Under(s, i) /\ t[i + 1] = s[i]
  <2> SUFFICES ASSUME NEW i \in 1..Len(s) PROVE Under(t, i + 1) = Under(s, i)
    BY <1>1
  <2>1. CASE i < Len(s)
    <3>1. i + 1 \in 1..Len(s) /\ i + 1 < Len(t)
      BY <1>1, <2>1
    <3> QED BY <1>1, <2>1, <3>1 DEF Under
  <2>2. CASE i = Len(s)
    BY <1>1, <2>2 DEF Under
  <2>3. i < Len(s) \/ i = Len(s)
    <3>1. Len(s) \in Nat
      BY <1>1
    <3> QED BY <3>1
  <2> QED BY <2>1, <2>2, <2>3
<1>4. \A i \in 1..(Len(s) + 1) : i = 1 \/ (i - 1 \in 1..Len(s) /\ (i - 1) + 1 = i)
  BY <1>1
<1>5. 1 \in 1..(Len(s) + 1) /\ \A i \in 1..Len(s) : i + 1 \in 1..(Len(s) + 1) /\ i + 1 # 1
  BY <1>1
<1>6. Linked(t, at) <=> \A i \in 1..(Len(s) + 1) : Rests(t[i], Under(t, i), IF i = 1 THEN at ELSE "below")
  BY <1>1 DEF Linked
<1>7. Linked(s, "below") <=> \A i \in 1..Len(s) : Rests(s[i], Under(s, i), "below")
  <2>1. \A i \in 1..Len(s) : (IF i = 1 THEN "below" ELSE "below") = "below"
    OBVIOUS
  <2> QED BY <1>1, <2>1 DEF Linked
<1>9. Linked(t, at) <=> Rests(x, y, at) /\ \A i \in 1..Len(s) : Rests(s[i], Under(s, i), "below")
  <2>1. ASSUME Linked(t, at)
        PROVE  Rests(x, y, at) /\ \A i \in 1..Len(s) : Rests(s[i], Under(s, i), "below")
    <3>1. Rests(x, y, at)
      BY <1>1, <1>2, <1>5, <1>6, <2>1
    <3>2. ASSUME NEW i \in 1..Len(s) PROVE Rests(s[i], Under(s, i), "below")
      BY <1>3, <1>5, <1>6, <2>1
    <3> QED BY <3>1, <3>2
  <2>2. ASSUME Rests(x, y, at), \A i \in 1..Len(s) : Rests(s[i], Under(s, i), "below")
        PROVE  Linked(t, at)
    <3> SUFFICES ASSUME NEW i \in 1..(Len(s) + 1) PROVE Rests(t[i], Under(t, i), IF i = 1 THEN at ELSE "below")
      BY <1>6
    <3>1. CASE i = 1
      BY <1>1, <1>2, <2>2, <3>1
    <3>2. CASE i # 1
      <4>1. /\ i - 1 \in 1..Len(s) /\ (i - 1) + 1 = i /\ (IF i = 1 THEN at ELSE "below") = "below"
        BY <1>4, <3>2
      <4>2. t[i] = s[i - 1] /\ Under(t, i) = Under(s, i - 1)
        BY <1>3, <4>1
      <4> QED BY <2>2, <4>1, <4>2
    <3> QED BY <3>1, <3>2
  <2> QED BY <2>1, <2>2
<1> QED BY <1>7, <1>9 DEF t

\* An activation of match arms is one of a function.
LEMMA UnderShape ==
  ASSUME NEW s, IsSeq(s), Linked(s, "below"),
         OfArms(IF s = <<>> THEN Bottom ELSE Head(s))
  PROVE  (IF s = <<>> THEN Bottom ELSE Head(s)).fxn \in Functions
<1>1. s # <<>>
  BY DEF OfArms, Bottom
<1> DEFINE x == Head(s)
           r == Tail(s)
<1>2. IsSeq(r) /\ s = <<x>> \o r
  BY <1>1, SplitSeq
<1>3. Linked(<<x>> \o r, "below") /\ x.frame = "body"
  BY <1>1, <1>2 DEF OfArms
<1> HIDE DEF x, r
<1>4. Rests(x, IF r = <<>> THEN Bottom ELSE Head(r), "below")
  BY <1>2, <1>3, Links
<1>5. x.fxn \in Functions
  BY <1>3, <1>4, BodyShape
<1> QED BY <1>1, <1>5 DEF x

-----------------------------------------------------------------------------
(* The inductive invariant.                                                *)

TopFrame(s) == IF s = <<>> THEN Bottom ELSE Head(s)

\* On an activation of match arms only the body of an arm is evaluated, and only a
\* call that does not nest is left to the Rust stack.
FocusRests(y) ==
  /\ OfArms(y) =>
       /\ focus.at = "evaluate" =>
            /\ focus.expression \in ArmBodies(y.fxn)
            /\ focus.expression.op = "call" =>
                 DoesNotNest(focus.expression.fxn, y.fxn, Len(focus.expression.args))
       /\ focus.at = "apply" => DoesNotNest(focus.fxn, y.fxn, Len(focus.args))
  /\ focus.at = "apply" => focus.fxn \in Functions

Inv ==
  /\ IsSeq(stack)
  /\ scope = Scope(scope.symbols, scope.steps)
  /\ focus.at = "idle" => stack = <<>>
  /\ Apart(stack, scope.symbols, focus.at)
  /\ Linked(stack, focus.at)
  /\ FocusRests(TopFrame(stack))

\* The same of the next state.
LEMMA InvNext ==
  Inv' <=> /\ IsSeq(stack')
           /\ scope' = Scope(scope'.symbols, scope'.steps)
           /\ focus'.at = "idle" => stack' = <<>>
           /\ Apart(stack', scope'.symbols, focus'.at)
           /\ Linked(stack', focus'.at)
           /\ FocusRests(TopFrame(stack))'
<1>1. Apart(stack, scope.symbols, focus.at)' <=> Apart(stack', scope'.symbols, focus'.at)
  BY DEF Apart, Table, Bodies
<1>2. Linked(stack, focus.at)' <=> Linked(stack', focus'.at)
  BY DEF Linked, Rests, Under
<1>3. IsSeq(stack)' <=> IsSeq(stack')
  BY DEF IsSeq
<1>4. Scope(scope.symbols, scope.steps)' = Scope(scope'.symbols, scope'.steps)
  BY DEF Scope
<1> QED BY <1>1, <1>2, <1>3, <1>4 DEF Inv

\* What the invariant says of the top of the stack and of what is below.
LEMMA OnTop ==
  ASSUME Inv, stack # <<>>
  PROVE  /\ IsSeq(Tail(stack)) /\ stack = <<Top>> \o Tail(stack)
         /\ Rests(Top, TopFrame(Tail(stack)), focus.at) /\ Linked(Tail(stack), "below")
         /\ FocusRests(Top)
         /\ IF Top.frame = "body"
              THEN /\ focus.at = "raised" \/ Extends(scope.symbols, Bound(Top.fxn, Top.args))
                   /\ Apart(Tail(stack), Top.saved.symbols, "below")
              ELSE Apart(Tail(stack), scope.symbols, focus.at)
<1> DEFINE r == Tail(stack)
           x == Top
           at == focus.at
           symbols == scope.symbols
<1>1. IsSeq(r) /\ stack = <<x>> \o r
  BY SplitSeq DEF Inv, Top
<1>2. Linked(<<x>> \o r, at) /\ Apart(<<x>> \o r, symbols, at)
  BY <1>1 DEF Inv
<1>3. FocusRests(x)
  BY DEF Inv, TopFrame, Top
<1> HIDE DEF r, x, at, symbols
<1>4. Rests(x, TopFrame(r), at) /\ Linked(r, "below")
  <2>1. Linked(<<x>> \o r, at) <=> Rests(x, IF r = <<>> THEN Bottom ELSE Head(r), at) /\ Linked(r, "below")
    BY <1>1, Links
  <2> QED BY <1>2, <2>1 DEF TopFrame
<1>5. IF x.frame = "body"
        THEN /\ at = "raised" \/ Extends(symbols, Bound(x.fxn, x.args))
             /\ Apart(r, x.saved.symbols, "below")
        ELSE Apart(r, symbols, at)
  BY <1>1, <1>2, Locals
<1> QED BY <1>1, <1>3, <1>4, <1>5 DEF r, x, at, symbols

\* The invariant of a step that pushes or replaces a frame.
LEMMA PutOnTop ==
  ASSUME NEW r, IsSeq(r), NEW x, stack' = <<x>> \o r,
         scope' = Scope(scope'.symbols, scope'.steps), focus'.at # "idle",
         IF x.frame = "body"
           THEN /\ focus'.at = "raised" \/ Extends(scope'.symbols, Bound(x.fxn, x.args))
                /\ Apart(r, x.saved.symbols, "below")
           ELSE Apart(r, scope'.symbols, focus'.at),
         Rests(x, TopFrame(r), focus'.at), Linked(r, "below"), FocusRests(TopFrame(stack))'
  PROVE  Inv'
<1> DEFINE symbols == scope'.symbols
           at == focus'.at
<1>1. IsSeq(stack') /\ stack' # <<>>
  BY PushSeq
<1>2. Linked(stack', at)
  <2> HIDE DEF at
  <2>1. Linked(<<x>> \o r, at) <=> Rests(x, IF r = <<>> THEN Bottom ELSE Head(r), at) /\ Linked(r, "below")
    BY Links
  <2> QED BY <2>1 DEF TopFrame, at
<1>3. Apart(stack', symbols, at)
  <2>1. IF x.frame = "body"
          THEN /\ at = "raised" \/ Extends(symbols, Bound(x.fxn, x.args))
               /\ Apart(r, x.saved.symbols, "below")
          ELSE Apart(r, symbols, at)
    OBVIOUS
  <2> HIDE DEF symbols, at
  <2> QED BY <2>1, Locals
<1> QED BY <1>1, <1>2, <1>3, InvNext

\* The invariant of a step that pops a frame.
LEMMA TakenOff ==
  ASSUME IsSeq(stack'), scope' = Scope(scope'.symbols, scope'.steps), focus'.at \notin {"idle", "continue"},
         Apart(stack', scope'.symbols, focus'.at), Linked(stack', "below"), FocusRests(TopFrame(stack))'
  PROVE  Inv'
<1>1. Linked(stack', focus'.at)
  BY DEF Linked, Rests
<1> QED BY <1>1, InvNext

\* The invariant of a step that only moves the focus.
LEMMA Refocus ==
  ASSUME Inv, UNCHANGED <<stack, scope>>, focus.at # "raised", focus'.at # "idle",
         focus.at = "continue" /\ stack # <<>> =>
           /\ Top.frame # "arguments"
           /\ Top.frame = "body" /\ focus'.at # "raised" => DefinesNoInput(Top),
         focus'.at # "continue", FocusRests(TopFrame(stack))'
  PROVE  Inv'
<1>1. Apart(stack', scope'.symbols, focus'.at)
  BY ApartRaised DEF Inv
<1>2. Linked(stack, focus'.at)
  <2>1. CASE stack = <<>>
    BY <2>1 DEF Linked
  <2>2. CASE stack # <<>>
    <3> DEFINE r == Tail(stack)
               x == Top
               at == focus'.at
    <3>1. /\ IsSeq(r) /\ stack = <<x>> \o r /\ Rests(x, TopFrame(r), focus.at) /\ Linked(r, "below")
      BY <2>2, OnTop
    <3>2. Rests(x, TopFrame(r), at)
      <4> HIDE DEF r, x
      <4>1. focus.at = "continue" => x.frame # "arguments"
        BY <2>2 DEF x
      <4>2. CASE focus.at = "continue"
        <5>1. ASSUME x = [frame |-> "arguments", call |-> x.call, env |-> x.env, tail |-> x.tail,
                          rest |-> x.rest, done |-> x.done]
              PROVE  FALSE
          <6>1. x.frame = "arguments"
            BY <5>1
          <6> QED BY <4>1, <4>2, <6>1
        <5>2. x.frame = "body" /\ at # "raised" => DefinesNoInput(x)
          BY <2>2, <4>2 DEF x
        <5>3. at # "continue"
          OBVIOUS
        <5> HIDE DEF at
        <5>4. CASE x.frame = "body"
          BY <3>1, <5>2, <5>3, <5>4, BodyShape DEF Rests
        <5>5. CASE x.frame # "body"
          <6>1. ASSUME x = [frame |-> "body", fxn |-> x.fxn, args |-> x.args, saved |-> x.saved,
                            statement |-> x.statement]
                PROVE  FALSE
            <7>1. x.frame = "body"
              BY <6>1
            <7> QED BY <5>5, <7>1
          <6> QED BY <3>1, <5>1, <6>1 DEF Rests
        <5> QED BY <5>4, <5>5
      <4>3. CASE focus.at # "continue"
        <5>1. at # "continue"
          OBVIOUS
        <5> HIDE DEF at
        <5> QED BY <3>1, <4>3, <5>1 DEF Rests
      <4> QED BY <4>2, <4>3
    <3> HIDE DEF r, x, at
    <3>3. Linked(<<x>> \o r, at) <=> Rests(x, IF r = <<>> THEN Bottom ELSE Head(r), at) /\ Linked(r, "below")
      BY <3>1, Links
    <3> QED BY <3>1, <3>2, <3>3 DEF TopFrame, at
  <2> QED BY <2>1, <2>2
<1>3. Linked(stack', focus'.at)
  BY <1>2
<1> QED BY <1>1, <1>3, InvNext DEF Inv

-----------------------------------------------------------------------------
(* The steps.                                                              *)

\* The focus on a value or an error asks nothing of what it is on.
LEMMA FocusOut ==
  ASSUME focus'.at \notin {"evaluate", "apply"}
  PROVE  FocusRests(TopFrame(stack))'
BY DEF FocusRests

LEMMA ScopeShape ==
  ASSUME Inv
  PROVE  scope = Scope(scope.symbols, scope.steps) /\ IsSeq(stack)
BY DEF Inv

LEMMA InitInv == Init => Inv
<1> SUFFICES ASSUME Init PROVE Inv
  OBVIOUS
<1>1. /\ stack = <<>> /\ focus.at = "idle" /\ scope.symbols = Globals
      /\ scope = Scope(scope.symbols, scope.steps)
  BY DEF Init, Idle, Scope
<1>2. IsSeq(stack) /\ Linked(stack, focus.at)
  BY <1>1 DEF IsSeq, Linked
<1>3. Apart(stack, scope.symbols, focus.at)
  BY <1>1, ApartEmpty
<1>4. FocusRests(TopFrame(stack))
  BY <1>1 DEF FocusRests
<1> QED BY <1>1, <1>2, <1>3, <1>4 DEF Inv

\* Steps that only move the focus.
LEMMA FocusSteps ==
  ASSUME Inv,
         \/ EvaluateLiteral \/ Variable \/ WrongArity \/ NoArm \/ RunStatement
         \/ \E e \in Expressions : Begin(e)
  PROVE  Inv'
<1>1. CASE EvaluateLiteral \/ Variable
  <2>1. UNCHANGED <<stack, scope>> /\ focus.at = "evaluate"
    BY <1>1 DEF EvaluateLiteral, Variable, Evaluating
  <2>2. focus'.at \in {"returned", "raised"}
    <3>1. (\E v : focus' = Returned(v)) \/ (\E why : focus' = Raised(why))
      BY <1>1, Zenon DEF EvaluateLiteral, Variable
    <3> QED BY <3>1 DEF Returned, Raised
  <2> QED BY <2>1, <2>2, FocusOut, Refocus
<1>2. CASE WrongArity
  <2>1. /\ UNCHANGED <<stack, scope>> /\ focus.at = "apply" /\ focus'.at = "raised"
    BY <1>2 DEF WrongArity, Applying, Raised
  <2> QED BY <2>1, FocusOut, Refocus
<1>3. CASE NoArm
  <2>1. /\ UNCHANGED <<stack, scope>> /\ focus.at = "continue" /\ focus'.at = "raised"
        /\ Top.frame = "body"
    BY <1>3 DEF NoArm, InArms, In, Continue, Raised
  <2> QED BY <2>1, FocusOut, Refocus
<1>4. CASE RunStatement
  <2>1. /\ UNCHANGED <<stack, scope>> /\ focus.at = "continue" /\ focus'.at \in {"raised", "evaluate"}
        /\ Top.frame = "body" /\ stack # <<>> /\ ~ IsMatchArms(Top.fxn)
    BY <1>4 DEF RunStatement, InStatements, In, Continue, Raised, Evaluate
  <2>2. ~ OfArms(TopFrame(stack))'
    BY <2>1 DEF OfArms, TopFrame, Top
  <2>3. FocusRests(TopFrame(stack))'
    BY <2>1, <2>2 DEF FocusRests
  <2>4. focus'.at # "raised" => DefinesNoInput(Top)
    <3> DEFINE name == Statements[Top.statement].name
               bound == Bound(Top.fxn, Top.args)
    <3>1. focus'.at # "raised" => name \notin DOMAIN scope.symbols
      BY <1>4 DEF RunStatement, Raised
    <3>2. Extends(scope.symbols, bound)
      BY <2>1, OnTop
    <3> HIDE DEF bound
    <3>3. focus'.at # "raised" => name \notin DOMAIN bound
      BY <3>1, <3>2 DEF Extends
    <3> QED BY <3>3 DEF DefinesNoInput, Statements, bound
  <2> QED BY <2>1, <2>3, <2>4, Refocus
<1>5. ASSUME NEW e \in Expressions, Begin(e)
      PROVE  Inv'
  <2>1. /\ UNCHANGED <<stack, scope>> /\ focus.at = "idle" /\ focus'.at = "evaluate" /\ stack = <<>>
    BY <1>5 DEF Begin, Idle, Evaluate, Inv
  <2>2. FocusRests(TopFrame(stack))'
    BY <2>1 DEF FocusRests, TopFrame, OfArms, Bottom
  <2> QED BY <2>1, <2>2, Refocus
<1> QED BY <1>1, <1>2, <1>3, <1>4, <1>5

LEMMA EndStep ==
  ASSUME Inv, End
  PROVE  Inv'
<1>1. stack' = <<>> /\ scope' = scope /\ focus'.at = "idle"
  BY DEF End, Idle
<1>2. scope'.symbols = Globals
  BY <1>1, ApartEmpty DEF Inv, End
<1>3. Apart(stack', scope'.symbols, focus'.at)
  BY <1>1, <1>2, ApartEmpty
<1>4. Linked(stack', focus'.at) /\ IsSeq(stack')
  BY <1>1 DEF Linked, IsSeq
<1> QED BY <1>1, <1>3, <1>4, FocusOut, InvNext, ScopeShape

\* An arm's call has a sequence of arguments.
LEMMA ArmArguments ==
  ASSUME NEW f \in Functions, NEW call \in ArmBodies(f), call.op = "call"
  PROVE  call.args \in Seq(ToSet(call.args)) /\ Len(call.args) \in Nat /\ IsSeq(<<>>)
<1>1. call.args \in Seq(ToSet(call.args))
  BY ArmsAssumption DEF ArmBodies
<1> QED BY <1>1 DEF IsSeq

\* A call starts with its arguments.
LEMMA FunctionCallStep ==
  ASSUME Inv, FunctionCall
  PROVE  Inv'
<1> DEFINE call == focus.expression
           x == ArgumentsFrame(call, focus.env, FALSE)
           y == TopFrame(stack)
<1>1. CASE /\ call.fxn \notin Functions \cup Natives /\ UNCHANGED stack
           /\ focus' = Raised(IF call.fxn = "builtin" THEN "panic" ELSE "missing function")
  <2>1. /\ UNCHANGED <<stack, scope>> /\ focus.at = "evaluate" /\ focus'.at = "raised"
    BY <1>1 DEF FunctionCall, Evaluating, Raised
  <2> QED BY <2>1, FocusOut, Refocus
<1>2. CASE stack' = <<x>> \o stack /\ focus' = Continue
  <2>1. /\ focus.at = "evaluate" /\ focus'.at = "continue" /\ scope' = scope /\ call.op = "call"
        /\ IsSeq(stack)
    BY <1>2 DEF FunctionCall, Evaluating, Continue, Inv
  <2>2. FocusRests(y) /\ Linked(stack, "evaluate") /\ Apart(stack, scope.symbols, "evaluate")
    BY <2>1 DEF Inv
  <2>3. OfArms(y) => /\ call \in ArmBodies(y.fxn) /\ DoesNotNest(call.fxn, y.fxn, Len(call.args))
                     /\ y.fxn \in Functions
    <3>1. ASSUME OfArms(y) PROVE y.fxn \in Functions
      <4>1. stack # <<>> /\ y = Top /\ y.frame = "body"
        BY <3>1 DEF OfArms, TopFrame, Bottom, Top
      <4>2. Rests(y, TopFrame(Tail(stack)), focus.at)
        BY <4>1, OnTop
      <4> HIDE DEF y
      <4> QED BY <4>1, <4>2, BodyShape
    <3> QED BY <2>1, <2>2, <3>1 DEF FocusRests
  <2>4. Rests(x, y, "continue")
    <3> HIDE DEF y, call
    <3>1. x = [frame |-> "arguments", call |-> call, env |-> focus.env, tail |-> FALSE,
               rest |-> call.args, done |-> <<>>]
      BY DEF ArgumentsFrame
    <3> HIDE DEF x
    <3>2. /\ x.call = call /\ x.tail = FALSE /\ x.rest = call.args /\ x.done = <<>>
          /\ x.env = focus.env
      BY <3>1
    <3>3. x = [frame |-> "arguments", call |-> x.call, env |-> x.env, tail |-> x.tail,
               rest |-> x.rest, done |-> x.done]
      BY <3>1, <3>2
    <3>4. OfArms(y) => /\ call.args \in Seq(ToSet(call.args)) /\ IsSeq(<<>>)
                       /\ Len(<<>>) + Len(call.args) = Len(call.args) - 0
      <4> SUFFICES ASSUME OfArms(y) PROVE /\ call.args \in Seq(ToSet(call.args)) /\ IsSeq(<<>>)
                                          /\ Len(call.args) \in Nat
        OBVIOUS
      <4>1. y.fxn \in Functions /\ call \in ArmBodies(y.fxn) /\ call.op = "call"
        BY <2>1, <2>3 DEF call
      <4> QED BY <4>1, ArmArguments
    <3>5. call.op = "call"
      BY <2>1 DEF call
    <3> QED BY <2>3, <3>2, <3>3, <3>4, <3>5 DEF Rests
  <2>5. Linked(stack, "below")
    BY <2>2 DEF Linked, Rests
  <2>6. x.frame = "arguments"
    BY DEF ArgumentsFrame
  <2>7. Apart(stack, scope'.symbols, focus'.at)
    BY <2>1, <2>2, ApartRaised
  <2> HIDE DEF x, y
  <2> QED BY <1>2, <2>1, <2>4, <2>5, <2>6, <2>7, FocusOut, ScopeShape, PutOnTop DEF y
<1> QED BY <1>1, <1>2 DEF FunctionCall, Push

\* An argument is taken, and its value added.
LEMMA TakeOne ==
  ASSUME NEW S, NEW rest \in Seq(S), rest # <<>>, NEW done, IsSeq(done), NEW n \in Nat,
         Len(done) + Len(rest) = n - 0
  PROVE  Tail(rest) \in Seq(S) /\ Len(done) + Len(Tail(rest)) = n - 1
<1>1. Tail(rest) \in Seq(S) /\ Len(Tail(rest)) = Len(rest) - 1 /\ Len(rest) \in Nat
  OBVIOUS
<1>2. Len(done) \in Nat
  BY DEF IsSeq
<1> QED BY <1>1, <1>2

LEMMA AddOne ==
  ASSUME NEW S, NEW rest \in Seq(S), NEW done, IsSeq(done), NEW n \in Nat, NEW v,
         Len(done) + Len(rest) = n - 1
  PROVE  IsSeq(Append(done, v)) /\ Len(Append(done, v)) + Len(rest) = n - 0
<1>1. Len(rest) \in Nat
  OBVIOUS
<1>2. IsSeq(Append(done, v)) /\ Len(Append(done, v)) = Len(done) + 1 /\ Len(done) \in Nat
  BY AppendSeq
<1> QED BY <1>1, <1>2

\* The arguments of a call are evaluated one by one, in order.
LEMMA ArgumentSteps ==
  ASSUME Inv, NextArgument \/ ArgumentEvaluated
  PROVE  Inv'
<1> DEFINE x == Top
           r == Tail(stack)
           y == TopFrame(r)
           z == Head(stack')
<1>1. /\ stack # <<>> /\ x.frame = "arguments" /\ scope' = scope
      /\ focus.at \in {"continue", "returned"}
  BY DEF NextArgument, ArgumentEvaluated, In, Continue
<1>2. /\ IsSeq(r) /\ Rests(x, y, focus.at) /\ Linked(r, "below") /\ Apart(r, scope.symbols, focus.at)
      /\ stack = <<x>> \o r
  BY <1>1, OnTop
<1> HIDE DEF x, r, y
<1>3. Apart(r, scope'.symbols, focus'.at)
  BY <1>1, <1>2, ApartRaised
<1>4. /\ x = [frame |-> "arguments", call |-> x.call, env |-> x.env, tail |-> x.tail,
              rest |-> x.rest, done |-> x.done]
      /\ x.tail \in BOOLEAN
      /\ x.tail => OfArms(y) /\ y.fxn = x.call.fxn /\ y.fxn \in Functions
      /\ OfArms(y) =>
           /\ x.call \in ArmBodies(y.fxn) /\ x.call.op = "call"
           /\ x.rest \in Seq(ToSet(x.call.args)) /\ IsSeq(x.done)
           /\ Len(x.done) + Len(x.rest) = Len(x.call.args) - (IF focus.at = "continue" THEN 0 ELSE 1)
           /\ ~ x.tail => DoesNotNest(x.call.fxn, y.fxn, Len(x.call.args))
  BY <1>1, <1>2, ArgumentsShape
<1>5. ASSUME NEW rest, NEW done,
             z = [frame |-> "arguments", call |-> x.call, env |-> x.env, tail |-> x.tail,
                  rest |-> rest, done |-> done],
             OfArms(y) => /\ rest \in Seq(ToSet(x.call.args)) /\ IsSeq(done)
                          /\ Len(done) + Len(rest) = Len(x.call.args) - (IF focus'.at = "continue" THEN 0 ELSE 1)
      PROVE  Rests(z, y, focus'.at)
  <2> HIDE DEF z
  <2>1. /\ z.call = x.call /\ z.env = x.env /\ z.tail = x.tail /\ z.rest = rest /\ z.done = done
    BY <1>5
  <2>2. z = [frame |-> "arguments", call |-> z.call, env |-> z.env, tail |-> z.tail,
             rest |-> z.rest, done |-> z.done]
    BY <1>5, <2>1
  <2> DEFINE n == IF focus'.at = "continue" THEN 0 ELSE 1
  <2>3. OfArms(y) => /\ z.rest \in Seq(ToSet(z.call.args)) /\ IsSeq(z.done)
                     /\ Len(z.done) + Len(z.rest) = Len(z.call.args) - n
    BY <1>5, <2>1
  <2>4. /\ z.tail \in BOOLEAN
        /\ z.tail => OfArms(y) /\ y.fxn = z.call.fxn /\ y.fxn \in Functions
        /\ OfArms(y) => /\ z.call \in ArmBodies(y.fxn) /\ z.call.op = "call"
                        /\ ~ z.tail => DoesNotNest(z.call.fxn, y.fxn, Len(z.call.args))
    BY <1>4, <2>1
  <2> QED BY <2>2, <2>3, <2>4 DEF Rests
<1>6. ASSUME NEW w, stack' = <<w>> \o r
      PROVE  z = w /\ (w.frame = "arguments" => ~ OfArms(TopFrame(stack))')
  <2>1. z = w /\ stack' # <<>>
    BY <1>2, <1>6, PushSeq
  <2>2. TopFrame(stack)' = w
    BY <2>1 DEF TopFrame
  <2>3. OfArms(TopFrame(stack))' <=> OfArms(TopFrame(stack)')
    BY DEF OfArms, TopFrame
  <2> QED BY <2>1, <2>2, <2>3 DEF OfArms
<1>7. OfArms(y) => y.fxn \in Functions
  BY <1>2, UnderShape DEF y, TopFrame
<1>8. CASE NextArgument
  <2> DEFINE w == [x EXCEPT !.rest = Tail(@)]
  <2>1. /\ stack' = <<w>> \o r /\ x.rest # <<>> /\ focus.at = "continue" /\ focus'.at = "evaluate"
    BY <1>8 DEF NextArgument, Replace, Continue, Evaluate, x, r
  <2>2. w = [frame |-> "arguments", call |-> x.call, env |-> x.env, tail |-> x.tail,
             rest |-> Tail(x.rest), done |-> x.done]
    <3> DEFINE rest == Tail(x.rest)
    <3>1. w = [x EXCEPT !.rest = rest]
      OBVIOUS
    <3> HIDE DEF w, rest
    <3>2. w = [frame |-> "arguments", call |-> x.call, env |-> x.env, tail |-> x.tail,
               rest |-> rest, done |-> x.done]
      BY <1>4, <3>1
    <3> QED BY <3>2 DEF rest
  <2>3. w.frame = "arguments"
    BY <2>2
  <2> HIDE DEF w
  <2>4. OfArms(y) => /\ Tail(x.rest) \in Seq(ToSet(x.call.args)) /\ IsSeq(x.done)
                     /\ Len(x.done) + Len(Tail(x.rest)) = Len(x.call.args) - 1
    <3> SUFFICES ASSUME OfArms(y)
                 PROVE  /\ Tail(x.rest) \in Seq(ToSet(x.call.args)) /\ IsSeq(x.done)
                        /\ Len(x.done) + Len(Tail(x.rest)) = Len(x.call.args) - 1
      OBVIOUS
    <3>1. /\ x.rest \in Seq(ToSet(x.call.args)) /\ IsSeq(x.done)
          /\ Len(x.done) + Len(x.rest) = Len(x.call.args) - 0
      BY <1>4, <2>1
    <3>2. x.call \in ArmBodies(y.fxn) /\ x.call.op = "call" /\ y.fxn \in Functions
      BY <1>4, <1>7
    <3>3. Len(x.call.args) \in Nat
      BY <3>2, ArmArguments
    <3>4. x.rest # <<>>
      BY <2>1
    <3> QED BY <3>1, <3>3, <3>4, TakeOne
  <2>5. z = w /\ ~ OfArms(TopFrame(stack))'
    BY <1>6, <2>1, <2>3
  <2>6. Rests(w, y, focus'.at)
    BY <1>5, <2>1, <2>2, <2>4, <2>5
  <2>7. FocusRests(TopFrame(stack))'
    BY <2>1, <2>5 DEF FocusRests
  <2> QED BY <1>1, <1>2, <1>3, <2>1, <2>3, <2>6, <2>7, ScopeShape, PutOnTop DEF y
<1>9. CASE ArgumentEvaluated
  <2> DEFINE w == [x EXCEPT !.done = Append(@, focus.value)]
  <2>1. /\ stack' = <<w>> \o r /\ focus.at = "returned" /\ focus'.at = "continue"
    BY <1>9 DEF ArgumentEvaluated, Replace, Continue, x, r
  <2>2. w = [frame |-> "arguments", call |-> x.call, env |-> x.env, tail |-> x.tail,
             rest |-> x.rest, done |-> Append(x.done, focus.value)]
    BY <1>4
  <2>3. w.frame = "arguments"
    BY <2>2
  <2> HIDE DEF w
  <2>4. OfArms(y) => /\ x.rest \in Seq(ToSet(x.call.args)) /\ IsSeq(Append(x.done, focus.value))
                     /\ Len(Append(x.done, focus.value)) + Len(x.rest) = Len(x.call.args) - 0
    <3> SUFFICES ASSUME OfArms(y)
                 PROVE  /\ x.rest \in Seq(ToSet(x.call.args)) /\ IsSeq(Append(x.done, focus.value))
                        /\ Len(Append(x.done, focus.value)) + Len(x.rest) = Len(x.call.args) - 0
      OBVIOUS
    <3>1. /\ x.rest \in Seq(ToSet(x.call.args)) /\ IsSeq(x.done)
          /\ Len(x.done) + Len(x.rest) = Len(x.call.args) - 1
      BY <1>4, <2>1
    <3>2. x.call \in ArmBodies(y.fxn) /\ x.call.op = "call" /\ y.fxn \in Functions
      BY <1>4, <1>7
    <3>3. Len(x.call.args) \in Nat
      BY <3>2, ArmArguments
    <3> QED BY <3>1, <3>3, AddOne
  <2>5. z = w
    BY <1>6, <2>1
  <2>6. Rests(w, y, focus'.at)
    BY <1>5, <2>1, <2>2, <2>4, <2>5
  <2> QED BY <1>1, <1>2, <1>3, <2>1, <2>3, <2>6, FocusOut, ScopeShape, PutOnTop DEF y
<1> QED BY <1>8, <1>9

\* With its arguments evaluated a native function is done, and a user function is
\* left to be applied.
LEMMA CallSteps ==
  ASSUME Inv, CallNative \/ CallUser
  PROVE  Inv'
<1> DEFINE x == Top
           r == Tail(stack)
           y == TopFrame(r)
<1>1. /\ stack # <<>> /\ x.frame = "arguments" /\ x.rest = <<>> /\ focus.at = "continue"
      /\ stack' = r /\ scope'.symbols = scope.symbols
      /\ scope' = Scope(scope'.symbols, scope'.steps)
  <2>1. stack # <<>> /\ x.frame = "arguments" /\ x.rest = <<>> /\ focus.at = "continue" /\ stack' = r
    <3>1. Arguments /\ Pop
      BY DEF CallNative, CallUser
    <3> QED BY <3>1 DEF Arguments, In, Continue, Pop
  <2>2. scope' = scope \/ scope' = [scope EXCEPT !.steps = @ + 1]
    BY DEF CallNative, CallUser
  <2>3. scope'.symbols = scope.symbols /\ scope' = Scope(scope'.symbols, scope'.steps)
    BY <2>2, ScopeShape DEF Scope
  <2> QED BY <2>1, <2>3
<1>2. IsSeq(r) /\ Rests(x, y, focus.at) /\ Linked(r, "below") /\ Apart(r, scope.symbols, focus.at)
  BY <1>1, OnTop
<1>3. Apart(r, scope'.symbols, focus'.at)
  BY <1>1, <1>2, ApartRaised
<1>4. CASE CallNative
  <2>1. focus'.at \in {"returned", "raised"}
    <3>1. (\E v : focus' = Returned(v)) \/ (\E why : focus' = Raised(why))
      BY <1>4, Zenon DEF CallNative
    <3> QED BY <3>1 DEF Returned, Raised
  <2> HIDE DEF r, x, y
  <2> QED BY <1>1, <1>2, <1>3, <2>1, FocusOut, TakenOff
<1>5. CASE CallUser
  <2>1. /\ focus'.at = "apply" /\ focus'.fxn = x.call.fxn /\ focus'.args = x.done
        /\ x.call.fxn \in Functions /\ ~ x.tail
    BY <1>5 DEF CallUser, Apply
  <2>2. OfArms(y) => DoesNotNest(x.call.fxn, y.fxn, Len(x.done))
    <3> SUFFICES ASSUME OfArms(y), x.call.fxn = y.fxn
                 PROVE  Len(x.done) # Arity(y.fxn)
      BY DEF DoesNotNest
    <3> HIDE DEF x, y
    <3>1. y.fxn \in Functions
      BY <1>2, UnderShape DEF y, TopFrame
    <3>2. /\ x.call \in ArmBodies(y.fxn) /\ x.call.op = "call" /\ IsSeq(x.done)
          /\ Len(x.done) + Len(x.rest) = Len(x.call.args) - 0
          /\ DoesNotNest(x.call.fxn, y.fxn, Len(x.call.args))
      BY <1>1, <1>2, <2>1, ArgumentsShape
    <3>3. Len(x.call.args) \in Nat /\ Len(x.done) \in Nat /\ Len(x.rest) = 0
      BY <1>1, <3>1, <3>2, ArmArguments DEF IsSeq
    <3>4. Len(x.done) = Len(x.call.args)
      BY <3>2, <3>3
    <3> QED BY <3>2, <3>4 DEF DoesNotNest
  <2>3. TopFrame(stack)' = y
    BY <1>1 DEF TopFrame
  <2>4. FocusRests(TopFrame(stack))'
    <3> HIDE DEF x, y
    <3>1. /\ OfArms(y) => (focus'.at = "apply" => DoesNotNest(focus'.fxn, y.fxn, Len(focus'.args)))
          /\ focus'.fxn \in Functions /\ focus'.at # "evaluate"
      BY <2>1, <2>2
    <3> QED BY <2>3, <3>1 DEF FocusRests, OfArms, DoesNotNest
  <2>5. focus'.at \notin {"idle", "continue"}
    BY <2>1
  <2> HIDE DEF r, x, y
  <2> QED BY <1>1, <1>2, <1>3, <2>4, <2>5, TakenOff
<1> QED BY <1>4, <1>5

\* The selected arm is one of the function's.
LEMMA SelectedArm ==
  ASSUME NEW f \in Functions, NEW args, SelectArm(f, args) # 0, Len(Def[f].arms) \in Nat
  PROVE  SelectArm(f, args) \in 1..Len(Def[f].arms)
<1> DEFINE I == {i \in 1..Len(Def[f].arms) : MatchArguments(Def[f].arms[i].pattern, args).matched}
           n == Len(Def[f].arms)
           J == {n + 1 - i : i \in I}
<1>1. SelectArm(f, args) = IF I # {} THEN Min(I) ELSE 0
  BY DEF SelectArm, SelectInSeq
<1>2. I # {} /\ I \subseteq 1..n
  BY <1>1
<1>3. J \subseteq 1..n /\ J # {}
  BY <1>2
<1>4. PICK m \in J : \A k \in J : k <= m
  BY <1>3, LastExists
<1>5. PICK i \in I : m = n + 1 - i
  BY <1>4
<1>6. \A k \in I : i <= k
  <2> SUFFICES ASSUME NEW k \in I PROVE i <= k
    OBVIOUS
  <2>1. n + 1 - k \in J
    OBVIOUS
  <2>2. n + 1 - k <= n + 1 - i
    BY <1>4, <1>5, <2>1
  <2>3. i \in Nat /\ k \in Nat
    BY <1>2
  <2> QED BY <2>2, <2>3
<1>7. Min(I) \in I
  <2> HIDE DEF I
  <2> QED BY <1>6 DEF Min
<1> QED BY <1>1, <1>2, <1>7

\* An arm is evaluated in its activation, or its tail call replaces it.
LEMMA MatchArmStep ==
  ASSUME Inv, MatchArm
  PROVE  Inv'
<1> DEFINE y == Top
           r == Tail(stack)
           i == SelectArm(y.fxn, y.args)
           arm == Def[y.fxn].arms[i]
           env == MatchArguments(arm.pattern, y.args).env
           x == ArgumentsFrame(arm.body, env, TRUE)
<1>1. /\ stack # <<>> /\ y.frame = "body" /\ focus.at = "continue" /\ i # 0 /\ scope' = scope
      /\ IsMatchArms(y.fxn)
      /\ IF arm.body.op = "call" /\ arm.body.fxn = y.fxn
           THEN stack' = <<x>> \o stack /\ focus' = Continue
           ELSE focus' = Evaluate(arm.body, env) /\ UNCHANGED stack
  BY DEF MatchArm, InArms, In, Continue, Push
<1>2. /\ stack = <<y>> \o r /\ IsSeq(r) /\ Linked(r, "below") /\ Rests(y, TopFrame(r), "continue")
      /\ y = TopFrame(stack)
  BY <1>1, OnTop DEF TopFrame, Top
<1>3. y.fxn \in Functions /\ OfArms(y)
  <2> HIDE DEF y, r
  <2>1. y.fxn \in Functions
    BY <1>1, <1>2, BodyShape
  <2> QED BY <1>1, <2>1 DEF OfArms
<1>4. arm.body \in ArmBodies(y.fxn)
  <2> HIDE DEF y
  <2>1. i \in 1..Len(Def[y.fxn].arms)
    BY <1>1, <1>3, SelectedArm, ArmsAssumption
  <2> HIDE DEF i
  <2> QED BY <2>1 DEF ArmBodies
<1> HIDE DEF y, r, i, arm, env
<1>5. CASE arm.body.op = "call" /\ arm.body.fxn = y.fxn
  <2> DEFINE call == arm.body
  <2>1. stack' = <<x>> \o stack /\ focus'.at = "continue"
    <3>1. stack' = <<x>> \o stack /\ focus' = Continue
      BY <1>1, <1>5
    <3> QED BY <3>1 DEF Continue
  <2>2. x = [frame |-> "arguments", call |-> call, env |-> env, tail |-> TRUE,
             rest |-> call.args, done |-> <<>>]
    BY DEF ArgumentsFrame
  <2>3. /\ call.args \in Seq(ToSet(call.args)) /\ IsSeq(<<>>)
        /\ Len(<<>>) + Len(call.args) = Len(call.args) - 0
    <3>1. call.args \in Seq(ToSet(call.args)) /\ Len(call.args) \in Nat /\ IsSeq(<<>>)
      BY <1>3, <1>4, <1>5, ArmArguments
    <3> QED BY <3>1
  <2> HIDE DEF x, call
  <2>4. /\ x.call = call /\ x.tail = TRUE /\ x.rest = call.args /\ x.done = <<>> /\ x.env = env
        /\ x.frame = "arguments"
    BY <2>2
  <2>5. x = [frame |-> "arguments", call |-> x.call, env |-> x.env, tail |-> x.tail,
             rest |-> x.rest, done |-> x.done]
    BY <2>2, <2>4
  <2>6. Rests(x, TopFrame(stack), "continue")
    <3>1. call.op = "call" /\ call.fxn = y.fxn /\ call \in ArmBodies(y.fxn)
      BY <1>4, <1>5 DEF call
    <3> QED BY <1>2, <1>3, <2>3, <2>4, <2>5, <3>1 DEF Rests
  <2>7. IsSeq(stack) /\ Apart(stack, scope.symbols, "continue") /\ Linked(stack, "continue")
    BY <1>1 DEF Inv
  <2>8. Linked(stack, "below")
    <3>1. Rests(y, TopFrame(r), "below")
      BY <1>1, <1>2, BodyAnywhere
    <3> QED BY <1>2, <3>1, Links DEF TopFrame
  <2>9. Apart(stack, scope'.symbols, focus'.at)
    BY <1>1, <2>1, <2>7
  <2> QED BY <1>1, <2>1, <2>4, <2>6, <2>7, <2>8, <2>9, FocusOut, ScopeShape, PutOnTop
<1>6. CASE ~ (arm.body.op = "call" /\ arm.body.fxn = y.fxn)
  <2>1. /\ UNCHANGED <<stack, scope>> /\ focus'.at = "evaluate" /\ focus'.expression = arm.body
    BY <1>1, <1>6 DEF Evaluate
  <2>2. /\ focus'.expression \in ArmBodies(y.fxn)
        /\ focus'.expression.op = "call" =>
             DoesNotNest(focus'.expression.fxn, y.fxn, Len(focus'.expression.args))
    BY <1>4, <1>6, <2>1 DEF DoesNotNest
  <2>3. FocusRests(TopFrame(stack))'
    <3>1. TopFrame(stack)' = y
      BY <1>2, <2>1 DEF TopFrame
    <3> QED BY <2>1, <2>2, <3>1 DEF FocusRests, OfArms, ArmBodies, DoesNotNest
  <2>4. Top.frame # "arguments" /\ DefinesNoInput(Top)
    BY <1>1 DEF y, DefinesNoInput
  <2> QED BY <1>1, <2>1, <2>3, <2>4, Refocus
<1> QED BY <1>5, <1>6

\* An activation enters a scope of its own, with its arguments.
LEMMA EnteredScope ==
  ASSUME NEW f, NEW args, Entered(f, args)
  PROVE  /\ scope' = Scope(scope'.symbols, scope'.steps)
         /\ focus'.at \in {"continue", "raised"}
         /\ focus'.at = "raised" \/ Extends(scope'.symbols, Bound(f, args))
<1>1. CASE BindsAll(f, args)
  <2>1. scope' = Scope(Bound(f, args), 0)
    BY <1>1 DEF Entered
  <2>2. scope'.symbols = Bound(f, args) /\ scope'.steps = 0
    BY <2>1 DEF Scope
  <2>3. focus'.at = "continue"
    BY <1>1 DEF Entered, Continue
  <2>4. Extends(scope'.symbols, Bound(f, args))
    BY <2>2 DEF Extends
  <2> QED BY <2>1, <2>2, <2>3, <2>4
<1>2. CASE ~ BindsAll(f, args)
  <2>1. scope' = Scope(NoBindings, 0)
    BY <1>2 DEF Entered
  <2>2. scope'.symbols = NoBindings /\ scope'.steps = 0
    BY <2>1 DEF Scope
  <2>3. focus'.at = "raised"
    BY <1>2 DEF Entered, Raised
  <2> QED BY <2>1, <2>2, <2>3
<1> QED BY <1>1, <1>2

\* The invariant of a step that puts a new activation on what is below.
LEMMA EnterStep ==
  ASSUME NEW f \in Functions, NEW args, NEW saved, NEW r, IsSeq(r),
         stack' = <<BodyFrame(f, args, saved)>> \o r, Entered(f, args),
         saved = Scope(saved.symbols, saved.steps), Apart(r, saved.symbols, "below"),
         Linked(r, "below"), OfArms(TopFrame(r)) => f # TopFrame(r).fxn
  PROVE  Inv'
<1> DEFINE x == BodyFrame(f, args, saved)
           y == TopFrame(r)
<1>1. x = [frame |-> "body", fxn |-> f, args |-> args, saved |-> saved, statement |-> 1]
  BY DEF BodyFrame
<1> HIDE DEF x, y
<1>2. /\ x.frame = "body" /\ x.fxn = f /\ x.args = args /\ x.saved = saved /\ x.statement = 1
  BY <1>1
<1>3. x = [frame |-> "body", fxn |-> x.fxn, args |-> x.args, saved |-> x.saved,
           statement |-> x.statement]
  BY <1>1, <1>2
<1>4. /\ scope' = Scope(scope'.symbols, scope'.steps) /\ focus'.at \in {"continue", "raised"}
      /\ focus'.at = "raised" \/ Extends(scope'.symbols, Bound(f, args))
  BY EnteredScope
<1>5. Rests(x, y, focus'.at)
  BY <1>2, <1>3, <1>4 DEF Rests, y
<1>6. stack' = <<x>> \o r
  BY DEF x
<1> QED BY <1>2, <1>4, <1>5, <1>6, FocusOut, PutOnTop DEF y

LEMMA EnterFunctionStep ==
  ASSUME Inv, EnterFunction
  PROVE  Inv'
<1>1. /\ focus.at = "apply" /\ Len(focus.args) = Arity(focus.fxn)
      /\ stack' = <<BodyFrame(focus.fxn, focus.args, scope)>> \o stack
      /\ Entered(focus.fxn, focus.args)
  BY DEF EnterFunction, Applying, Push
<1>2. /\ focus.fxn \in Functions
      /\ OfArms(TopFrame(stack)) => focus.fxn # TopFrame(stack).fxn
  BY <1>1 DEF Inv, FocusRests, DoesNotNest
<1>3. Apart(stack, scope.symbols, "below")
  BY <1>1, ApartRaised DEF Inv
<1>4. Linked(stack, "below")
  BY <1>1 DEF Inv, Linked, Rests
<1> QED BY <1>1, <1>2, <1>3, <1>4, ScopeShape, EnterStep

\* A tail call leaves its activation and enters one on what was below it.
LEMMA TailCallStep ==
  ASSUME Inv, TailCall
  PROVE  Inv'
<1> DEFINE x == Top
           r == Tail(stack)
           b == Head(r)
           u == Tail(r)
<1>1. /\ stack # <<>> /\ x.frame = "arguments" /\ x.rest = <<>> /\ focus.at = "continue" /\ x.tail
  BY DEF TailCall, Arguments, In, Continue
<1>2. /\ IsSeq(r) /\ stack = <<x>> \o r /\ Rests(x, TopFrame(r), "continue") /\ Linked(r, "below")
      /\ Apart(r, scope.symbols, "continue")
  BY <1>1, OnTop
<1>3. /\ OfArms(TopFrame(r)) /\ TopFrame(r).fxn = x.call.fxn /\ TopFrame(r).fxn \in Functions
  <2> HIDE DEF x, r
  <2> QED BY <1>1, <1>2, ArgumentsShape
<1>4. r # <<>> /\ TopFrame(r) = b
  BY <1>3 DEF TopFrame, OfArms, Bottom
<1>5. stack[2] = b
  <2> HIDE DEF x
  <2>1. Len(r) \in Nat /\ 1 \in 1..Len(r) /\ r[1] = b
    BY <1>2, <1>4 DEF IsSeq
  <2> HIDE DEF r
  <2>2. (<<x>> \o r)[1 + 1] = r[1]
    BY <1>2, <2>1, PushSeq
  <2> QED BY <1>2, <2>1, <2>2
<1>6. IsSeq(u) /\ r = <<b>> \o u
  BY <1>2, <1>4, SplitSeq
<1>7. Linked(<<b>> \o u, "below") /\ Apart(<<b>> \o u, scope.symbols, "continue") /\ b.frame = "body"
  BY <1>2, <1>3, <1>4, <1>6 DEF OfArms
<1> HIDE DEF u, b
<1>8. /\ Rests(b, TopFrame(u), "below") /\ Linked(u, "below")
      /\ Apart(u, b.saved.symbols, "below") /\ Extends(scope.symbols, Bound(b.fxn, b.args))
  <2>1. Rests(b, TopFrame(u), "below") /\ Linked(u, "below")
    BY <1>6, <1>7, Links DEF TopFrame
  <2> DEFINE symbols == scope.symbols
  <2>2. Apart(<<b>> \o u, symbols, "continue")
    BY <1>7
  <2> HIDE DEF symbols
  <2>3. Apart(u, b.saved.symbols, "below") /\ Extends(symbols, Bound(b.fxn, b.args))
    BY <1>6, <1>7, <2>2, Locals
  <2> QED BY <2>1, <2>3 DEF symbols
<1>9. /\ b.saved = Scope(b.saved.symbols, b.saved.steps) /\ b.fxn \in Functions
      /\ OfArms(TopFrame(u)) => b.fxn # TopFrame(u).fxn
  BY <1>7, <1>8, BodyShape
<1>10. CASE Len(x.done) = Arity(b.fxn)
  <2>1. /\ stack' = <<BodyFrame(b.fxn, x.done, b.saved)>> \o u
        /\ Entered(b.fxn, x.done)
    BY <1>5, <1>10 DEF TailCall, u
  <2> HIDE DEF x
  <2> QED BY <1>6, <1>8, <1>9, <2>1, EnterStep
<1>11. CASE Len(x.done) # Arity(b.fxn)
  <2>1. stack' = r /\ focus' = Evaluate(x.call, x.env) /\ scope' = scope
    BY <1>5, <1>11 DEF TailCall, Pop
  <2>2. focus'.at = "evaluate" /\ focus'.expression = x.call
    BY <2>1 DEF Evaluate
  <2>3. /\ x.call \in ArmBodies(b.fxn) /\ Len(x.call.args) # Arity(b.fxn)
    <3> HIDE DEF x, r
    <3>1. /\ x.call \in ArmBodies(b.fxn) /\ x.call.op = "call" /\ IsSeq(x.done)
          /\ Len(x.done) + Len(x.rest) = Len(x.call.args) - 0
      BY <1>1, <1>2, <1>3, <1>4, ArgumentsShape
    <3>2. Len(x.call.args) \in Nat /\ Len(x.done) \in Nat /\ Len(x.rest) = 0
      BY <1>1, <1>9, <3>1, ArmArguments DEF IsSeq
    <3>3. Len(x.done) = Len(x.call.args)
      BY <3>1, <3>2
    <3> QED BY <1>11, <3>1, <3>3
  <2>4. TopFrame(stack)' = b
    BY <1>4, <2>1 DEF TopFrame
  <2> HIDE DEF x, r
  <2>5. FocusRests(TopFrame(stack))'
    BY <2>2, <2>3, <2>4 DEF FocusRests, OfArms, ArmBodies, DoesNotNest
  <2>6. Apart(r, scope'.symbols, focus'.at)
    BY <1>2, <2>1, ApartRaised
  <2> QED BY <1>2, <2>1, <2>2, <2>5, <2>6, ScopeShape, TakenOff
<1> QED BY <1>10, <1>11

\* Leaving an activation, by its value or by an error, gives its caller back its table.
LEMMA LeaveSteps ==
  ASSUME Inv, ReturnFromArm \/ CollectOutput \/ Unwind
  PROVE  Inv'
<1> DEFINE x == Top
           r == Tail(stack)
<1>1. /\ stack # <<>> /\ stack' = r /\ focus'.at \in {"returned", "raised"}
      /\ IF x.frame = "body" THEN scope' = x.saved ELSE scope' = scope /\ focus' = focus
      /\ x.frame # "body" => focus.at = "raised"
  <2>1. CASE ReturnFromArm \/ CollectOutput
    <3>1. stack # <<>> /\ stack' = r /\ x.frame = "body" /\ scope' = x.saved
      BY <2>1 DEF ReturnFromArm, CollectOutput, InStatements, In, Pop, Restore
    <3>2. (\E v : focus' = Returned(v)) \/ (\E why : focus' = Raised(why))
      BY <2>1, Zenon DEF ReturnFromArm, CollectOutput
    <3>3. focus'.at \in {"returned", "raised"}
      BY <3>2 DEF Returned, Raised
    <3> QED BY <3>1, <3>3
  <2>2. CASE Unwind
    BY <2>2 DEF Unwind, Pop, Restore
  <2> QED BY <2>1, <2>2
<1>2. /\ IsSeq(r) /\ Rests(x, TopFrame(r), focus.at) /\ Linked(r, "below")
      /\ IF x.frame = "body" THEN Apart(r, x.saved.symbols, "below")
         ELSE Apart(r, scope.symbols, focus.at)
  BY <1>1, OnTop
<1> HIDE DEF x, r
<1>3. scope' = Scope(scope'.symbols, scope'.steps)
  <2>1. CASE x.frame = "body"
    BY <1>1, <1>2, <2>1, BodyShape
  <2>2. CASE x.frame # "body"
    BY <1>1, <2>2, ScopeShape
  <2> QED BY <2>1, <2>2
<1>4. Apart(r, scope'.symbols, focus'.at)
  <2>1. CASE x.frame = "body"
    BY <1>1, <1>2, <2>1, ApartRaised
  <2>2. CASE x.frame # "body"
    BY <1>1, <1>2, <2>2
  <2> QED BY <2>1, <2>2
<1> QED BY <1>1, <1>2, <1>3, <1>4, FocusOut, TakenOff

\* A local is a new name of the activation's table.
LEMMA DefineLocalStep ==
  ASSUME Inv, DefineLocal
  PROVE  Inv'
<1> DEFINE x == Top
           r == Tail(stack)
           y == TopFrame(r)
           w == [x EXCEPT !.statement = @ + 1]
           name == Statements[Top.statement].name
           symbols == scope.symbols
           new == Inserted(symbols, name, focus.value)
<1>1. /\ stack # <<>> /\ x.frame = "body" /\ focus.at = "returned" /\ focus'.at = "continue"
      /\ stack' = <<w>> \o r /\ scope' = Scope(new, scope.steps + 1)
  BY DEF DefineLocal, In, Replace, Continue
<1>2. /\ IsSeq(r) /\ Rests(x, y, focus.at) /\ Linked(r, "below")
      /\ Extends(symbols, Bound(x.fxn, x.args)) /\ Apart(r, x.saved.symbols, "below")
  BY <1>1, OnTop
<1>3. Extends(new, Bound(x.fxn, x.args))
  <2> DEFINE bound == Bound(x.fxn, x.args)
  <2>1. Extends(symbols, bound)
    BY <1>2
  <2>2. name \notin DOMAIN bound
    <3>1. DefinesNoInput(x) /\ ~ IsMatchArms(x.fxn)
      <4>1. ~ IsMatchArms(x.fxn)
        BY DEF DefineLocal
      <4> HIDE DEF x, y
      <4> QED BY <1>1, <1>2, <4>1, BodyShape
    <3> QED BY <3>1 DEF DefinesNoInput, Statements
  <2> HIDE DEF x, symbols, name, bound
  <2>3. Extends(new, bound)
    BY <2>1, <2>2 DEF Extends, Inserted
  <2> QED BY <2>3 DEF bound
<1>4. scope'.symbols = new /\ scope' = Scope(scope'.symbols, scope'.steps)
  <2> HIDE DEF new
  <2> QED BY <1>1 DEF Scope
<1> HIDE DEF x, r, y, new
<1>5. /\ x = [frame |-> "body", fxn |-> x.fxn, args |-> x.args, saved |-> x.saved,
              statement |-> x.statement]
      /\ x.saved = Scope(x.saved.symbols, x.saved.steps) /\ x.fxn \in Functions
      /\ OfArms(y) => x.fxn # y.fxn
  BY <1>1, <1>2, BodyShape
<1>6. w = [frame |-> "body", fxn |-> x.fxn, args |-> x.args, saved |-> x.saved,
           statement |-> x.statement + 1]
  BY <1>5
<1> HIDE DEF w
<1>7. /\ w.frame = "body" /\ w.fxn = x.fxn /\ w.args = x.args /\ w.saved = x.saved
      /\ w.statement = x.statement + 1
  BY <1>6
<1>8. w = [frame |-> "body", fxn |-> w.fxn, args |-> w.args, saved |-> w.saved,
           statement |-> w.statement]
  BY <1>6, <1>7
<1>9. Rests(w, y, focus'.at)
  <2>1. focus'.at = "continue"
    BY <1>1
  <2> QED BY <1>5, <1>7, <1>8, <2>1 DEF Rests
<1> QED BY <1>1, <1>2, <1>3, <1>4, <1>7, <1>9, FocusOut, PutOnTop DEF y

\* A broadcast applies the function to one element after another.
LEMMA BroadcastSteps ==
  ASSUME Inv, StartBroadcast \/ BroadcastNext \/ BroadcastReturned \/ BroadcastDone
  PROVE  Inv'
<1>1. ASSUME NEW w, NEW f \in Functions, NEW rest, NEW done, NEW y, NEW at,
             w = [frame |-> "broadcast", fxn |-> f, rest |-> rest, done |-> done]
      PROVE  Rests(w, y, at) /\ w.frame = "broadcast" /\ w.fxn = f
  <2>1. w.fxn = f /\ w.rest = rest /\ w.done = done /\ w.frame = "broadcast"
    BY <1>1
  <2>2. w = [frame |-> "broadcast", fxn |-> w.fxn, rest |-> w.rest, done |-> w.done]
    BY <1>1, <2>1
  <2> QED BY <2>1, <2>2 DEF Rests
<1>2. CASE StartBroadcast
  <2> DEFINE w == BroadcastFrame(focus.fxn, Elements(focus.args[1]))
  <2>1. /\ focus.at = "apply" /\ focus'.at = "continue" /\ stack' = <<w>> \o stack /\ scope' = scope
    <3>1. /\ focus.at = "apply" /\ focus' = Continue /\ stack' = <<w>> \o stack /\ scope' = scope
      BY <1>2 DEF StartBroadcast, Applying, Push
    <3> QED BY <3>1 DEF Continue
  <2>2. focus.fxn \in Functions
    BY <2>1 DEF Inv, FocusRests
  <2>3. w = [frame |-> "broadcast", fxn |-> focus.fxn, rest |-> Elements(focus.args[1]), done |-> <<>>]
    BY DEF BroadcastFrame
  <2> HIDE DEF w
  <2>4. Rests(w, TopFrame(stack), focus'.at) /\ w.frame = "broadcast"
    BY <1>1, <2>2, <2>3
  <2>5. Linked(stack, "below")
    BY <2>1 DEF Inv, Linked, Rests
  <2>6. Apart(stack, scope'.symbols, focus'.at)
    BY <2>1, ApartRaised DEF Inv
  <2> QED BY <2>1, <2>4, <2>5, <2>6, FocusOut, ScopeShape, PutOnTop
<1>3. CASE BroadcastNext \/ BroadcastReturned \/ BroadcastDone
  <2> DEFINE x == Top
             r == Tail(stack)
             y == TopFrame(r)
  <2>1. /\ stack # <<>> /\ x.frame = "broadcast" /\ scope' = scope /\ focus.at # "raised"
    BY <1>3 DEF BroadcastNext, BroadcastReturned, BroadcastDone, In, Continue
  <2>2. /\ IsSeq(r) /\ Rests(x, y, focus.at) /\ Linked(r, "below") /\ Apart(r, scope.symbols, focus.at)
    BY <2>1, OnTop
  <2>3. Apart(r, scope'.symbols, focus'.at)
    BY <2>1, <2>2, ApartRaised
  <2>4. /\ x = [frame |-> "broadcast", fxn |-> x.fxn, rest |-> x.rest, done |-> x.done]
        /\ x.fxn \in Functions
    <3> HIDE DEF x, y
    <3> QED BY <2>1, <2>2, BroadcastShape
  <2>5. CASE BroadcastNext
    <3> DEFINE w == [x EXCEPT !.rest = Tail(@)]
    <3>1. /\ stack' = <<w>> \o r /\ focus'.at = "apply" /\ focus'.fxn = x.fxn
      BY <2>5 DEF BroadcastNext, Replace, Apply
    <3>2. \E rest : w = [frame |-> "broadcast", fxn |-> x.fxn, rest |-> rest, done |-> x.done]
      <4> DEFINE rest == Tail(x.rest)
      <4>1. w = [x EXCEPT !.rest = rest]
        OBVIOUS
      <4> HIDE DEF w, rest, x
      <4>2. w = [frame |-> "broadcast", fxn |-> x.fxn, rest |-> rest, done |-> x.done]
        BY <2>4, <4>1
      <4> QED BY <4>2
    <3> HIDE DEF w, x, r, y
    <3>3. Rests(w, y, focus'.at) /\ w.frame = "broadcast"
      BY <1>1, <2>4, <3>2
    <3>4. TopFrame(stack)' = w
      BY <2>2, <3>1, PushSeq DEF TopFrame
    <3>5. FocusRests(TopFrame(stack))'
      BY <2>4, <3>1, <3>3, <3>4 DEF FocusRests, OfArms
    <3> QED BY <2>1, <2>2, <2>3, <3>1, <3>3, <3>5, ScopeShape, PutOnTop DEF y
  <2>6. CASE BroadcastReturned
    <3> DEFINE w == [x EXCEPT !.done = Append(@, focus.value)]
    <3>1. /\ stack' = <<w>> \o r /\ focus'.at = "continue"
      BY <2>6 DEF BroadcastReturned, Replace, Continue
    <3>2. \E done : w = [frame |-> "broadcast", fxn |-> x.fxn, rest |-> x.rest, done |-> done]
      <4> DEFINE done == Append(x.done, focus.value)
      <4>1. w = [x EXCEPT !.done = done]
        OBVIOUS
      <4> HIDE DEF w, done, x
      <4>2. w = [frame |-> "broadcast", fxn |-> x.fxn, rest |-> x.rest, done |-> done]
        BY <2>4, <4>1
      <4> QED BY <4>2
    <3> HIDE DEF w, x, r, y
    <3>3. Rests(w, y, focus'.at) /\ w.frame = "broadcast"
      BY <1>1, <2>4, <3>2
    <3> QED BY <2>1, <2>2, <2>3, <3>1, <3>3, FocusOut, ScopeShape, PutOnTop DEF y
  <2>7. CASE BroadcastDone
    <3>1. stack' = r
      BY <2>7 DEF BroadcastDone, Pop
    <3>2. focus'.at \in {"returned", "raised"}
      <4>1. (\E v : focus' = Returned(v)) \/ (\E why : focus' = Raised(why))
        BY <2>7, Zenon DEF BroadcastDone
      <4> QED BY <4>1 DEF Returned, Raised
    <3> HIDE DEF x, r, y
    <3> QED BY <2>1, <2>2, <2>3, <3>1, <3>2, FocusOut, ScopeShape, TakenOff
  <2> QED BY <1>3, <2>5, <2>6, <2>7
<1> QED BY <1>2, <1>3

\* Every step keeps the invariant.
LEMMA StepInv == Inv /\ [Next]_vars => Inv'
<1> SUFFICES ASSUME Inv, [Next]_vars PROVE Inv'
  OBVIOUS
<1>1. CASE UNCHANGED vars
  BY <1>1, InvNext DEF vars, Inv, FocusRests, TopFrame, OfArms, ArmBodies, DoesNotNest, Bottom
<1> QED
  BY <1>1, FocusSteps, EndStep, FunctionCallStep, ArgumentSteps, CallSteps, MatchArmStep,
     EnterFunctionStep, TailCallStep, LeaveSteps, DefineLocalStep, BroadcastSteps
  DEF Next, Work

\* The inductive invariant holds of every program of calls, whatever fails
\* (execute_user_function).
THEOREM Invariance == Spec => []Inv
BY InitInv, StepInv, PTL DEF Spec

\* Locals do not bleed across calls: however calls nest, tail-call, map over rows,
\* fail or panic, the program's table is given back and every activation's table
\* holds its arguments (FunctionScope and its Drop).
THEOREM LocalsStayLocal == Spec => []LocalsDoNotBleed
<1>1. Inv => LocalsDoNotBleed
  BY LocalsAsApart DEF Inv
<1> QED BY Invariance, <1>1, PTL

\* A tail call replaces the activation it is made from, in every function of match
\* arms (execute_function_match_arms).
THEOREM TailCallsKeepTheStack == Spec => []TailCallsDoNotNest
<1>1. Inv => TailCallsDoNotNest
  <2> SUFFICES ASSUME Inv, NEW i \in DOMAIN stack, NEW j \in DOMAIN stack, i < j, Body(i), Body(j),
                      stack[i].fxn = stack[j].fxn, IsMatchArms(stack[i].fxn)
               PROVE  \E k \in i..j : stack[k].frame # "body" \/ stack[k].fxn # stack[i].fxn
    BY DEF TailCallsDoNotNest
  <2>1. /\ i \in Nat /\ j \in Nat /\ i < Len(stack) /\ i + 1 \in DOMAIN stack /\ i + 1 \in i..j
        /\ Len(stack) \in Nat
    BY DEF Inv, IsSeq
  <2>2. Rests(stack[i], stack[i + 1], IF i = 1 THEN focus.at ELSE "below")
    BY <2>1 DEF Inv, Linked, Under
  <2>3. OfArms(stack[i + 1]) => stack[i].fxn # stack[i + 1].fxn
    BY <2>2, BodyShape DEF Body
  <2> QED BY <2>1, <2>3 DEF OfArms
<1> QED BY Invariance, <1>1, PTL
=============================================================================
