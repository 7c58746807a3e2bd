------------------------------ MODULE ByteFields ------------------------------
(***************************************************************************)
(* Bytes by what they belong to: a byte is the i-th of the bytes of some   *)
(* number or value.  Reading gives what was written if its bytes are all   *)
(* there, in order, and garbage otherwise.                                 *)
(***************************************************************************)
EXTENDS Integers, Sequences

Byte(of, part, width) == [of |-> of, part |-> part, width |-> width]
Bytes(of, width) == [i \in 1..width |-> Byte(of, i, width)]
Padding(n) == [i \in 1..n |-> Byte("padding", 0, 0)]

Garbage == 1000000   \* some number that nothing means

Read(bytes, offset, width) ==
  IF /\ offset + width <= Len(bytes)
     /\ \A i \in 1..width : bytes[offset + i].part = i /\ bytes[offset + i].width = width
  THEN bytes[offset + 1].of
  ELSE Garbage

\* The checksum stands for the content it was computed from: no two contents have
\* the same, and no number happens to be one.
Checksum(content) == [i \in 1..4 |-> Byte(content, i, 0)]
HasChecksum(bytes) ==
  /\ Len(bytes) >= 4
  /\ LET n == Len(bytes) - 4
     IN /\ \A i \in 1..4 : bytes[n + i].part = i /\ bytes[n + i].width = 0
        /\ bytes[n + 1].of = SubSeq(bytes, 1, n)
=============================================================================
