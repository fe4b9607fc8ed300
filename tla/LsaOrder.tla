------------------------------ MODULE LsaOrder ------------------------------
(***************************************************************************)
(* Which of two instances of an LSA is the more recent one: compare_lsa.   *)
(*                                                                         *)
(* Sequence numbers travel and are stored as unsigned words of 2 * Half    *)
(* values and are compared as signed ones.                                 *)
(***************************************************************************)
EXTENDS Integers

CONSTANTS
    Half,        \* 2^31: half the range of a sequence number
    MaxSum,      \* the largest checksum
    MaxAge,      \* 3600 seconds
    MaxAgeDiff   \* 900 seconds

ASSUME OrderAssumption ==
    /\ Half \in Nat \ {0}
    /\ MaxSum \in Nat
    /\ MaxAge \in Nat \ {0} /\ MaxAgeDiff \in Nat

(* What the comparison reads of an LSA header.  An age on the wire may be  *)
(* anything that fits its field.                                           *)
LsaHeader == [seq : 0..2 * Half - 1, sum : 0..MaxSum, age : Nat]

Signed(s) == IF s < Half THEN s ELSE s - 2 * Half

(* Positive when a is more recent, negative when b is, 0 for the same      *)
(* instance.                                                               *)
CompareAges(a, b) ==
    CASE a.age >= MaxAge /\ b.age < MaxAge -> 1
      [] a.age < MaxAge /\ b.age >= MaxAge -> -1
      [] (a.age >= MaxAge) = (b.age >= MaxAge) /\ b.age - a.age > MaxAgeDiff -> 1
      [] (a.age >= MaxAge) = (b.age >= MaxAge) /\ a.age - b.age > MaxAgeDiff -> -1
      [] OTHER -> 0

CompareSumFirst(a, b) ==   \* mutant: the checksum before the sequence number
    CASE a.sum # b.sum -> a.sum - b.sum
      [] a.sum = b.sum /\ a.seq # b.seq -> IF Signed(a.seq) > Signed(b.seq) THEN 1 ELSE -1
      [] OTHER -> CompareAges(a, b)
Compare(a, b) ==
    CASE a.seq # b.seq -> IF Signed(a.seq) > Signed(b.seq) THEN 1 ELSE -1
      [] a.seq = b.seq /\ a.sum # b.sum -> a.sum - b.sum
      [] OTHER -> CompareAges(a, b)

Newer(a, b) == Compare(a, b) > 0
=============================================================================
