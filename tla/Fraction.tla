------------------------------ MODULE Fraction ------------------------------
(***************************************************************************)
(* The numbers of the dispatcher.  JavaScript computes scores, means and    *)
(* ratios in floating point; here they are fractions, kept unreduced, in    *)
(* hundredths where the code has a number between 0 and 1.  Rounding of the *)
(* last binary digit is what this leaves out.  Also the stable sort the     *)
(* code ranks candidates with.                                              *)
(***************************************************************************)
EXTENDS Integers, Sequences, FiniteSets, Functions

Fractions == [num : Int, den : Nat \ {0}]

Over(n, d) == [num |-> n, den |-> d]

Exceeds(a, b) == a.num * b.den > b.num * a.den

Plus(a, b) ==
  IF a.den = b.den THEN Over(a.num + b.num, a.den)
  ELSE Over(a.num * b.den + b.num * a.den, a.den * b.den)

(* mean of the values of f, a sequence or what a filter left of one, which  *)
(* is not empty.                                                            *)
Mean(f) ==
  LET sum == FoldFunction(Plus, Over(0, 1), f)
  IN  Over(sum.num, sum.den * Cardinality(DOMAIN f))

CeilDiv(n, d) == (n + d - 1) \div d

(* Array.prototype.sort of what a filter left of a sequence: Before(a, b)   *)
(* puts a in front of b, elements that neither precedes keep their order,   *)
(* and the place of one is told by how many are in front of it.             *)
Ranked(s, Before(_, _)) ==
  LET InOrder(i, j) == Before(s[i], s[j]) \/ (~Before(s[j], s[i]) /\ i < j)
      Place(i) == Cardinality({j \in DOMAIN s : InOrder(j, i)}) + 1
  IN  [k \in 1..Cardinality(DOMAIN s) |-> s[CHOOSE i \in DOMAIN s : Place(i) = k]]
=============================================================================
