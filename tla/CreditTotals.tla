---------------------------- MODULE CreditTotals ----------------------------
(* Sums of credits over finite sets, written so that they can be reasoned    *)
(* about without induction: a sum of natural numbers is the size of a        *)
(* disjoint union with that many elements for each summand.                  *)
EXTENDS Integers, FiniteSets

\* What f counts on the members of S, for f into 0 .. max.
Parts(S, f, max) == {su \in S \X (1 .. max) : su[2] <= f[su[1]]}
TotalOf(S, f, max) == Cardinality(Parts(S, f, max))
=============================================================================
