------------------------------- MODULE Totals -------------------------------
(***************************************************************************)
(* The total of a sequence of integers, and the sum of a function's values *)
(* over a finite set.  FoldSeq(+, 0, s) computes the first as well; the    *)
(* recursion is spelled out along the sequence because the proofs of       *)
(* TotalsProofs.tla unfold it one element at a time.                       *)
(***************************************************************************)
EXTENDS Integers, Sequences, FiniteSetsExt

(* PartialTotals(s)[i] is s[1] + ... + s[i].                                *)
PartialTotals(s) ==
  LET sum[i \in 0..Len(s)] == IF i = 0 THEN 0 ELSE sum[i - 1] + s[i]
  IN sum

Total(s) == PartialTotals(s)[Len(s)]

SumOver(f, S) == MapThenSumSet(LAMBDA x : f[x], S)
=============================================================================
