------------------------------- MODULE Sums -------------------------------
(***************************************************************************)
(* The sum of a sequence of integers.                                      *)
(***************************************************************************)
EXTENDS Integers, Sequences

(* The sums of the first elements of s, from none of them to all.          *)
PartialSums(s) ==
  LET sum[n \in 0 .. Len(s)] == IF n = 0 THEN 0 ELSE sum[n - 1] + s[n]
  IN  sum

SeqSum(s) == PartialSums(s)[Len(s)]
=============================================================================
