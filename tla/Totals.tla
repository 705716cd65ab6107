------------------------------- MODULE Totals -------------------------------
(* The sum of a sequence of numbers, in which the bytes of queued messages  *)
(* are stated.                                                             *)
EXTENDS Naturals, Sequences

\* The sums of the prefixes of s, by their lengths.
PrefixSums(s) ==
  LET sum[n \in 0 .. Len(s)] == IF n = 0 THEN 0 ELSE sum[n - 1] + s[n]
  IN  sum

Total(s) == PrefixSums(s)[Len(s)]
=============================================================================
