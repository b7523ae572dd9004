------------------------------- MODULE Binary -------------------------------
(***************************************************************************)
(* Numbers as shift registers and checksums see them: powers of two, bits  *)
(* and words.                                                              *)
(***************************************************************************)
EXTENDS Integers, Sequences

(* 1 << n                                                                  *)
Pow2(n) ==
  LET pow[k \in 0 .. n] == IF k = 0 THEN 1 ELSE 2 * pow[k - 1]
  IN  pow[n]

(* The last n bits of x, the highest first                                 *)
BitsOf(x, n) == [i \in 1 .. n |-> (x \div Pow2(n - i)) % 2]

(* The number that a sequence of bits stands for                           *)
Value(bits) ==
  LET value[k \in 0 .. Len(bits)] == IF k = 0 THEN 0 ELSE 2 * value[k - 1] + bits[k]
  IN  value[Len(bits)]

(* The sum of the first n words of a memory                                *)
SumOf(mem, n) ==
  LET sum[k \in 0 .. n] == IF k = 0 THEN 0 ELSE sum[k - 1] + mem[k - 1]
  IN  sum[n]
=============================================================================
