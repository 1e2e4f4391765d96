----------------------------- MODULE BitStrings -----------------------------
(***************************************************************************)
(* A code on the wire of the LZW formats: so many bits of a number, least  *)
(* significant first, and what a decoder makes of them.                    *)
(***************************************************************************)
EXTENDS Integers, Sequences

BitsOf(c, k) == [b \in 1 .. k |-> (c \div 2 ^ (b - 1)) % 2]

ValueOf(bits) ==
  LET v[k \in 0 .. Len(bits)] == IF k = 0 THEN 0 ELSE v[k - 1] + bits[k] * 2 ^ (k - 1)
  IN  v[Len(bits)]
=============================================================================
