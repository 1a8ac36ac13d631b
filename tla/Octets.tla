-------------------------------- MODULE Octets --------------------------------
(***************************************************************************)
(* Bytes as the set of their bits that are one, as BusWords has words, and  *)
(* the exclusive or of bytes and words.                                     *)
(***************************************************************************)
EXTENDS Integers

Octet == SUBSET (0..7)

Xor(x, y) == (x \ y) \cup (y \ x)

Value(x) ==
  LET one(k, weight) == IF k \in x THEN weight ELSE 0
  IN  one(0, 1) + one(1, 2) + one(2, 4) + one(3, 8)
      + one(4, 16) + one(5, 32) + one(6, 64) + one(7, 128)

Weight == <<1, 2, 4, 8, 16, 32, 64, 128>>

(* The byte with that value.                                                *)
BitsOf(value) == {k \in 0..7 : (value \div Weight[k + 1]) % 2 = 1}

=============================================================================
