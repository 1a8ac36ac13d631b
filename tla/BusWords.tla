------------------------------- MODULE BusWords -------------------------------
(***************************************************************************)
(* 32-bit words as the set of their bits that are one, and the macros of    *)
(* include/uniicorn.h on them.  With this reading x & y is x \cap y, x | y  *)
(* is x \cup y and GET_BIT(x, i) is i \in x.                                *)
(***************************************************************************)
EXTENDS Integers

Bit  == 0..31
Word == SUBSET Bit

(* Byte 0 is the least significant one.                                     *)
Byte(n) == (8 * n)..(8 * n + 7)

Shl(w, n) == {b \in Bit : b - n \in w}
Shr(w, n) == {b \in Bit : b + n \in w}

Complement(w) == Bit \ w

SWAP_32(w) ==
  (Shr(w, 24) \cap Byte(0)) \cup (Shl(w, 8)  \cap Byte(2)) \cup
  (Shr(w, 8)  \cap Byte(1)) \cup (Shl(w, 24) \cap Byte(3))

(* The macro does not put its argument in parentheses, and in C a shift     *)
(* binds tighter than &.  SWAP_32(x & y) is therefore the following, where  *)
(* only y is shifted.                                                       *)
SWAP_32_and(x, y) ==
  (x \cap Shr(y, 24) \cap Byte(0)) \cup (x \cap Shl(y, 8)  \cap Byte(2)) \cup
  (x \cap Shr(y, 8)  \cap Byte(1)) \cup (x \cap Shl(y, 24) \cap Byte(3))

=============================================================================
