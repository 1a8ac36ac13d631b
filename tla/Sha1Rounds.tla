------------------------------ MODULE Sha1Rounds ------------------------------
(***************************************************************************)
(* The rounds of SHA1_Transform in util_sha1.c, on words as BusWords has    *)
(* them.                                                                    *)
(*                                                                          *)
(* The code writes the eighty rounds out, each with the working variables   *)
(* a to e in another order instead of moving them, and expands the message  *)
(* over itself in sixteen words.                                            *)
(***************************************************************************)
EXTENDS BusWords, Octets, Sequences

(* Bit n of a sum gets the carry that some lower bit of both makes and all  *)
(* between them hand on; the carry out of the last bit is lost.             *)
Plus(x, y) ==
  LET Carried(n) == \E m \in 0..(n - 1) :
                      m \in x \cap y /\ (m + 1)..(n - 1) \subseteq x \cup y
  IN  {n \in Bit : n \in Xor(x, y) <=> ~Carried(n)}

rol(value, bits) == Shl(value, bits) \cup Shr(value, 32 - bits)

(* The first sixteen words are the bytes of the block, most significant     *)
(* byte first.                                                              *)
blk0(bytes) ==
  [i \in 0..15 |-> {n \in Bit : n % 8 \in bytes[4 * i + 3 - n \div 8]}]

(* Slip: the four words are xored and not rotated.                          *)
blkUnrotated(block, i) ==
  Xor(Xor(block[(i + 13) % 16], block[(i + 8) % 16]), Xor(block[(i + 2) % 16], block[i % 16]))

blk(block, i) ==
  rol(Xor(Xor(Xor(block[(i + 13) % 16], block[(i + 8) % 16]), block[(i + 2) % 16]),
          block[i % 16]), 1)

(* The word of round i, and the block once it has been expanded in place.   *)
Expanded(block, i) ==
  IF i < 16 THEN block ELSE [block EXCEPT ![i % 16] = blk(block, i)]

(* What the macros R0 to R4 mix three variables with, and their constants.  *)
Mix(i, w, x, y) ==
  IF i < 20 THEN Xor(w \cap Xor(x, y), y)
  ELSE IF i \in 40..59 THEN ((w \cup x) \cap y) \cup (w \cap x)
  ELSE Xor(Xor(w, x), y)

(* A word by the values of its halves.                                      *)
Halves(high, low) ==
  {n \in Bit : ((IF n < 16 THEN low ELSE high) \div 2 ^ (n % 16)) % 2 = 1}

Constant(i) ==
  IF i < 20      THEN Halves(\h5A82, \h7999)
  ELSE IF i < 40 THEN Halves(\h6ED9, \hEBA1)
  ELSE IF i < 60 THEN Halves(\h8F1B, \hBCDC)
  ELSE                Halves(\hCA62, \hC1D6)

(* Round i names variable number (k - i) modulo 5 as its kth of v,w,x,y,z.  *)
Named(k, i) == (k - i) % 5

(* One round on the variables, with the word that blk or blk0 gave.         *)
Round(vars5, i, word) ==
  LET v == vars5[Named(0, i)]
      w == vars5[Named(1, i)]
      x == vars5[Named(2, i)]
      y == vars5[Named(3, i)]
      z == vars5[Named(4, i)]
      sum == Plus(z, Plus(Plus(Plus(Mix(i, w, x, y), word), Constant(i)), rol(v, 5)))
  IN  [vars5 EXCEPT ![Named(4, i)] = sum, ![Named(1, i)] = rol(w, 30)]

(* Slip: the state becomes the variables instead of their sum with it.      *)
ReplaceState(state, vars5) == vars5

AddState(state, vars5) == [n \in 0..4 |-> Plus(state[n], vars5[n])]

(* What SHA1_Init sets.                                                     *)
InitialState ==
  [n \in 0..4 |-> <<Halves(\h6745, \h2301), Halves(\hEFCD, \hAB89), Halves(\h98BA, \hDCFE),
                    Halves(\h1032, \h5476), Halves(\hC3D2, \hE1F0)>>[n + 1]]

-----------------------------------------------------------------------------
(* The same rounds as FIPS 180 states them: a schedule of eighty words that *)
(* is never overwritten, functions in their textbook form, and variables    *)
(* that move down by one.  M is the message block in words; the sum is in   *)
(* the order of the code.                                                   *)
ScheduleWord(M, W, t) ==
  IF t < 16 THEN M[t]
  ELSE rol(Xor(Xor(Xor(W[t - 2], W[t - 7]), W[t - 13]), W[t - 15]), 1)

StandardMix(t, b, c, d) ==
  IF t < 20 THEN (b \cap c) \cup (Complement(b) \cap d)
  ELSE IF t \in 40..59 THEN (b \cap c) \cup (b \cap d) \cup (c \cap d)
  ELSE Xor(b, Xor(c, d))

StandardRound(M, s, t) ==
  LET word == ScheduleWord(M, s.W, t)
      a == s.vars[1]
      b == s.vars[2]
      c == s.vars[3]
      d == s.vars[4]
      e == s.vars[5]
      temp == Plus(e, Plus(Plus(Plus(StandardMix(t, b, c, d), word), Constant(t)), rol(a, 5)))
  IN  [W |-> Append(s.W, word), vars |-> <<temp, a, rol(b, 30), c, d>>]

StandardStart(state) ==
  [W |-> <<>>, vars |-> <<state[0], state[1], state[2], state[3], state[4]>>]

(* The record after each of the rounds on a block, and the state after all. *)
StandardAfter(state, M) ==
  LET after[t \in 0..80] ==
        IF t = 0 THEN StandardStart(state) ELSE StandardRound(M, after[t - 1], t - 1)
  IN  after

StandardTransform(state, M) ==
  LET last == StandardAfter(state, M)[80]
  IN  [n \in 0..4 |-> Plus(state[n], last.vars[n + 1])]

=============================================================================
