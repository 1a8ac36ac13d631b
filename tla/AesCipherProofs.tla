---------------------------- MODULE AesCipherProofs ----------------------------
(***************************************************************************)
(* The cipher of util_aes.c is invertible, and InvCipher goes back through  *)
(* the states of Cipher: for every block and every key, without TLC.        *)
(*                                                                          *)
(* The argument: exclusive or is its own inverse, the two tables are        *)
(* inverse entry by entry, the rows are permuted, and the products of the   *)
(* two mixings of a column sum to one row each, multiplication by x being   *)
(* linear.  What the loops compute is a recursive function; that there is   *)
(* one, and what its values are, comes from induction.  The library's       *)
(* induction has an operator as a parameter, so it is derived here from the *)
(* well-foundedness of the order of the naturals, for sets and functions.   *)
(***************************************************************************)
EXTENDS AesCipher, WellFoundedInduction, TLAPS

-----------------------------------------------------------------------------
(* Induction, and functions defined by recursion.                           *)

(* Induction, for a set of naturals.                                        *)
LEMMA SetInduction ==
  ASSUME NEW S, 0 \in S, \A n \in Nat : n \in S => n + 1 \in S
  PROVE  \A n \in Nat : n \in S
<1> DEFINE T    == Nat \ S
           Less == OpToRel(<, Nat)
<1>1. SUFFICES ASSUME T # {} PROVE FALSE
  OBVIOUS
<1>2. IsWellFoundedOn(Less, Nat)
  BY NatLessThanWellFounded, Zenon
<1> HIDE DEF Less
<1>3. PICK x \in T : \A y \in T : ~ (<<y, x>> \in Less)
  BY <1>1, <1>2, WFMin
<1>4. x # 0 /\ x \in Nat /\ x - 1 \in Nat /\ (x - 1) + 1 = x
  BY <1>3
<1>5. <<x - 1, x>> \in Less
  BY <1>4 DEF Less, OpToRel
<1>6. x - 1 \notin T
  BY <1>3, <1>5
<1> QED
  BY <1>3, <1>4, <1>6

(* A value for each number up to n, each made from the one before.          *)
StepsFrom(g, f0, V, D, n) ==
  /\ DOMAIN g = 0..n /\ g[0] = f0
  /\ \A i \in 0..n : g[i] \in V[i]
  /\ \A i \in 1..n : g[i] = D[i][g[i - 1]]

(* A function that a recursion describes exists, if each value leads from a *)
(* set of values to the next.                                               *)
LEMMA Recursion ==
  ASSUME NEW n \in Nat, NEW V, NEW f0 \in V[0], NEW D,
         \A i \in 1..n : \A x \in V[i - 1] : D[i][x] \in V[i]
  PROVE  \E g : g = [i \in 0..n |-> g[i]] /\ StepsFrom(g, f0, V, D, n)
<1> DEFINE Reached(m) == \E g : g = [i \in 0..m |-> g[i]] /\ StepsFrom(g, f0, V, D, m)
           S == {m \in Nat : m <= n => Reached(m)}
<1>1. 0 \in S
  <2> DEFINE g == [i \in 0..0 |-> f0]
  <2>1. g = [i \in 0..0 |-> g[i]] /\ StepsFrom(g, f0, V, D, 0)
    BY DEF StepsFrom
  <2> HIDE DEF g
  <2> QED  BY <2>1
<1>2. ASSUME NEW m \in Nat, m \in S
      PROVE  m + 1 \in S
  <2>1. SUFFICES ASSUME m + 1 <= n PROVE Reached(m + 1)
    OBVIOUS
  <2>2. PICK g : g = [i \in 0..m |-> g[i]] /\ StepsFrom(g, f0, V, D, m)
    BY <1>2, <2>1
  <2> DEFINE h == [i \in 0..(m + 1) |-> IF i <= m THEN g[i] ELSE D[m + 1][g[m]]]
  <2>3. h = [i \in 0..(m + 1) |-> h[i]]
    OBVIOUS
  <2>4. \A i \in 0..m : h[i] = g[i]
    OBVIOUS
  <2>5. h[m + 1] = D[m + 1][g[m]]
    OBVIOUS
  <2>6. DOMAIN h = 0..(m + 1)
    OBVIOUS
  <2> HIDE DEF h
  <2>7. h[0] = f0
    BY <2>2, <2>4 DEF StepsFrom
  <2>8. g[m] \in V[m] /\ D[m + 1][g[m]] \in V[m + 1]
    <3>1. m \in 0..m /\ m + 1 \in 1..n /\ (m + 1) - 1 = m
      BY <2>1
    <3> QED  BY <2>2, <3>1 DEF StepsFrom
  <2>9. ASSUME NEW i \in 0..(m + 1) PROVE h[i] \in V[i]
    <3>1. CASE i \in 0..m
      BY <3>1, <2>2, <2>4 DEF StepsFrom
    <3>2. CASE i = m + 1
      BY <3>2, <2>5, <2>8
    <3> QED  BY <3>1, <3>2
  <2>10. ASSUME NEW i \in 1..(m + 1) PROVE h[i] = D[i][h[i - 1]]
    <3>1. CASE i \in 1..m
      <4>1. i \in 0..m /\ i - 1 \in 0..m
        BY <3>1
      <4> QED  BY <3>1, <4>1, <2>2, <2>4 DEF StepsFrom
    <3>2. CASE i = m + 1
      BY <3>2, <2>4, <2>5
    <3> QED  BY <3>1, <3>2
  <2>11. StepsFrom(h, f0, V, D, m + 1)
    BY <2>6, <2>7, <2>9, <2>10 DEF StepsFrom
  <2> QED  BY <2>3, <2>11
<1>3. n \in S
  <2> HIDE DEF S
  <2> QED  BY <1>1, <1>2, SetInduction
<1> QED
  BY <1>3

(* What is defined that way stays in the sets of values.                    *)
LEMMA RecursionTypes ==
  ASSUME NEW n \in Nat, NEW V, NEW D,
         \A i \in 1..n : \A x \in V[i - 1] : D[i][x] \in V[i],
         NEW g, g[0] \in V[0],
         \A i \in 1..n : g[i - 1] \in V[i - 1] => g[i] = D[i][g[i - 1]]
  PROVE  \A i \in 0..n : g[i] \in V[i]
<1> DEFINE S == {i \in Nat : i <= n => g[i] \in V[i]}
<1>1. 0 \in S
  OBVIOUS
<1>2. ASSUME NEW i \in Nat, i \in S
      PROVE  i + 1 \in S
  <2>1. SUFFICES ASSUME i + 1 <= n PROVE g[i + 1] \in V[i + 1]
    OBVIOUS
  <2>2. i + 1 \in 1..n /\ (i + 1) - 1 = i /\ g[i] \in V[i]
    BY <1>2, <2>1
  <2> QED  BY <2>2
<1>3. \A i \in Nat : i \in S
  <2> HIDE DEF S
  <2> QED  BY <1>1, <1>2, SetInduction
<1> QED
  BY <1>3

-----------------------------------------------------------------------------
(* Bytes as sets of bits, and by their values.                              *)

(* The value of a byte.                                                     *)
LEMMA ValueType ==
  ASSUME NEW x PROVE Value(x) \in 0..255
  BY DEF Value

(* A value gives a byte.                                                    *)
LEMMA BitsOfType ==
  ASSUME NEW v PROVE BitsOf(v) \in Octet
  BY DEF BitsOf, Octet

(* The weights of the bits.                                                 *)
LEMMA WeightValues ==
  /\ Weight[1] = 1 /\ Weight[2] = 2 /\ Weight[3] = 4 /\ Weight[4] = 8
  /\ Weight[5] = 16 /\ Weight[6] = 32 /\ Weight[7] = 64 /\ Weight[8] = 128
  BY DEF Weight

(* The bits of a value, one by one.                                         *)
LEMMA InBitsOf ==
  ASSUME NEW v \in 0..255
  PROVE  /\ 0 \in BitsOf(v) <=> v % 2 = 1
         /\ 1 \in BitsOf(v) <=> (v \div 2) % 2 = 1
         /\ 2 \in BitsOf(v) <=> (v \div 4) % 2 = 1
         /\ 3 \in BitsOf(v) <=> (v \div 8) % 2 = 1
         /\ 4 \in BitsOf(v) <=> (v \div 16) % 2 = 1
         /\ 5 \in BitsOf(v) <=> (v \div 32) % 2 = 1
         /\ 6 \in BitsOf(v) <=> (v \div 64) % 2 = 1
         /\ 7 \in BitsOf(v) <=> (v \div 128) % 2 = 1
<1> DEFINE bit(k) == (v \div Weight[k + 1]) % 2 = 1
<1>1. \A k \in 0..7 : k \in BitsOf(v) <=> bit(k)
  BY DEF BitsOf
<1>2. /\ bit(0) <=> (v \div 1) % 2 = 1
      /\ bit(1) <=> (v \div 2) % 2 = 1
      /\ bit(2) <=> (v \div 4) % 2 = 1
      /\ bit(3) <=> (v \div 8) % 2 = 1
      /\ bit(4) <=> (v \div 16) % 2 = 1
      /\ bit(5) <=> (v \div 32) % 2 = 1
      /\ bit(6) <=> (v \div 64) % 2 = 1
      /\ bit(7) <=> (v \div 128) % 2 = 1
  <2>1. /\ Weight[0 + 1] = 1 /\ Weight[1 + 1] = 2 /\ Weight[2 + 1] = 4 /\ Weight[3 + 1] = 8
        /\ Weight[4 + 1] = 16 /\ Weight[5 + 1] = 32 /\ Weight[6 + 1] = 64 /\ Weight[7 + 1] = 128
    BY WeightValues
  <2> QED  BY <2>1, Zenon
<1>3. v \div 1 = v
  OBVIOUS
<1> HIDE DEF bit
<1> QED
  BY <1>1, <1>2, <1>3

(* The bits of a value have that value.                                     *)
LEMMA ValueOfBits ==
  ASSUME NEW v \in 0..255
  PROVE  Value(BitsOf(v)) = v
<1> DEFINE b(n) == n % 2
<1>1. v = (v % 2) + 2 * (v \div 2) /\ v \div 2 \in 0..127
  OBVIOUS
<1>2. v \div 2 = ((v \div 2) % 2) + 2 * (v \div 4) /\ v \div 4 \in 0..63
  OBVIOUS
<1>3. v \div 4 = ((v \div 4) % 2) + 2 * (v \div 8) /\ v \div 8 \in 0..31
  OBVIOUS
<1>4. v \div 8 = ((v \div 8) % 2) + 2 * (v \div 16) /\ v \div 16 \in 0..15
  OBVIOUS
<1>5. v \div 16 = ((v \div 16) % 2) + 2 * (v \div 32) /\ v \div 32 \in 0..7
  OBVIOUS
<1>6. v \div 32 = ((v \div 32) % 2) + 2 * (v \div 64) /\ v \div 64 \in 0..3
  OBVIOUS
<1>7. v \div 64 = ((v \div 64) % 2) + 2 * (v \div 128) /\ v \div 128 \in 0..1
  OBVIOUS
<1>8. (v \div 128) % 2 = v \div 128
  BY <1>7
<1> QED
  BY <1>1, <1>2, <1>3, <1>4, <1>5, <1>6, <1>7, <1>8, InBitsOf DEF Value

(* A byte has the bits of its value.                                        *)
LEMMA BitsOfValue ==
  ASSUME NEW x \in Octet
  PROVE  BitsOf(Value(x)) = x
<1>1. \A k \in 0..7 : k \in BitsOf(Value(x)) <=> k \in x
  <2>1. Value(x) \in 0..255
    BY ValueType
  <2>2. /\ 0 \in x <=> Value(x) % 2 = 1
        /\ 1 \in x <=> (Value(x) \div 2) % 2 = 1
        /\ 2 \in x <=> (Value(x) \div 4) % 2 = 1
        /\ 3 \in x <=> (Value(x) \div 8) % 2 = 1
    BY DEF Value
  <2>3. /\ 4 \in x <=> (Value(x) \div 16) % 2 = 1
        /\ 5 \in x <=> (Value(x) \div 32) % 2 = 1
        /\ 6 \in x <=> (Value(x) \div 64) % 2 = 1
        /\ 7 \in x <=> (Value(x) \div 128) % 2 = 1
    BY DEF Value
  <2> QED  BY <2>1, <2>2, <2>3, InBitsOf
<1> QED
  BY <1>1 DEF Octet, BitsOf

(* rsbox undoes sbox, entry by entry.                                       *)
LEMMA SboxInverse ==
  \A v \in 0..255 : sbox[v + 1] \in 0..255 /\ rsbox[sbox[v + 1] + 1] = v
  BY DEF sbox, rsbox

-----------------------------------------------------------------------------
(* Sums and products in the field of 256 elements.                          *)

(* Adding the same twice changes nothing, in either order.                  *)
LEMMA XorSelf ==
  ASSUME NEW x, NEW y
  PROVE  Xor(Xor(x, y), y) = x /\ Xor(x, y) = Xor(y, x)
  BY DEF Xor

(* Two sums are summed in any order.                                        *)
LEMMA XorExchange ==
  ASSUME NEW w, NEW x, NEW y, NEW z
  PROVE  Xor(Xor(w, x), Xor(y, z)) = Xor(Xor(w, y), Xor(x, z))
  BY DEF Xor

(* The sum of two bytes is one.                                             *)
LEMMA XorType ==
  ASSUME NEW x \in Octet, NEW y \in Octet PROVE Xor(x, y) \in Octet
  BY DEF Xor, Octet

(* Multiplication by x gives a byte.                                        *)
LEMMA xtimeType ==
  ASSUME NEW x PROVE xtime(x) \in Octet
  BY DEF xtime, Xor, Octet, BitsOf

(* Multiplication by x distributes over the sum.                            *)
LEMMA xtimeLinear ==
  ASSUME NEW x, NEW y PROVE xtime(Xor(x, y)) = Xor(xtime(x), xtime(y))
<1> DEFINE c == BitsOf(27)
           shift(u) == {n \in 1..7 : n - 1 \in u}
           fold(u) == IF 7 \in u THEN c ELSE {}
<1>1. shift(Xor(x, y)) = Xor(shift(x), shift(y))
  BY DEF Xor
<1>2. fold(Xor(x, y)) = Xor(fold(x), fold(y))
  <2> HIDE DEF c
  <2> QED BY DEF Xor
<1> HIDE DEF shift, fold
<1>3. \A u : xtime(u) = Xor(shift(u), fold(u))
  BY DEF xtime, shift, fold
<1> QED
  BY <1>1, <1>2, <1>3, XorExchange

(* The sum of the four rows of a column.                                    *)
Sum4(w, x, y, z) == Xor(Xor(w, x), Xor(y, z))

(* Summing four by four rows gives the sum of the columns.                  *)
LEMMA SumsTransposed ==
  ASSUME NEW a1, NEW a2, NEW a3, NEW a4, NEW b1, NEW b2, NEW b3, NEW b4,
         NEW c1, NEW c2, NEW c3, NEW c4, NEW d1, NEW d2, NEW d3, NEW d4
  PROVE  Sum4(Sum4(a1, a2, a3, a4), Sum4(b1, b2, b3, b4), Sum4(c1, c2, c3, c4), Sum4(d1, d2, d3, d4))
           = Sum4(Sum4(a1, b1, c1, d1), Sum4(a2, b2, c2, d2), Sum4(a3, b3, c3, d3), Sum4(a4, b4, c4, d4))
<1>1. ASSUME NEW u1, NEW u2, NEW u3, NEW u4, NEW v1, NEW v2, NEW v3, NEW v4
      PROVE  Xor(Sum4(u1, u2, u3, u4), Sum4(v1, v2, v3, v4))
               = Sum4(Xor(u1, v1), Xor(u2, v2), Xor(u3, v3), Xor(u4, v4))
  BY XorExchange DEF Sum4
<1>2. Xor(Sum4(a1, a2, a3, a4), Sum4(b1, b2, b3, b4))
        = Sum4(Xor(a1, b1), Xor(a2, b2), Xor(a3, b3), Xor(a4, b4))
  BY <1>1
<1>3. Xor(Sum4(c1, c2, c3, c4), Sum4(d1, d2, d3, d4))
        = Sum4(Xor(c1, d1), Xor(c2, d2), Xor(c3, d3), Xor(c4, d4))
  BY <1>1
<1>4. Xor(Sum4(Xor(a1, b1), Xor(a2, b2), Xor(a3, b3), Xor(a4, b4)),
          Sum4(Xor(c1, d1), Xor(c2, d2), Xor(c3, d3), Xor(c4, d4)))
        = Sum4(Xor(Xor(a1, b1), Xor(c1, d1)), Xor(Xor(a2, b2), Xor(c2, d2)),
               Xor(Xor(a3, b3), Xor(c3, d3)), Xor(Xor(a4, b4), Xor(c4, d4)))
  BY <1>1
<1>5. \A s, t, u, v : Sum4(s, t, u, v) = Xor(Xor(s, t), Xor(u, v))
  BY DEF Sum4
<1> QED
  BY <1>2, <1>3, <1>4, <1>5

(* The products by the four factors of InvMixColumns.                       *)
LEMMA MultiplyValues ==
  ASSUME NEW x
  PROVE  LET x2 == xtime(x)
             x4 == xtime(x2)
             x8 == xtime(x4)
         IN  /\ Multiply(x, 14) = Xor(x2, Xor(x4, x8))
             /\ Multiply(x, 13) = Xor(x, Xor(x4, x8))
             /\ Multiply(x, 11) = Xor(x, Xor(x2, x8))
             /\ Multiply(x, 9)  = Xor(x, x8)
<1>1. 0 \notin BitsOf(14) /\ 1 \in BitsOf(14) /\ 2 \in BitsOf(14) /\ 3 \in BitsOf(14) /\ 4 \notin BitsOf(14)
  BY InBitsOf
<1>2. 0 \in BitsOf(13) /\ 1 \notin BitsOf(13) /\ 2 \in BitsOf(13) /\ 3 \in BitsOf(13) /\ 4 \notin BitsOf(13)
  BY InBitsOf
<1>3. 0 \in BitsOf(11) /\ 1 \in BitsOf(11) /\ 2 \notin BitsOf(11) /\ 3 \in BitsOf(11) /\ 4 \notin BitsOf(11)
  BY InBitsOf
<1>4. 0 \in BitsOf(9) /\ 1 \notin BitsOf(9) /\ 2 \notin BitsOf(9) /\ 3 \in BitsOf(9) /\ 4 \notin BitsOf(9)
  BY InBitsOf
<1> DEFINE x2 == xtime(x)
           x4 == xtime(x2)
           x8 == xtime(x4)
<1>5. Multiply(x, 14) = Xor(Xor(Xor({}, x2), Xor(x4, x8)), {})
  BY <1>1 DEF Multiply
<1>6. Multiply(x, 13) = Xor(Xor(Xor(x, {}), Xor(x4, x8)), {})
  BY <1>2 DEF Multiply
<1>7. Multiply(x, 11) = Xor(Xor(Xor(x, x2), Xor({}, x8)), {})
  BY <1>3 DEF Multiply
<1>8. Multiply(x, 9) = Xor(Xor(Xor(x, {}), Xor({}, x8)), {})
  BY <1>4 DEF Multiply
<1> HIDE DEF x2, x4, x8
<1>9. /\ Multiply(x, 14) = Xor(x2, Xor(x4, x8))
      /\ Multiply(x, 13) = Xor(x, Xor(x4, x8))
      /\ Multiply(x, 11) = Xor(x, Xor(x2, x8))
      /\ Multiply(x, 9)  = Xor(x, x8)
  BY <1>5, <1>6, <1>7, <1>8 DEF Xor
<1> QED
  BY <1>9 DEF x2, x4, x8

(* The product by x + 1.                                                    *)
Triple(x) == Xor(xtime(x), x)

(* All the factors of the two mixings distribute.                           *)
LEMMA FactorsLinear ==
  ASSUME NEW x, NEW y
  PROVE  /\ Triple(Xor(x, y)) = Xor(Triple(x), Triple(y))
         /\ \A f \in {9, 11, 13, 14} : Multiply(Xor(x, y), f) = Xor(Multiply(x, f), Multiply(y, f))
<1> DEFINE x2 == xtime(x)
           x4 == xtime(x2)
           x8 == xtime(x4)
           y2 == xtime(y)
           y4 == xtime(y2)
           y8 == xtime(y4)
           z == Xor(x, y)
           z2 == xtime(z)
           z4 == xtime(z2)
           z8 == xtime(z4)
<1>1. z2 = Xor(x2, y2)
  BY xtimeLinear
<1>2. z4 = Xor(x4, y4)
  BY <1>1, xtimeLinear
<1>3. z8 = Xor(x8, y8)
  BY <1>2, xtimeLinear
<1>4. /\ Multiply(z, 14) = Xor(z2, Xor(z4, z8))
      /\ Multiply(z, 13) = Xor(z, Xor(z4, z8))
      /\ Multiply(z, 11) = Xor(z, Xor(z2, z8))
      /\ Multiply(z, 9)  = Xor(z, z8)
  BY MultiplyValues
<1>5. /\ Multiply(x, 14) = Xor(x2, Xor(x4, x8))
      /\ Multiply(x, 13) = Xor(x, Xor(x4, x8))
      /\ Multiply(x, 11) = Xor(x, Xor(x2, x8))
      /\ Multiply(x, 9)  = Xor(x, x8)
  BY MultiplyValues
<1>6. /\ Multiply(y, 14) = Xor(y2, Xor(y4, y8))
      /\ Multiply(y, 13) = Xor(y, Xor(y4, y8))
      /\ Multiply(y, 11) = Xor(y, Xor(y2, y8))
      /\ Multiply(y, 9)  = Xor(y, y8)
  BY MultiplyValues
<1>7. z = Xor(x, y) /\ Triple(z) = Xor(z2, z) /\ Triple(x) = Xor(x2, x) /\ Triple(y) = Xor(y2, y)
  BY DEF Triple
<1> HIDE DEF x2, x4, x8, y2, y4, y8, z, z2, z4, z8
<1>8. Triple(z) = Xor(Triple(x), Triple(y))
  BY <1>1, <1>7, XorExchange
<1>9. \A f \in {9, 11, 13, 14} : Multiply(z, f) = Xor(Multiply(x, f), Multiply(y, f))
  <2>1. Multiply(z, 9) = Xor(Multiply(x, 9), Multiply(y, 9))
    BY <1>3, <1>4, <1>5, <1>6, <1>7, XorExchange
  <2>2. Multiply(z, 11) = Xor(Multiply(x, 11), Multiply(y, 11))
    BY <1>1, <1>3, <1>4, <1>5, <1>6, <1>7, XorExchange
  <2>3. Xor(z4, z8) = Xor(Xor(x4, x8), Xor(y4, y8))
    BY <1>2, <1>3, XorExchange
  <2>4. Multiply(z, 13) = Xor(Multiply(x, 13), Multiply(y, 13))
    BY <2>3, <1>4, <1>5, <1>6, <1>7, XorExchange
  <2>5. Multiply(z, 14) = Xor(Multiply(x, 14), Multiply(y, 14))
    BY <2>3, <1>1, <1>4, <1>5, <1>6, XorExchange
  <2> QED  BY <2>1, <2>2, <2>4, <2>5
<1> QED
  BY <1>8, <1>9 DEF z

(* What one row of a column is made from by the two mixings.                *)
Mixing(a, b, c, d)    == Sum4(xtime(a), Triple(b), c, d)
InvMixing(a, b, c, d) == Sum4(Multiply(a, 14), Multiply(b, 11), Multiply(c, 13), Multiply(d, 9))

(* Every factor distributes over the sum of four.                           *)
LEMMA SumOfSums ==
  ASSUME NEW a, NEW b, NEW c, NEW d
  PROVE  /\ xtime(Sum4(a, b, c, d)) = Sum4(xtime(a), xtime(b), xtime(c), xtime(d))
         /\ Triple(Sum4(a, b, c, d)) = Sum4(Triple(a), Triple(b), Triple(c), Triple(d))
         /\ \A f \in {9, 11, 13, 14} :
              Multiply(Sum4(a, b, c, d), f)
                = Sum4(Multiply(a, f), Multiply(b, f), Multiply(c, f), Multiply(d, f))
  BY xtimeLinear, FactorsLinear DEF Sum4

(* The products of the factors of the two mixings, along a column: they sum *)
(* to one where the rows are the same and to nothing where they are not.    *)
LEMMA Products ==
  ASSUME NEW a
  PROVE  /\ Sum4(Multiply(xtime(a), 14), Multiply(a, 11), Multiply(a, 13), Multiply(Triple(a), 9)) = a
         /\ Sum4(Multiply(Triple(a), 14), Multiply(xtime(a), 11), Multiply(a, 13), Multiply(a, 9)) = {}
         /\ Sum4(Multiply(a, 14), Multiply(Triple(a), 11), Multiply(xtime(a), 13), Multiply(a, 9)) = {}
         /\ Sum4(Multiply(a, 14), Multiply(a, 11), Multiply(Triple(a), 13), Multiply(xtime(a), 9)) = {}
<1> DEFINE a2 == xtime(a)
           a4 == xtime(a2)
           a8 == xtime(a4)
           a16 == xtime(a8)
           t == Triple(a)
<1>1. xtime(t) = Xor(a4, a2) /\ xtime(Xor(a4, a2)) = Xor(a8, a4) /\ xtime(Xor(a8, a4)) = Xor(a16, a8)
  BY xtimeLinear DEF Triple
<1>2. /\ Multiply(a, 14) = Xor(a2, Xor(a4, a8))
      /\ Multiply(a, 13) = Xor(a, Xor(a4, a8))
      /\ Multiply(a, 11) = Xor(a, Xor(a2, a8))
      /\ Multiply(a, 9)  = Xor(a, a8)
  BY MultiplyValues
<1>3. /\ Multiply(a2, 14) = Xor(a4, Xor(a8, a16))
      /\ Multiply(a2, 13) = Xor(a2, Xor(a8, a16))
      /\ Multiply(a2, 11) = Xor(a2, Xor(a4, a16))
      /\ Multiply(a2, 9)  = Xor(a2, a16)
  BY MultiplyValues
<1>4. /\ Multiply(t, 14) = Xor(Xor(a4, a2), Xor(Xor(a8, a4), Xor(a16, a8)))
      /\ Multiply(t, 13) = Xor(t, Xor(Xor(a8, a4), Xor(a16, a8)))
      /\ Multiply(t, 11) = Xor(t, Xor(Xor(a4, a2), Xor(a16, a8)))
      /\ Multiply(t, 9)  = Xor(t, Xor(a16, a8))
  <2> HIDE DEF t
  <2> QED  BY <1>1, MultiplyValues
<1>5. t = Xor(a2, a)
  BY DEF Triple
<1> HIDE DEF a2, a4, a8, a16, t
<1>6. Sum4(Multiply(a2, 14), Multiply(a, 11), Multiply(a, 13), Multiply(t, 9)) = a
  BY <1>2, <1>3, <1>4, <1>5 DEF Xor, Sum4
<1>7. Sum4(Multiply(t, 14), Multiply(a2, 11), Multiply(a, 13), Multiply(a, 9)) = {}
  BY <1>2, <1>3, <1>4, <1>5 DEF Xor, Sum4
<1>8. Sum4(Multiply(a, 14), Multiply(t, 11), Multiply(a2, 13), Multiply(a, 9)) = {}
  BY <1>2, <1>3, <1>4, <1>5 DEF Xor, Sum4
<1>9. Sum4(Multiply(a, 14), Multiply(a, 11), Multiply(t, 13), Multiply(a2, 9)) = {}
  BY <1>2, <1>3, <1>4, <1>5 DEF Xor, Sum4
<1> QED
  BY <1>6, <1>7, <1>8, <1>9 DEF a2, t

(* The sum of a column does not depend on the row it starts with.           *)
LEMMA SumRotated ==
  ASSUME NEW a, NEW b, NEW c, NEW d
  PROVE  Sum4(b, c, d, a) = Sum4(a, b, c, d)
  BY DEF Sum4, Xor

(* Nothing is added by empty summands.                                      *)
LEMMA SumOfOne ==
  ASSUME NEW a
  PROVE  Sum4(a, {}, {}, {}) = a
  BY DEF Sum4, Xor

(* The same products, with the factors of MixColumns applied last.          *)
LEMMA ProductsBack ==
  ASSUME NEW a
  PROVE  /\ Sum4(xtime(Multiply(a, 14)), Triple(Multiply(a, 9)), Multiply(a, 13), Multiply(a, 11)) = a
         /\ Sum4(xtime(Multiply(a, 11)), Triple(Multiply(a, 14)), Multiply(a, 9), Multiply(a, 13)) = {}
         /\ Sum4(xtime(Multiply(a, 13)), Triple(Multiply(a, 11)), Multiply(a, 14), Multiply(a, 9)) = {}
         /\ Sum4(xtime(Multiply(a, 9)), Triple(Multiply(a, 13)), Multiply(a, 11), Multiply(a, 14)) = {}
<1> DEFINE a2 == xtime(a)
           a4 == xtime(a2)
           a8 == xtime(a4)
           a16 == xtime(a8)
<1>1. /\ xtime(Xor(a4, a8)) = Xor(a8, a16) /\ xtime(Xor(a2, a8)) = Xor(a4, a16)
      /\ xtime(Xor(a, a8)) = Xor(a2, a16)
  BY xtimeLinear
<1>2. /\ Multiply(a, 14) = Xor(a2, Xor(a4, a8))
      /\ Multiply(a, 13) = Xor(a, Xor(a4, a8))
      /\ Multiply(a, 11) = Xor(a, Xor(a2, a8))
      /\ Multiply(a, 9)  = Xor(a, a8)
  BY MultiplyValues
<1>3. /\ xtime(Multiply(a, 14)) = Xor(a4, Xor(a8, a16))
      /\ xtime(Multiply(a, 13)) = Xor(a2, Xor(a8, a16))
      /\ xtime(Multiply(a, 11)) = Xor(a2, Xor(a4, a16))
      /\ xtime(Multiply(a, 9))  = Xor(a2, a16)
  BY <1>1, <1>2, xtimeLinear
<1>4. \A u : Triple(u) = Xor(xtime(u), u)
  BY DEF Triple
<1> HIDE DEF a2, a4, a8, a16
<1>6. Sum4(xtime(Multiply(a, 14)), Triple(Multiply(a, 9)), Multiply(a, 13), Multiply(a, 11)) = a
  BY <1>2, <1>3, <1>4 DEF Xor, Sum4
<1>7. Sum4(xtime(Multiply(a, 11)), Triple(Multiply(a, 14)), Multiply(a, 9), Multiply(a, 13)) = {}
  BY <1>2, <1>3, <1>4 DEF Xor, Sum4
<1>8. Sum4(xtime(Multiply(a, 13)), Triple(Multiply(a, 11)), Multiply(a, 14), Multiply(a, 9)) = {}
  BY <1>2, <1>3, <1>4 DEF Xor, Sum4
<1>9. Sum4(xtime(Multiply(a, 9)), Triple(Multiply(a, 13)), Multiply(a, 11), Multiply(a, 14)) = {}
  BY <1>2, <1>3, <1>4 DEF Xor, Sum4
<1> QED
  BY <1>6, <1>7, <1>8, <1>9

(* Unmixing a column that was mixed gives back its first row; the others    *)
(* follow by rotating it.                                                   *)
LEMMA UnmixMixed ==
  ASSUME NEW a, NEW b, NEW c, NEW d
  PROVE  InvMixing(Mixing(a, b, c, d), Mixing(b, c, d, a), Mixing(c, d, a, b), Mixing(d, a, b, c)) = a
<1>1. /\ Mixing(a, b, c, d) = Sum4(xtime(a), Triple(b), c, d)
      /\ Mixing(b, c, d, a) = Sum4(a, xtime(b), Triple(c), d)
      /\ Mixing(c, d, a, b) = Sum4(a, b, xtime(c), Triple(d))
      /\ Mixing(d, a, b, c) = Sum4(Triple(a), b, c, xtime(d))
  BY SumRotated DEF Mixing
<1>2. /\ Multiply(Mixing(a, b, c, d), 14)
           = Sum4(Multiply(xtime(a), 14), Multiply(Triple(b), 14), Multiply(c, 14), Multiply(d, 14))
      /\ Multiply(Mixing(b, c, d, a), 11)
           = Sum4(Multiply(a, 11), Multiply(xtime(b), 11), Multiply(Triple(c), 11), Multiply(d, 11))
      /\ Multiply(Mixing(c, d, a, b), 13)
           = Sum4(Multiply(a, 13), Multiply(b, 13), Multiply(xtime(c), 13), Multiply(Triple(d), 13))
      /\ Multiply(Mixing(d, a, b, c), 9)
           = Sum4(Multiply(Triple(a), 9), Multiply(b, 9), Multiply(c, 9), Multiply(xtime(d), 9))
  BY <1>1, SumOfSums
<1>3. InvMixing(Mixing(a, b, c, d), Mixing(b, c, d, a), Mixing(c, d, a, b), Mixing(d, a, b, c))
        = Sum4(Sum4(Multiply(xtime(a), 14), Multiply(Triple(b), 14), Multiply(c, 14), Multiply(d, 14)),
               Sum4(Multiply(a, 11), Multiply(xtime(b), 11), Multiply(Triple(c), 11), Multiply(d, 11)),
               Sum4(Multiply(a, 13), Multiply(b, 13), Multiply(xtime(c), 13), Multiply(Triple(d), 13)),
               Sum4(Multiply(Triple(a), 9), Multiply(b, 9), Multiply(c, 9), Multiply(xtime(d), 9)))
  BY <1>2, Zenon DEF InvMixing
<1>4. @ = Sum4(Sum4(Multiply(xtime(a), 14), Multiply(a, 11), Multiply(a, 13), Multiply(Triple(a), 9)),
               Sum4(Multiply(Triple(b), 14), Multiply(xtime(b), 11), Multiply(b, 13), Multiply(b, 9)),
               Sum4(Multiply(c, 14), Multiply(Triple(c), 11), Multiply(xtime(c), 13), Multiply(c, 9)),
               Sum4(Multiply(d, 14), Multiply(d, 11), Multiply(Triple(d), 13), Multiply(xtime(d), 9)))
  BY SumsTransposed
<1>5. @ = Sum4(a, {}, {}, {})
  <2>1. Sum4(Multiply(xtime(a), 14), Multiply(a, 11), Multiply(a, 13), Multiply(Triple(a), 9)) = a
    BY Products
  <2>2. Sum4(Multiply(Triple(b), 14), Multiply(xtime(b), 11), Multiply(b, 13), Multiply(b, 9)) = {}
    BY Products
  <2>3. Sum4(Multiply(c, 14), Multiply(Triple(c), 11), Multiply(xtime(c), 13), Multiply(c, 9)) = {}
    BY Products
  <2>4. Sum4(Multiply(d, 14), Multiply(d, 11), Multiply(Triple(d), 13), Multiply(xtime(d), 9)) = {}
    BY Products
  <2> QED  BY <2>1, <2>2, <2>3, <2>4, Zenon
<1> QED
  BY <1>3, <1>4, <1>5, SumOfOne

(* Mixing a column that was unmixed gives it back as well.                  *)
LEMMA MixUnmixed ==
  ASSUME NEW a, NEW b, NEW c, NEW d
  PROVE  Mixing(InvMixing(a, b, c, d), InvMixing(b, c, d, a),
                InvMixing(c, d, a, b), InvMixing(d, a, b, c)) = a
<1>1. /\ InvMixing(a, b, c, d) = Sum4(Multiply(a, 14), Multiply(b, 11), Multiply(c, 13), Multiply(d, 9))
      /\ InvMixing(b, c, d, a) = Sum4(Multiply(a, 9), Multiply(b, 14), Multiply(c, 11), Multiply(d, 13))
      /\ InvMixing(c, d, a, b) = Sum4(Multiply(a, 13), Multiply(b, 9), Multiply(c, 14), Multiply(d, 11))
      /\ InvMixing(d, a, b, c) = Sum4(Multiply(a, 11), Multiply(b, 13), Multiply(c, 9), Multiply(d, 14))
  BY SumRotated DEF InvMixing
<1>2. /\ xtime(InvMixing(a, b, c, d))
           = Sum4(xtime(Multiply(a, 14)), xtime(Multiply(b, 11)), xtime(Multiply(c, 13)), xtime(Multiply(d, 9)))
      /\ Triple(InvMixing(b, c, d, a))
           = Sum4(Triple(Multiply(a, 9)), Triple(Multiply(b, 14)), Triple(Multiply(c, 11)), Triple(Multiply(d, 13)))
  BY <1>1, SumOfSums
<1>3. Mixing(InvMixing(a, b, c, d), InvMixing(b, c, d, a), InvMixing(c, d, a, b), InvMixing(d, a, b, c))
        = Sum4(Sum4(xtime(Multiply(a, 14)), xtime(Multiply(b, 11)), xtime(Multiply(c, 13)), xtime(Multiply(d, 9))),
               Sum4(Triple(Multiply(a, 9)), Triple(Multiply(b, 14)), Triple(Multiply(c, 11)), Triple(Multiply(d, 13))),
               Sum4(Multiply(a, 13), Multiply(b, 9), Multiply(c, 14), Multiply(d, 11)),
               Sum4(Multiply(a, 11), Multiply(b, 13), Multiply(c, 9), Multiply(d, 14)))
  BY <1>1, <1>2, Zenon DEF Mixing
<1>4. @ = Sum4(Sum4(xtime(Multiply(a, 14)), Triple(Multiply(a, 9)), Multiply(a, 13), Multiply(a, 11)),
               Sum4(xtime(Multiply(b, 11)), Triple(Multiply(b, 14)), Multiply(b, 9), Multiply(b, 13)),
               Sum4(xtime(Multiply(c, 13)), Triple(Multiply(c, 11)), Multiply(c, 14), Multiply(c, 9)),
               Sum4(xtime(Multiply(d, 9)), Triple(Multiply(d, 13)), Multiply(d, 11), Multiply(d, 14)))
  BY SumsTransposed
<1>5. @ = Sum4(a, {}, {}, {})
  <2>1. Sum4(xtime(Multiply(a, 14)), Triple(Multiply(a, 9)), Multiply(a, 13), Multiply(a, 11)) = a
    BY ProductsBack
  <2>2. Sum4(xtime(Multiply(b, 11)), Triple(Multiply(b, 14)), Multiply(b, 9), Multiply(b, 13)) = {}
    BY ProductsBack
  <2>3. Sum4(xtime(Multiply(c, 13)), Triple(Multiply(c, 11)), Multiply(c, 14), Multiply(c, 9)) = {}
    BY ProductsBack
  <2>4. Sum4(xtime(Multiply(d, 9)), Triple(Multiply(d, 13)), Multiply(d, 11), Multiply(d, 14)) = {}
    BY ProductsBack
  <2> QED  BY <2>1, <2>2, <2>3, <2>4, Zenon
<1> QED
  BY <1>3, <1>4, <1>5, SumOfOne

-----------------------------------------------------------------------------
(* The steps of a round undo one another.                                   *)
(* What the steps of a round work on.                                       *)
Block == [0..15 -> Octet]

(* The code's way to mix a row, with the sum of the column.                 *)
LEMMA MixRow ==
  ASSUME NEW a, NEW b, NEW c, NEW d
  PROVE  Xor(a, Xor(xtime(Xor(a, b)), Sum4(a, b, c, d))) = Mixing(a, b, c, d)
<1>1. xtime(Xor(a, b)) = Xor(xtime(a), xtime(b))
  BY xtimeLinear
<1> DEFINE a2 == xtime(a)
           b2 == xtime(b)
<1> HIDE DEF a2, b2
<1>2. Xor(a, Xor(Xor(a2, b2), Sum4(a, b, c, d))) = Sum4(a2, Xor(b2, b), c, d)
  BY DEF Xor, Sum4
<1> QED
  BY <1>1, <1>2 DEF Mixing, Triple, a2, b2

(* The columns start at four bytes and have four rows each.                 *)
LEMMA ColumnArithmetic ==
  ASSUME NEW c \in 0..3, NEW j \in 0..3
  PROVE  4 * c + j \in 0..15 /\ (4 * c + j) \div 4 = c /\ (4 * c + j) % 4 = j
  OBVIOUS

(* Every byte of a block is in a row of a column.                           *)
LEMMA ColumnsOfBlock ==
  ASSUME NEW n \in 0..15
  PROVE  n \div 4 \in 0..3 /\ n % 4 \in 0..3 /\ n = 4 * (n \div 4) + (n % 4)
  OBVIOUS

(* MixColumns mixes each column, row after row.                             *)
LEMMA MixedColumn ==
  ASSUME NEW s, NEW c \in 0..3
  PROVE  LET a0 == s[4 * c]
             a1 == s[4 * c + 1]
             a2 == s[4 * c + 2]
             a3 == s[4 * c + 3]
         IN  /\ MixColumns(s)[4 * c]     = Mixing(a0, a1, a2, a3)
             /\ MixColumns(s)[4 * c + 1] = Mixing(a1, a2, a3, a0)
             /\ MixColumns(s)[4 * c + 2] = Mixing(a2, a3, a0, a1)
             /\ MixColumns(s)[4 * c + 3] = Mixing(a3, a0, a1, a2)
<1> DEFINE at(j) == s[4 * c + j]
           Row(j, next) == Xor(at(j), Xor(xtime(Xor(at(j), next)), Sum4(at(0), at(1), at(2), at(3))))
<1>1. /\ MixColumns(s)[4 * c + 0] = Row(0, at(1))
      /\ MixColumns(s)[4 * c + 1] = Row(1, at(2))
      /\ MixColumns(s)[4 * c + 2] = Row(2, at(3))
      /\ MixColumns(s)[4 * c + 3] = Row(3, at(0))
  <2>1. ASSUME NEW j \in 0..3
        PROVE  MixColumns(s)[4 * c + j] = Row(j, at((j + 1) % 4))
    BY ColumnArithmetic, 0 % 4 = 0, 1 % 4 = 1, 2 % 4 = 2, 3 % 4 = 3 DEF MixColumns, InColumn, Sum4
  <2>2. (0 + 1) % 4 = 1 /\ (1 + 1) % 4 = 2 /\ (2 + 1) % 4 = 3 /\ (3 + 1) % 4 = 0
    OBVIOUS
  <2> HIDE DEF Row, at
  <2> QED  BY <2>1, <2>2
<1>2. at(0) = s[4 * c] /\ MixColumns(s)[4 * c + 0] = MixColumns(s)[4 * c]
  OBVIOUS
<1>3. \A a, b, d, e : Sum4(b, d, e, a) = Sum4(a, b, d, e)
  BY SumRotated
<1>4. /\ Row(0, at(1)) = Mixing(at(0), at(1), at(2), at(3))
      /\ Row(1, at(2)) = Mixing(at(1), at(2), at(3), at(0))
      /\ Row(2, at(3)) = Mixing(at(2), at(3), at(0), at(1))
      /\ Row(3, at(0)) = Mixing(at(3), at(0), at(1), at(2))
  <2> HIDE DEF at
  <2>1. /\ Sum4(at(0), at(1), at(2), at(3)) = Sum4(at(1), at(2), at(3), at(0))
        /\ Sum4(at(0), at(1), at(2), at(3)) = Sum4(at(2), at(3), at(0), at(1))
        /\ Sum4(at(0), at(1), at(2), at(3)) = Sum4(at(3), at(0), at(1), at(2))
    BY <1>3
  <2> QED  BY <2>1, MixRow
<1> HIDE DEF Row
<1> QED
  BY <1>1, <1>2, <1>4

(* InvMixColumns unmixes each column, row after row.                        *)
LEMMA UnmixedColumn ==
  ASSUME NEW s, NEW c \in 0..3
  PROVE  LET a0 == s[4 * c]
             a1 == s[4 * c + 1]
             a2 == s[4 * c + 2]
             a3 == s[4 * c + 3]
         IN  /\ InvMixColumns(s)[4 * c]     = InvMixing(a0, a1, a2, a3)
             /\ InvMixColumns(s)[4 * c + 1] = InvMixing(a1, a2, a3, a0)
             /\ InvMixColumns(s)[4 * c + 2] = InvMixing(a2, a3, a0, a1)
             /\ InvMixColumns(s)[4 * c + 3] = InvMixing(a3, a0, a1, a2)
<1> DEFINE at(j) == s[4 * c + j]
<1>1. ASSUME NEW j \in 0..3
      PROVE  InvMixColumns(s)[4 * c + j]
               = InvMixing(at((j + 0) % 4), at((j + 1) % 4), at((j + 2) % 4), at((j + 3) % 4))
  BY ColumnArithmetic DEF InvMixColumns, InColumn, InvMixing, Sum4
<1>2. /\ (0 + 0) % 4 = 0 /\ (0 + 1) % 4 = 1 /\ (0 + 2) % 4 = 2 /\ (0 + 3) % 4 = 3
      /\ (1 + 0) % 4 = 1 /\ (1 + 1) % 4 = 2 /\ (1 + 2) % 4 = 3 /\ (1 + 3) % 4 = 0
      /\ (2 + 0) % 4 = 2 /\ (2 + 1) % 4 = 3 /\ (2 + 2) % 4 = 0 /\ (2 + 3) % 4 = 1
      /\ (3 + 0) % 4 = 3 /\ (3 + 1) % 4 = 0 /\ (3 + 2) % 4 = 1 /\ (3 + 3) % 4 = 2
  OBVIOUS
<1>3. at(0) = s[4 * c] /\ InvMixColumns(s)[4 * c + 0] = InvMixColumns(s)[4 * c]
  OBVIOUS
<1>4. /\ InvMixColumns(s)[4 * c + 0] = InvMixing(at(0), at(1), at(2), at(3))
      /\ InvMixColumns(s)[4 * c + 1] = InvMixing(at(1), at(2), at(3), at(0))
      /\ InvMixColumns(s)[4 * c + 2] = InvMixing(at(2), at(3), at(0), at(1))
      /\ InvMixColumns(s)[4 * c + 3] = InvMixing(at(3), at(0), at(1), at(2))
  <2> HIDE DEF at
  <2> QED  BY <1>1, <1>2
<1> QED
  BY <1>3, <1>4

(* Both make blocks of blocks.                                              *)
LEMMA MixTypes ==
  ASSUME NEW s \in Block
  PROVE  MixColumns(s) \in Block /\ InvMixColumns(s) \in Block
<1>1. ASSUME NEW n \in 0..15, NEW i \in Int
      PROVE  InColumn(s, n, i) \in Octet
  <2>1. 4 * (n \div 4) + (i % 4) \in 0..15
    OBVIOUS
  <2> QED  BY <2>1 DEF InColumn, Block
<1>2. ASSUME NEW n \in 0..15
      PROVE  MixColumns(s)[n] \in Octet
  <2>1. /\ InColumn(s, n, 0) \in Octet /\ InColumn(s, n, 1) \in Octet
        /\ InColumn(s, n, 2) \in Octet /\ InColumn(s, n, 3) \in Octet
    BY <1>1
  <2>2. s[n] \in Octet
    BY DEF Block
  <2> QED  BY <2>1, <2>2, XorType, xtimeType DEF MixColumns
<1>3. ASSUME NEW x \in Octet, NEW f
      PROVE  Multiply(x, f) \in Octet
  <2>1. {} \in Octet
    BY DEF Octet
  <2> QED  BY <2>1, XorType, xtimeType DEF Multiply
<1>4. ASSUME NEW n \in 0..15
      PROVE  InvMixColumns(s)[n] \in Octet
  <2>1. /\ InColumn(s, n, (n % 4) + 0) \in Octet /\ InColumn(s, n, (n % 4) + 1) \in Octet
        /\ InColumn(s, n, (n % 4) + 2) \in Octet /\ InColumn(s, n, (n % 4) + 3) \in Octet
    BY <1>1
  <2> QED  BY <2>1, <1>3, XorType DEF InvMixColumns
<1> QED
  BY <1>2, <1>4 DEF Block, MixColumns, InvMixColumns

(* MixColumns and InvMixColumns undo one another.                           *)
LEMMA ColumnsUnmixed ==
  ASSUME NEW s \in Block
  PROVE  InvMixColumns(MixColumns(s)) = s /\ MixColumns(InvMixColumns(s)) = s
<1>1. ASSUME NEW c \in 0..3
      PROVE  LET t == InvMixColumns(MixColumns(s))
             IN  /\ t[4 * c] = s[4 * c] /\ t[4 * c + 1] = s[4 * c + 1]
                 /\ t[4 * c + 2] = s[4 * c + 2] /\ t[4 * c + 3] = s[4 * c + 3]
  <2> DEFINE u == MixColumns(s)
             t == InvMixColumns(u)
  <2>1. /\ u[4 * c]     = Mixing(s[4 * c], s[4 * c + 1], s[4 * c + 2], s[4 * c + 3])
        /\ u[4 * c + 1] = Mixing(s[4 * c + 1], s[4 * c + 2], s[4 * c + 3], s[4 * c])
        /\ u[4 * c + 2] = Mixing(s[4 * c + 2], s[4 * c + 3], s[4 * c], s[4 * c + 1])
        /\ u[4 * c + 3] = Mixing(s[4 * c + 3], s[4 * c], s[4 * c + 1], s[4 * c + 2])
    BY MixedColumn
  <2> HIDE DEF u
  <2>2. /\ t[4 * c]     = InvMixing(u[4 * c], u[4 * c + 1], u[4 * c + 2], u[4 * c + 3])
        /\ t[4 * c + 1] = InvMixing(u[4 * c + 1], u[4 * c + 2], u[4 * c + 3], u[4 * c])
        /\ t[4 * c + 2] = InvMixing(u[4 * c + 2], u[4 * c + 3], u[4 * c], u[4 * c + 1])
        /\ t[4 * c + 3] = InvMixing(u[4 * c + 3], u[4 * c], u[4 * c + 1], u[4 * c + 2])
    BY UnmixedColumn
  <2> HIDE DEF t
  <2>3. /\ t[4 * c] = s[4 * c] /\ t[4 * c + 1] = s[4 * c + 1]
        /\ t[4 * c + 2] = s[4 * c + 2] /\ t[4 * c + 3] = s[4 * c + 3]
    BY <2>1, <2>2, UnmixMixed
  <2> QED  BY <2>3 DEF t, u
<1>2. ASSUME NEW c \in 0..3
      PROVE  LET t == MixColumns(InvMixColumns(s))
             IN  /\ t[4 * c] = s[4 * c] /\ t[4 * c + 1] = s[4 * c + 1]
                 /\ t[4 * c + 2] = s[4 * c + 2] /\ t[4 * c + 3] = s[4 * c + 3]
  <2> DEFINE u == InvMixColumns(s)
             t == MixColumns(u)
  <2>1. /\ u[4 * c]     = InvMixing(s[4 * c], s[4 * c + 1], s[4 * c + 2], s[4 * c + 3])
        /\ u[4 * c + 1] = InvMixing(s[4 * c + 1], s[4 * c + 2], s[4 * c + 3], s[4 * c])
        /\ u[4 * c + 2] = InvMixing(s[4 * c + 2], s[4 * c + 3], s[4 * c], s[4 * c + 1])
        /\ u[4 * c + 3] = InvMixing(s[4 * c + 3], s[4 * c], s[4 * c + 1], s[4 * c + 2])
    BY UnmixedColumn
  <2> HIDE DEF u
  <2>2. /\ t[4 * c]     = Mixing(u[4 * c], u[4 * c + 1], u[4 * c + 2], u[4 * c + 3])
        /\ t[4 * c + 1] = Mixing(u[4 * c + 1], u[4 * c + 2], u[4 * c + 3], u[4 * c])
        /\ t[4 * c + 2] = Mixing(u[4 * c + 2], u[4 * c + 3], u[4 * c], u[4 * c + 1])
        /\ t[4 * c + 3] = Mixing(u[4 * c + 3], u[4 * c], u[4 * c + 1], u[4 * c + 2])
    BY MixedColumn
  <2> HIDE DEF t
  <2>3. /\ t[4 * c] = s[4 * c] /\ t[4 * c + 1] = s[4 * c + 1]
        /\ t[4 * c + 2] = s[4 * c + 2] /\ t[4 * c + 3] = s[4 * c + 3]
    BY <2>1, <2>2, MixUnmixed
  <2> QED  BY <2>3 DEF t, u
<1>3. ASSUME NEW t \in Block,
             \A c \in 0..3 : /\ t[4 * c] = s[4 * c] /\ t[4 * c + 1] = s[4 * c + 1]
                             /\ t[4 * c + 2] = s[4 * c + 2] /\ t[4 * c + 3] = s[4 * c + 3]
      PROVE  t = s
  <2>1. ASSUME NEW n \in 0..15 PROVE t[n] = s[n]
    BY <1>3, ColumnsOfBlock
  <2> QED  BY <2>1 DEF Block
<1>4. MixColumns(s) \in Block /\ InvMixColumns(s) \in Block
  BY MixTypes
<1> QED
  BY <1>1, <1>2, <1>3, <1>4, MixTypes

(* sbox undoes rsbox, entry by entry.                                       *)
LEMMA SboxInverseBack ==
  \A v \in 0..255 : rsbox[v + 1] \in 0..255 /\ sbox[rsbox[v + 1] + 1] = v
  BY DEF sbox, rsbox

(* Looking a byte up in one table and then in the other gives it back.      *)
LEMMA SboxUndone ==
  ASSUME NEW x \in Octet
  PROVE  /\ getSBoxValue(x) \in Octet /\ getSBoxInvert(x) \in Octet
         /\ getSBoxInvert(getSBoxValue(x)) = x
         /\ getSBoxValue(getSBoxInvert(x)) = x
<1> DEFINE v == Value(x)
<1>1. v \in 0..255
  BY ValueType
<1>2. BitsOf(v) = x
  BY BitsOfValue
<1> HIDE DEF v
<1>3. sbox[v + 1] \in 0..255 /\ rsbox[sbox[v + 1] + 1] = v
  BY <1>1, SboxInverse
<1>4. rsbox[v + 1] \in 0..255 /\ sbox[rsbox[v + 1] + 1] = v
  BY <1>1, SboxInverseBack
<1>5. Value(BitsOf(sbox[v + 1])) = sbox[v + 1] /\ Value(BitsOf(rsbox[v + 1])) = rsbox[v + 1]
  BY <1>3, <1>4, ValueOfBits
<1>6. getSBoxValue(x) = BitsOf(sbox[v + 1]) /\ getSBoxInvert(x) = BitsOf(rsbox[v + 1])
  BY DEF getSBoxValue, getSBoxInvert, v
<1>7. getSBoxInvert(getSBoxValue(x)) = BitsOf(rsbox[sbox[v + 1] + 1])
  BY <1>5, <1>6 DEF getSBoxInvert
<1>8. getSBoxValue(getSBoxInvert(x)) = BitsOf(sbox[rsbox[v + 1] + 1])
  BY <1>5, <1>6 DEF getSBoxValue
<1> QED
  BY <1>2, <1>3, <1>4, <1>6, <1>7, <1>8, BitsOfType, Zenon

(* SubBytes and InvSubBytes undo one another.                               *)
LEMMA BytesUndone ==
  ASSUME NEW s \in Block
  PROVE  /\ SubBytes(s) \in Block /\ InvSubBytes(s) \in Block
         /\ InvSubBytes(SubBytes(s)) = s /\ SubBytes(InvSubBytes(s)) = s
<1>1. \A n \in 0..15 : s[n] \in Octet
  BY DEF Block
<1>2. SubBytes(s) \in Block /\ InvSubBytes(s) \in Block
  BY <1>1, SboxUndone DEF SubBytes, InvSubBytes, Block
<1>3. \A n \in 0..15 : InvSubBytes(SubBytes(s))[n] = s[n] /\ SubBytes(InvSubBytes(s))[n] = s[n]
  BY <1>1, SboxUndone DEF SubBytes, InvSubBytes
<1>4. InvSubBytes(SubBytes(s)) \in [0..15 -> Octet] /\ SubBytes(InvSubBytes(s)) \in [0..15 -> Octet]
  BY <1>2, SboxUndone DEF SubBytes, InvSubBytes, Block
<1> QED
  BY <1>2, <1>3, <1>4 DEF Block

(* ShiftRows and InvShiftRows undo one another.                             *)
LEMMA RowsUndone ==
  ASSUME NEW s \in Block
  PROVE  /\ ShiftRows(s) \in Block /\ InvShiftRows(s) \in Block
         /\ InvShiftRows(ShiftRows(s)) = s /\ ShiftRows(InvShiftRows(s)) = s
<1>1. s[0] \in Octet /\ s[1] \in Octet /\ s[2] \in Octet /\ s[3] \in Octet /\ s[4] \in Octet
      /\ s[5] \in Octet /\ s[6] \in Octet /\ s[7] \in Octet /\ s[8] \in Octet /\ s[9] \in Octet
      /\ s[10] \in Octet /\ s[11] \in Octet /\ s[12] \in Octet /\ s[13] \in Octet
      /\ s[14] \in Octet /\ s[15] \in Octet
  BY DEF Block
<1>2. ASSUME NEW t
      PROVE  /\ ShiftRows(t)[0] = t[0]   /\ ShiftRows(t)[1] = t[5]
             /\ ShiftRows(t)[2] = t[10]  /\ ShiftRows(t)[3] = t[15]
             /\ ShiftRows(t)[4] = t[4]   /\ ShiftRows(t)[5] = t[9]
             /\ ShiftRows(t)[6] = t[14]  /\ ShiftRows(t)[7] = t[3]
             /\ ShiftRows(t)[8] = t[8]   /\ ShiftRows(t)[9] = t[13]
             /\ ShiftRows(t)[10] = t[2]  /\ ShiftRows(t)[11] = t[7]
             /\ ShiftRows(t)[12] = t[12] /\ ShiftRows(t)[13] = t[1]
             /\ ShiftRows(t)[14] = t[6]  /\ ShiftRows(t)[15] = t[11]
  BY DEF ShiftRows
<1>3. ASSUME NEW t
      PROVE  /\ InvShiftRows(t)[0] = t[0]   /\ InvShiftRows(t)[1] = t[13]
             /\ InvShiftRows(t)[2] = t[10]  /\ InvShiftRows(t)[3] = t[7]
             /\ InvShiftRows(t)[4] = t[4]   /\ InvShiftRows(t)[5] = t[1]
             /\ InvShiftRows(t)[6] = t[14]  /\ InvShiftRows(t)[7] = t[11]
             /\ InvShiftRows(t)[8] = t[8]   /\ InvShiftRows(t)[9] = t[5]
             /\ InvShiftRows(t)[10] = t[2]  /\ InvShiftRows(t)[11] = t[15]
             /\ InvShiftRows(t)[12] = t[12] /\ InvShiftRows(t)[13] = t[9]
             /\ InvShiftRows(t)[14] = t[6]  /\ InvShiftRows(t)[15] = t[3]
  BY DEF InvShiftRows
<1>4. ASSUME NEW t, NEW u, DOMAIN t = 0..15,
             t[0] = u[0], t[1] = u[1], t[2] = u[2], t[3] = u[3], t[4] = u[4], t[5] = u[5],
             t[6] = u[6], t[7] = u[7], t[8] = u[8], t[9] = u[9], t[10] = u[10], t[11] = u[11],
             t[12] = u[12], t[13] = u[13], t[14] = u[14], t[15] = u[15]
      PROVE  \A n \in 0..15 : t[n] = u[n]
  BY <1>4
<1>5. ASSUME NEW t, t = [n \in DOMAIN t |-> t[n]], DOMAIN t = 0..15,
             t[0] \in Octet, t[1] \in Octet, t[2] \in Octet, t[3] \in Octet, t[4] \in Octet,
             t[5] \in Octet, t[6] \in Octet, t[7] \in Octet, t[8] \in Octet, t[9] \in Octet,
             t[10] \in Octet, t[11] \in Octet, t[12] \in Octet, t[13] \in Octet,
             t[14] \in Octet, t[15] \in Octet
      PROVE  t \in Block
  <2>1. \A n \in 0..15 : t[n] \in Octet
    BY <1>5
  <2> QED  BY <1>5, <2>1 DEF Block
<1>6. \A t : /\ ShiftRows(t) = [n \in DOMAIN ShiftRows(t) |-> ShiftRows(t)[n]]
             /\ DOMAIN ShiftRows(t) = 0..15
             /\ InvShiftRows(t) = [n \in DOMAIN InvShiftRows(t) |-> InvShiftRows(t)[n]]
             /\ DOMAIN InvShiftRows(t) = 0..15
  BY DEF ShiftRows, InvShiftRows
<1>7. ShiftRows(s) \in Block /\ InvShiftRows(s) \in Block
  BY <1>1, <1>2, <1>3, <1>5, <1>6
<1>8. \A n \in 0..15 : InvShiftRows(ShiftRows(s))[n] = s[n]
  BY <1>2, <1>3, <1>4, <1>6
<1>9. \A n \in 0..15 : ShiftRows(InvShiftRows(s))[n] = s[n]
  BY <1>2, <1>3, <1>4, <1>6
<1> QED
  BY <1>6, <1>7, <1>8, <1>9 DEF Block

(* Adding a round key twice gives the block back.                           *)
LEMMA KeyAdded ==
  ASSUME NEW RoundKey \in Seq(KeyWord), Len(RoundKey) = KeyWords,
         NEW round \in 0..Nr, NEW s \in Block
  PROVE  /\ AddRoundKey(round, s, RoundKey) \in Block
         /\ AddRoundKey(round, AddRoundKey(round, s, RoundKey), RoundKey) = s
<1> DEFINE k == [n \in 0..15 |-> RoundKey[round * Nb + n \div 4 + 1][(n % 4) + 1]]
<1>1. ASSUME NEW n \in 0..15
      PROVE  k[n] \in Octet
  <2>1. round * Nb + n \div 4 + 1 \in 1..Len(RoundKey)
    BY ColumnsOfBlock DEF Nb, Nr, KeyWords
  <2>2. RoundKey[round * Nb + n \div 4 + 1] \in KeyWord
    BY <2>1
  <2>3. ASSUME NEW w \in KeyWord, NEW i \in 0..3
        PROVE  w[i + 1] \in Octet
    <3>1. w[1] \in Octet /\ w[2] \in Octet /\ w[3] \in Octet /\ w[4] \in Octet
      BY DEF KeyWord
    <3>2. i + 1 = 1 \/ i + 1 = 2 \/ i + 1 = 3 \/ i + 1 = 4
      OBVIOUS
    <3> QED  BY <3>1, <3>2
  <2> QED  BY <2>2, <2>3, ColumnsOfBlock
<1> HIDE DEF k
<1>2. \A n \in 0..15 : s[n] \in Octet /\ DOMAIN s = 0..15
  BY DEF Block
<1>3. XorBlocks(s, k) \in Block
  BY <1>1, <1>2, XorType DEF XorBlocks, Block
<1>4. \A n \in 0..15 : XorBlocks(XorBlocks(s, k), k)[n] = s[n]
  BY <1>1, <1>2, XorSelf DEF XorBlocks
<1>5. XorBlocks(XorBlocks(s, k), k) = s
  BY <1>4 DEF XorBlocks, Block
<1>6. \A t : AddRoundKey(round, t, RoundKey) = XorBlocks(t, k)
  BY DEF AddRoundKey, k
<1> QED
  BY <1>3, <1>5, <1>6

(* One turn of the loop of InvCipher and one of Cipher's undo one another.  *)
LEMMA RoundUndone ==
  ASSUME NEW RoundKey \in Seq(KeyWord), Len(RoundKey) = KeyWords,
         NEW round \in 0..(Nr - 1), NEW s \in Block
  PROVE  LET u == InvCipherRound(round, s, RoundKey)
             c == MixAndAdd(round, s, RoundKey)
         IN  /\ u \in Block /\ c \in Block
             /\ SubstituteAndShift(s) \in Block
             /\ s = SubstituteAndShift(MixAndAdd(round, u, RoundKey))
             /\ InvCipherRound(round, SubstituteAndShift(c), RoundKey) = s
<1>1. round \in 0..Nr /\ round # Nr
  BY DEF Nr
<1> DEFINE u == InvCipherRound(round, s, RoundKey)
           c == MixAndAdd(round, s, RoundKey)
           back == InvSubBytes(InvShiftRows(s))
           added == AddRoundKey(round, back, RoundKey)
<1>2. back \in Block /\ SubstituteAndShift(back) = s /\ SubstituteAndShift(s) \in Block
  BY RowsUndone, BytesUndone DEF SubstituteAndShift
<1>3. added \in Block /\ AddRoundKey(round, added, RoundKey) = back
  BY <1>1, <1>2, KeyAdded
<1>4. u \in Block /\ MixAndAdd(round, u, RoundKey) = back
  <2>1. CASE round = 0
    <3>1. u = added /\ MixAndAdd(round, u, RoundKey) = AddRoundKey(round, u, RoundKey)
      BY <2>1, Zenon DEF InvCipherRound, MixAndAdd
    <3> QED  BY <3>1, <1>3
  <2>2. CASE round # 0
    <3>1. u = InvMixColumns(added)
      BY <2>2, Zenon DEF InvCipherRound
    <3>2. MixAndAdd(round, u, RoundKey) = AddRoundKey(round, MixColumns(u), RoundKey)
      BY <1>1, <2>2, Zenon DEF MixAndAdd
    <3> QED  BY <3>1, <3>2, <1>3, ColumnsUnmixed, MixTypes
  <2> QED  BY <2>1, <2>2
<1> DEFINE mixed == IF round = 0 THEN s ELSE MixColumns(s)
<1>5. c = AddRoundKey(round, mixed, RoundKey) /\ mixed \in Block
  BY <1>1, MixTypes DEF MixAndAdd
<1>6. c \in Block /\ AddRoundKey(round, c, RoundKey) = mixed
  BY <1>1, <1>5, KeyAdded
<1>7. InvSubBytes(InvShiftRows(SubstituteAndShift(c))) = c
  BY <1>6, RowsUndone, BytesUndone DEF SubstituteAndShift
<1>8. InvCipherRound(round, SubstituteAndShift(c), RoundKey)
        = IF round = 0 THEN mixed ELSE InvMixColumns(mixed)
  BY <1>6, <1>7, Zenon DEF InvCipherRound
<1>9. InvCipherRound(round, SubstituteAndShift(c), RoundKey) = s
  BY <1>8, ColumnsUnmixed
<1> QED
  BY <1>2, <1>4, <1>6, <1>9, Zenon

-----------------------------------------------------------------------------
(* The key schedule and the rounds, as the loops make them.                 *)

(* The words of the key schedule are words, and each turn adds one.         *)
LEMMA ExpansionTypes ==
  /\ \A Key \in Block : FirstWords(Key) \in Seq(KeyWord) /\ Len(FirstWords(Key)) = Nk
  /\ \A n \in Nat : \A RoundKey \in Seq(KeyWord) :
       Len(RoundKey) = n /\ n >= Nk
         => ExpandKey(RoundKey, n) \in Seq(KeyWord) /\ Len(ExpandKey(RoundKey, n)) = n + 1
<1>1. ASSUME NEW Key \in Block
      PROVE  FirstWords(Key) \in Seq(KeyWord) /\ Len(FirstWords(Key)) = Nk
  <2>1. ASSUME NEW i \in 1..4
        PROVE  <<Key[4 * i - 4], Key[4 * i - 3], Key[4 * i - 2], Key[4 * i - 1]>> \in KeyWord
    <3>1. 4 * i - 4 \in 0..15 /\ 4 * i - 3 \in 0..15 /\ 4 * i - 2 \in 0..15 /\ 4 * i - 1 \in 0..15
      OBVIOUS
    <3>2. \A k \in 0..15 : Key[k] \in Octet
      BY DEF Block
    <3> QED  BY <3>1, <3>2 DEF KeyWord
  <2>2. FirstWords(Key) \in [1..4 -> KeyWord]
    BY <2>1 DEF FirstWords, Nk
  <2>3. 4 \in Nat /\ DOMAIN FirstWords(Key) = 1..4
    BY DEF FirstWords, Nk
  <2>4. FirstWords(Key) \in Seq(KeyWord)
    BY <2>1 DEF FirstWords, Nk
  <2>5. Len(FirstWords(Key)) = 4
    BY <2>3, <2>4
  <2> QED  BY <2>4, <2>5 DEF Nk
<1>2. ASSUME NEW n \in Nat, NEW RoundKey \in Seq(KeyWord), Len(RoundKey) = n, n >= Nk
      PROVE  ExpandKey(RoundKey, n) \in Seq(KeyWord) /\ Len(ExpandKey(RoundKey, n)) = n + 1
  <2>1. \A u, v \in KeyWord : XorKeyWords(u, v) \in KeyWord
    <3> TAKE u, v \in KeyWord
    <3>1. /\ u[1] \in Octet /\ u[2] \in Octet /\ u[3] \in Octet /\ u[4] \in Octet
          /\ v[1] \in Octet /\ v[2] \in Octet /\ v[3] \in Octet /\ v[4] \in Octet
      BY DEF KeyWord
    <3> QED  BY <3>1, XorType DEF XorKeyWords, KeyWord
  <2>2. \A w \in KeyWord : SubWord(<<w[2], w[3], w[4], w[1]>>) \in KeyWord
    BY BitsOfType DEF SubWord, getSBoxValue, KeyWord
  <2>3. \A i : <<BitsOf(Rcon[i]), {}, {}, {}>> \in KeyWord
    BY BitsOfType DEF KeyWord, Octet
  <2>4. \A w \in KeyWord : Mixed(w, n) \in KeyWord
    BY <2>1, <2>2, <2>3 DEF Mixed
  <2>5. RoundKey[n - Nk + 1] \in KeyWord /\ RoundKey[n] \in KeyWord
    BY <1>2 DEF Nk
  <2>6. XorKeyWords(RoundKey[n - Nk + 1], Mixed(RoundKey[n], n)) \in KeyWord
    BY <2>1, <2>4, <2>5
  <2> QED  BY <1>2, <2>6 DEF ExpandKey
<1> QED
  BY <1>1, <1>2

(* The key schedule that the loop fills in.                                 *)
LEMMA KeySchedule ==
  ASSUME NEW Key \in Block
  PROVE  /\ KeysAfter(Key)[0] = FirstWords(Key)
         /\ \A n \in 1..40 : KeysAfter(Key)[n] = ExpandKey(KeysAfter(Key)[n - 1], n + Nk - 1)
         /\ \A n \in 0..40 : KeysAfter(Key)[n] \in Seq(KeyWord) /\ Len(KeysAfter(Key)[n]) = n + Nk
<1> DEFINE V == [n \in 0..40 |-> {k \in Seq(KeyWord) : Len(k) = n + 4}]
           D == [n \in 1..40 |-> [k \in V[n - 1] |-> ExpandKey(k, n + 3)]]
           F(g) == [n \in 0..40 |-> IF n = 0 THEN FirstWords(Key) ELSE ExpandKey(g[n - 1], n + 3)]
<1>1. FirstWords(Key) \in V[0]
  BY ExpansionTypes DEF Nk
<1>2. \A n \in 0..40 : \A k : k \in V[n] <=> k \in Seq(KeyWord) /\ Len(k) = n + 4
  OBVIOUS
<1>3. \A n \in 1..40 : \A k \in V[n - 1] : D[n][k] = ExpandKey(k, n + 3)
  OBVIOUS
<1> HIDE DEF V, D
<1>4. \A n \in 1..40 : \A k \in V[n - 1] : D[n][k] \in V[n]
  <2> TAKE n \in 1..40
  <2> TAKE k \in V[n - 1]
  <2>1. n \in 0..40 /\ n - 1 \in 0..40 /\ n + 3 \in Nat /\ n + 3 >= 4
    OBVIOUS
  <2>2. k \in Seq(KeyWord) /\ Len(k) = n + 3
    <3>1. k \in Seq(KeyWord) /\ Len(k) = (n - 1) + 4
      BY <1>2, <2>1
    <3> QED  BY <3>1
  <2>3. ExpandKey(k, n + 3) \in Seq(KeyWord) /\ Len(ExpandKey(k, n + 3)) = n + 4
    <3>1. n + 3 >= Nk /\ (n + 3) + 1 = n + 4
      BY DEF Nk
    <3> QED  BY <2>1, <2>2, <3>1, ExpansionTypes
  <2> QED  BY <1>2, <1>3, <2>1, <2>3
<1>5. PICK g : g = [n \in 0..40 |-> g[n]] /\ StepsFrom(g, FirstWords(Key), V, D, 40)
  BY <1>1, <1>4, Recursion
<1>6. g = F(g)
  <2>1. ASSUME NEW n \in 0..40
        PROVE  g[n] = IF n = 0 THEN FirstWords(Key) ELSE ExpandKey(g[n - 1], n + 3)
    BY <1>3, <1>5 DEF StepsFrom
  <2>2. [n \in 0..40 |-> g[n]] = F(g)
    BY <2>1
  <2> QED  BY <1>5, <2>2
<1>7. KeysAfter(Key) = CHOOSE h : h = F(h)
  BY DEF KeysAfter, KeyWords, Nk, Nb, Nr
<1>8. KeysAfter(Key) = F(KeysAfter(Key))
  BY <1>6, <1>7
<1> DEFINE k == KeysAfter(Key)
<1>9. k[0] = FirstWords(Key) /\ \A n \in 1..40 : k[n] = ExpandKey(k[n - 1], n + 3)
  <2>1. ASSUME NEW n \in 0..40
        PROVE  k[n] = IF n = 0 THEN FirstWords(Key) ELSE ExpandKey(k[n - 1], n + 3)
    BY <1>8
  <2> HIDE DEF k
  <2> QED  BY <2>1
<1> HIDE DEF k
<1>10. \A n \in 1..40 : k[n - 1] \in V[n - 1] => k[n] = D[n][k[n - 1]]
  BY <1>3, <1>9
<1>11. \A n \in 0..40 : k[n] \in V[n]
  BY <1>1, <1>4, <1>9, <1>10, RecursionTypes
<1>12. \A n \in 0..40 : k[n] \in Seq(KeyWord) /\ Len(k[n]) = n + Nk
  BY <1>2, <1>11 DEF Nk
<1>13. \A n \in 1..40 : k[n] = ExpandKey(k[n - 1], n + Nk - 1)
  <2>1. \A n \in 1..40 : n + Nk - 1 = n + 3
    BY DEF Nk
  <2> QED  BY <1>9, <2>1
<1> QED
  BY <1>9, <1>12, <1>13 DEF k

(* The rounds of Cipher, with round keys of octets.                         *)
LEMMA CipherRounds ==
  ASSUME NEW RoundKey \in Seq(KeyWord), Len(RoundKey) = KeyWords, NEW b \in Block
  PROVE  LET c == RoundsAfter(b, RoundKey)
         IN  /\ c[0] = MixAndAdd(0, b, RoundKey)
             /\ \A n \in 1..Nr : c[n] = MixAndAdd(n, SubstituteAndShift(c[n - 1]), RoundKey)
             /\ \A n \in 0..Nr : c[n] \in Block
<1> DEFINE Turn(n, s) == MixAndAdd(n, SubstituteAndShift(s), RoundKey)
           V == [n \in 0..Nr |-> Block]
           D == [n \in 1..Nr |-> [s \in Block |-> Turn(n, s)]]
           F(g) == [n \in 0..Nr |-> IF n = 0 THEN MixAndAdd(0, b, RoundKey) ELSE Turn(n, g[n - 1])]
<1>1. \A n \in 0..Nr : \A s \in Block : MixAndAdd(n, s, RoundKey) \in Block
  <2> TAKE n \in 0..Nr
  <2> TAKE s \in Block
  <2>1. \A t \in Block : AddRoundKey(n, t, RoundKey) \in Block
    BY KeyAdded
  <2> QED  BY <2>1, MixTypes DEF MixAndAdd
<1>2. \A s \in Block : SubstituteAndShift(s) \in Block
  BY RowsUndone, BytesUndone DEF SubstituteAndShift
<1>3. 0 \in 0..Nr /\ Nr \in Nat /\ \A n \in 1..Nr : n \in 0..Nr /\ n - 1 \in 0..Nr
  BY DEF Nr
<1>4. V[0] = Block /\ \A n \in 1..Nr : V[n - 1] = Block /\ V[n] = Block
  BY <1>3
<1>5. \A n \in 1..Nr : \A s \in Block : D[n][s] = Turn(n, s) /\ Turn(n, s) \in Block
  BY <1>1, <1>2, <1>3
<1> HIDE DEF V, D
<1>6. \A n \in 1..Nr : \A s \in V[n - 1] : D[n][s] \in V[n]
  BY <1>4, <1>5
<1>7. MixAndAdd(0, b, RoundKey) \in V[0]
  BY <1>1, <1>3, <1>4
<1>8. PICK g : g = [n \in 0..Nr |-> g[n]] /\ StepsFrom(g, MixAndAdd(0, b, RoundKey), V, D, Nr)
  BY <1>3, <1>6, <1>7, Recursion
<1>9. g = F(g)
  <2>1. ASSUME NEW n \in 0..Nr
        PROVE  g[n] = IF n = 0 THEN MixAndAdd(0, b, RoundKey) ELSE Turn(n, g[n - 1])
    <3>1. CASE n = 0
      BY <3>1, <1>8 DEF StepsFrom
    <3>2. CASE n # 0
      <4>1. n \in 1..Nr
        BY <3>2, <1>3
      <4>2. g[n - 1] \in Block
        BY <4>1, <1>3, <1>4, <1>8 DEF StepsFrom
      <4> HIDE DEF Turn
      <4> QED  BY <3>2, <4>1, <4>2, <1>5, <1>8 DEF StepsFrom
    <3> QED  BY <3>1, <3>2
  <2>2. [n \in 0..Nr |-> g[n]] = F(g)
    BY <2>1, Zenon
  <2> QED  BY <1>8, <2>2
<1> DEFINE c == RoundsAfter(b, RoundKey)
<1>10. c = CHOOSE h : h = F(h)
  BY DEF RoundsAfter
<1>11. c = F(c)
  BY <1>9, <1>10
<1>12. /\ c[0] = MixAndAdd(0, b, RoundKey)
       /\ \A n \in 1..Nr : c[n] = Turn(n, c[n - 1])
  <2>1. ASSUME NEW n \in 0..Nr
        PROVE  c[n] = IF n = 0 THEN MixAndAdd(0, b, RoundKey) ELSE Turn(n, c[n - 1])
    <3> HIDE DEF c, Turn
    <3> QED  BY <1>11
  <2> HIDE DEF c, Turn
  <2> QED  BY <1>3, <2>1
<1> HIDE DEF c, Turn
<1>13. \A n \in 0..Nr : c[n] \in V[n]
  <2>1. \A n \in 1..Nr : c[n - 1] \in V[n - 1] => c[n] = D[n][c[n - 1]]
    BY <1>4, <1>5, <1>12
  <2>2. c[0] \in V[0]
    BY <1>7, <1>12
  <2> QED  BY <2>1, <2>2, <1>3, <1>6, RecursionTypes
<1>14. \A n \in 0..Nr : c[n] \in Block
  <2>1. \A n \in 0..Nr : V[n] = Block
    BY DEF V
  <2> QED  BY <1>13, <2>1
<1> QED
  BY <1>12, <1>14 DEF c, Turn

(* InvCipher goes back through the states of Cipher: its start gives what   *)
(* the last round of Cipher was made from, and each turn of its loop what   *)
(* the round before was made from, down to the block itself.                *)
THEOREM CipherUndone ==
  ASSUME NEW RoundKey \in Seq(KeyWord), Len(RoundKey) = KeyWords, NEW b \in Block
  PROVE  LET c == RoundsAfter(b, RoundKey)
         IN  /\ StartInvCipher(Cipher(b, RoundKey), RoundKey) = SubstituteAndShift(c[Nr - 1])
             /\ \A n \in 1..(Nr - 1) :
                  InvCipherRound(n, SubstituteAndShift(c[n]), RoundKey) = SubstituteAndShift(c[n - 1])
             /\ InvCipherRound(0, SubstituteAndShift(c[0]), RoundKey) = b
<1> DEFINE c == RoundsAfter(b, RoundKey)
<1>1. /\ c[0] = MixAndAdd(0, b, RoundKey)
      /\ \A n \in 1..Nr : c[n] = MixAndAdd(n, SubstituteAndShift(c[n - 1]), RoundKey)
      /\ \A n \in 0..Nr : c[n] \in Block
      /\ Cipher(b, RoundKey) = c[Nr]
  BY CipherRounds DEF Cipher
<1> HIDE DEF c
<1>2. Nr \in 1..Nr /\ Nr \in 0..Nr /\ Nr - 1 \in 0..Nr /\ 0 \in 0..(Nr - 1) /\ Nr # 0
      /\ \A n \in 1..(Nr - 1) : n \in 0..(Nr - 1) /\ n \in 1..Nr /\ n - 1 \in 0..Nr
  BY DEF Nr
<1>3. \A n \in 0..Nr : SubstituteAndShift(c[n]) \in Block
  BY <1>1, RowsUndone, BytesUndone DEF SubstituteAndShift
<1>4. StartInvCipher(Cipher(b, RoundKey), RoundKey) = SubstituteAndShift(c[Nr - 1])
  <2>1. c[Nr] = AddRoundKey(Nr, SubstituteAndShift(c[Nr - 1]), RoundKey)
    BY <1>1, <1>2 DEF MixAndAdd
  <2> QED  BY <2>1, <1>1, <1>2, <1>3, KeyAdded DEF StartInvCipher
<1>5. ASSUME NEW n \in 1..(Nr - 1)
      PROVE  InvCipherRound(n, SubstituteAndShift(c[n]), RoundKey) = SubstituteAndShift(c[n - 1])
  <2>1. SubstituteAndShift(c[n - 1]) \in Block
    BY <1>2, <1>3
  <2>2. c[n] = MixAndAdd(n, SubstituteAndShift(c[n - 1]), RoundKey)
    BY <1>1, <1>2
  <2> QED  BY <2>1, <2>2, <1>2, RoundUndone
<1>6. InvCipherRound(0, SubstituteAndShift(c[0]), RoundKey) = b
  BY <1>1, <1>2, RoundUndone
<1> QED
  BY <1>4, <1>5, <1>6 DEF c

(* The rounds of InvCipher, with round keys of octets.                      *)
LEMMA InvCipherRounds ==
  ASSUME NEW RoundKey \in Seq(KeyWord), Len(RoundKey) = KeyWords, NEW b \in Block
  PROVE  LET r == RoundsBack(b, RoundKey)
         IN  /\ r[0] = StartInvCipher(b, RoundKey)
             /\ \A n \in 1..Nr : r[n] = InvCipherRound(Nr - n, r[n - 1], RoundKey)
             /\ \A n \in 0..Nr : r[n] \in Block
<1> DEFINE Turn(n, s) == InvCipherRound(Nr - n, s, RoundKey)
           V == [n \in 0..Nr |-> Block]
           D == [n \in 1..Nr |-> [s \in Block |-> Turn(n, s)]]
           F(g) == [n \in 0..Nr |-> IF n = 0 THEN StartInvCipher(b, RoundKey) ELSE Turn(n, g[n - 1])]
<1>1. /\ Nr \in Nat /\ Nr \in 0..Nr /\ 0 \in 0..Nr
      /\ \A n \in 1..Nr : n \in 0..Nr /\ n - 1 \in 0..Nr /\ Nr - n \in 0..(Nr - 1) /\ n # 0
      /\ \A n \in 0..Nr : n # 0 => n \in 1..Nr
  BY DEF Nr
<1>2. StartInvCipher(b, RoundKey) \in Block
  BY <1>1, KeyAdded DEF StartInvCipher
<1>3. \A n \in 1..Nr : \A s \in Block : Turn(n, s) \in Block
  BY <1>1, RoundUndone
<1>4. \A n \in 0..Nr : V[n] = Block
  OBVIOUS
<1>5. \A n \in 1..Nr : \A s \in Block : D[n][s] = Turn(n, s)
  OBVIOUS
<1> HIDE DEF V, D, Turn
<1>6. \A n \in 1..Nr : \A s \in V[n - 1] : D[n][s] \in V[n]
  BY <1>1, <1>3, <1>4, <1>5
<1>7. StartInvCipher(b, RoundKey) \in V[0]
  BY <1>1, <1>2, <1>4
<1>8. PICK g : g = [n \in 0..Nr |-> g[n]] /\ StepsFrom(g, StartInvCipher(b, RoundKey), V, D, Nr)
  BY <1>1, <1>6, <1>7, Recursion
<1>9. g = F(g)
  <2>1. ASSUME NEW n \in 0..Nr
        PROVE  g[n] = IF n = 0 THEN StartInvCipher(b, RoundKey) ELSE Turn(n, g[n - 1])
    <3>1. CASE n = 0
      BY <3>1, <1>8 DEF StepsFrom
    <3>2. CASE n # 0
      <4>1. n \in 1..Nr /\ n - 1 \in 0..Nr
        BY <3>2, <1>1
      <4>2. g[n - 1] \in Block
        BY <4>1, <1>4, <1>8 DEF StepsFrom
      <4> QED  BY <3>2, <4>1, <4>2, <1>5, <1>8 DEF StepsFrom
    <3> QED  BY <3>1, <3>2
  <2>2. [n \in 0..Nr |-> g[n]] = F(g)
    BY <2>1, Zenon
  <2> QED  BY <1>8, <2>2
<1> DEFINE r == RoundsBack(b, RoundKey)
<1>10. r = CHOOSE h : h = F(h)
  BY DEF RoundsBack, Turn
<1>11. r = F(r)
  BY <1>9, <1>10
<1> HIDE DEF r
<1>12. /\ r[0] = StartInvCipher(b, RoundKey)
       /\ \A n \in 1..Nr : r[n] = Turn(n, r[n - 1])
  <2>1. ASSUME NEW n \in 0..Nr
        PROVE  r[n] = IF n = 0 THEN StartInvCipher(b, RoundKey) ELSE Turn(n, r[n - 1])
    BY <1>11
  <2> QED  BY <1>1, <2>1
<1>13. \A n \in 0..Nr : r[n] \in V[n]
  <2>1. \A n \in 1..Nr : r[n - 1] \in V[n - 1] => r[n] = D[n][r[n - 1]]
    BY <1>1, <1>4, <1>5, <1>12
  <2>2. r[0] \in V[0]
    BY <1>7, <1>12
  <2> QED  BY <2>1, <2>2, <1>1, <1>6, RecursionTypes
<1> QED
  BY <1>4, <1>12, <1>13 DEF r, Turn

(* InvCipher gives back what Cipher was given, and Cipher what InvCipher was*)
(* given, for every block and every key: encrypted pages can be read, and   *)
(* every page is the encryption of one.  The CBC loops of AesEngine assume  *)
(* the first of a cipher.                                                   *)
THEOREM CipherInverse ==
  ASSUME NEW RoundKey \in Seq(KeyWord), Len(RoundKey) = KeyWords, NEW b \in Block
  PROVE  /\ Cipher(b, RoundKey) \in Block /\ InvCipher(b, RoundKey) \in Block
         /\ InvCipher(Cipher(b, RoundKey), RoundKey) = b
         /\ Cipher(InvCipher(b, RoundKey), RoundKey) = b
<1>1. Nr \in Nat /\ Nr \in 0..Nr /\ 0 \in 0..Nr
  BY DEF Nr
<1>2. \A n \in 1..Nr : n \in 0..Nr /\ n - 1 \in 0..Nr
  BY DEF Nr
<1>3. Cipher(b, RoundKey) \in Block /\ InvCipher(b, RoundKey) \in Block
  BY <1>1, CipherRounds, InvCipherRounds DEF Cipher, InvCipher
<1>4. InvCipher(Cipher(b, RoundKey), RoundKey) = b
  <2> DEFINE c == RoundsAfter(b, RoundKey)
             r == RoundsBack(Cipher(b, RoundKey), RoundKey)
             V == [n \in 0..Nr |-> {IF n = Nr THEN b ELSE SubstituteAndShift(c[Nr - 1 - n])}]
             D == [n \in 1..Nr |-> [s \in Block |-> InvCipherRound(Nr - n, s, RoundKey)]]
  <2>1. /\ StartInvCipher(Cipher(b, RoundKey), RoundKey) = SubstituteAndShift(c[Nr - 1])
        /\ \A n \in 1..(Nr - 1) :
             InvCipherRound(n, SubstituteAndShift(c[n]), RoundKey) = SubstituteAndShift(c[n - 1])
        /\ InvCipherRound(0, SubstituteAndShift(c[0]), RoundKey) = b
    BY CipherUndone
  <2>2. \A n \in 0..Nr : c[n] \in Block
    BY CipherRounds
  <2>3. /\ r[0] = StartInvCipher(Cipher(b, RoundKey), RoundKey)
        /\ \A n \in 1..Nr : r[n] = InvCipherRound(Nr - n, r[n - 1], RoundKey)
        /\ \A n \in 0..Nr : r[n] \in Block
    BY <1>3, InvCipherRounds
  <2> HIDE DEF c, r
  <2>4. \A n \in 0..Nr : SubstituteAndShift(c[n]) \in Block
    BY <2>2, RowsUndone, BytesUndone DEF SubstituteAndShift
  <2>5. /\ V[Nr] = {b}
        /\ \A n \in 0..(Nr - 1) : V[n] = {SubstituteAndShift(c[Nr - 1 - n])}
    BY DEF Nr
  <2>6. \A n \in 1..Nr : \A s \in Block : D[n][s] = InvCipherRound(Nr - n, s, RoundKey)
    OBVIOUS
  <2> HIDE DEF V, D
  <2>7. ASSUME NEW n \in 1..Nr, NEW x \in V[n - 1]
        PROVE  D[n][x] \in V[n]
    <3>1. x = SubstituteAndShift(c[Nr - n]) /\ x \in Block
      <4>1. n - 1 \in 0..(Nr - 1) /\ Nr - 1 - (n - 1) = Nr - n /\ Nr - n \in 0..Nr
        BY DEF Nr
      <4> QED  BY <4>1, <2>4, <2>5, <2>7
    <3>2. D[n][x] = InvCipherRound(Nr - n, x, RoundKey)
      BY <3>1, <2>6
    <3>3. CASE n = Nr
      <4>1. Nr - n = 0
        BY <3>3, <1>1
      <4> QED  BY <3>1, <3>2, <3>3, <4>1, <2>1, <2>5
    <3>4. CASE n # Nr
      <4>1. Nr - n \in 1..(Nr - 1) /\ n \in 0..(Nr - 1) /\ (Nr - n) - 1 = Nr - 1 - n
        BY <3>4 DEF Nr
      <4>2. D[n][x] = SubstituteAndShift(c[Nr - 1 - n])
        BY <3>1, <3>2, <4>1, <2>1
      <4> QED  BY <4>1, <4>2, <2>5
    <3> QED  BY <3>3, <3>4
  <2>8. r[0] \in V[0]
    <3>1. 0 \in 0..(Nr - 1) /\ Nr - 1 - 0 = Nr - 1
      BY DEF Nr
    <3> QED  BY <3>1, <2>1, <2>3, <2>5
  <2>9. \A n \in 1..Nr : r[n - 1] \in V[n - 1] => r[n] = D[n][r[n - 1]]
    BY <1>2, <2>3, <2>6
  <2>10. \A n \in 1..Nr : \A x \in V[n - 1] : D[n][x] \in V[n]
    BY <2>7
  <2>11. \A n \in 0..Nr : r[n] \in V[n]
    BY <1>1, <2>8, <2>9, <2>10, RecursionTypes
  <2> QED  BY <1>1, <2>5, <2>11 DEF InvCipher, r
<1>5. Cipher(InvCipher(b, RoundKey), RoundKey) = b
  <2> DEFINE r == RoundsBack(b, RoundKey)
             c == RoundsAfter(InvCipher(b, RoundKey), RoundKey)
             V == [n \in 0..Nr |->
                     IF n = Nr THEN {b}
                     ELSE {s \in Block : SubstituteAndShift(s) = r[Nr - 1 - n]}]
             D == [n \in 1..Nr |-> [s \in Block |-> MixAndAdd(n, SubstituteAndShift(s), RoundKey)]]
  <2>1. /\ r[0] = StartInvCipher(b, RoundKey)
        /\ \A n \in 1..Nr : r[n] = InvCipherRound(Nr - n, r[n - 1], RoundKey)
        /\ \A n \in 0..Nr : r[n] \in Block
        /\ InvCipher(b, RoundKey) = r[Nr]
    BY InvCipherRounds DEF InvCipher
  <2>2. /\ c[0] = MixAndAdd(0, InvCipher(b, RoundKey), RoundKey)
        /\ \A n \in 1..Nr : c[n] = MixAndAdd(n, SubstituteAndShift(c[n - 1]), RoundKey)
        /\ \A n \in 0..Nr : c[n] \in Block
    BY <1>3, CipherRounds
  <2> HIDE DEF c, r
  <2>3. ASSUME NEW n \in 0..(Nr - 1)
        PROVE  /\ MixAndAdd(n, r[Nr - n], RoundKey) \in Block
               /\ SubstituteAndShift(MixAndAdd(n, r[Nr - n], RoundKey)) = r[Nr - 1 - n]
    <3>1. Nr - n \in 1..Nr /\ Nr - (Nr - n) = n /\ (Nr - n) - 1 = Nr - 1 - n
          /\ Nr - 1 - n \in 0..Nr /\ Nr - n \in 0..Nr
      BY DEF Nr
    <3>2. r[Nr - n] = InvCipherRound(n, r[Nr - 1 - n], RoundKey)
      BY <2>1, <3>1
    <3>3. r[Nr - 1 - n] \in Block /\ r[Nr - n] \in Block
      BY <2>1, <3>1
    <3> QED  BY <3>2, <3>3, RoundUndone
  <2>4. /\ V[Nr] = {b}
        /\ \A n \in 0..(Nr - 1) : V[n] = {s \in Block : SubstituteAndShift(s) = r[Nr - 1 - n]}
    BY DEF Nr
  <2>5. \A n \in 1..Nr : \A s \in Block :
          D[n][s] = MixAndAdd(n, SubstituteAndShift(s), RoundKey)
    OBVIOUS
  <2> HIDE DEF V, D
  <2>6. ASSUME NEW n \in 1..Nr, NEW x \in V[n - 1]
        PROVE  D[n][x] \in V[n]
    <3>1. x \in Block /\ SubstituteAndShift(x) = r[Nr - n]
      <4>1. n - 1 \in 0..(Nr - 1) /\ Nr - 1 - (n - 1) = Nr - n
        BY DEF Nr
      <4> QED  BY <4>1, <2>4, <2>6
    <3>2. D[n][x] = MixAndAdd(n, r[Nr - n], RoundKey)
      BY <3>1, <2>5
    <3>3. CASE n = Nr
      <4>1. MixAndAdd(Nr, r[0], RoundKey) = AddRoundKey(Nr, r[0], RoundKey)
        BY DEF MixAndAdd
      <4>2. AddRoundKey(Nr, r[0], RoundKey) = b
        BY <1>1, <2>1, KeyAdded DEF StartInvCipher
      <4>3. Nr - n = 0
        BY <3>3, <1>1
      <4> QED  BY <3>2, <3>3, <4>1, <4>2, <4>3, <2>4
    <3>4. CASE n # Nr
      <4>1. n \in 0..(Nr - 1)
        BY <3>4 DEF Nr
      <4>2. D[n][x] \in Block /\ SubstituteAndShift(D[n][x]) = r[Nr - 1 - n]
        BY <3>2, <4>1, <2>3
      <4> QED  BY <4>1, <4>2, <2>4
    <3> QED  BY <3>3, <3>4
  <2>7. c[0] \in V[0]
    <3>1. 0 \in 0..(Nr - 1) /\ Nr - 0 = Nr
      BY DEF Nr
    <3>2. c[0] = MixAndAdd(0, r[Nr - 0], RoundKey)
      BY <3>1, <2>1, <2>2
    <3> QED  BY <3>1, <3>2, <2>3, <2>4
  <2>8. \A n \in 1..Nr : c[n - 1] \in V[n - 1] => c[n] = D[n][c[n - 1]]
    BY <1>2, <2>2, <2>5
  <2>9. \A n \in 1..Nr : \A x \in V[n - 1] : D[n][x] \in V[n]
    BY <2>6
  <2>10. \A n \in 0..Nr : c[n] \in V[n]
    BY <1>1, <2>7, <2>8, <2>9, RecursionTypes
  <2> QED  BY <1>1, <2>4, <2>10 DEF Cipher, c
<1> QED
  BY <1>3, <1>4, <1>5

=============================================================================
