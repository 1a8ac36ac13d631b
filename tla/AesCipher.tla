------------------------------- MODULE AesCipher -------------------------------
(***************************************************************************)
(* The block cipher of util_aes.c, AES with a key of 128 bits.  A block and *)
(* the state are functions on 0..15: what the code has in column i and row  *)
(* j of its array is state[4 * i + j].                                      *)
(***************************************************************************)
EXTENDS Octets, Sequences

Nk == 4
Nr == 10
Nb == 4

sbox ==
  <<99, 124, 119, 123, 242, 107, 111, 197,  48,   1, 103,  43, 254, 215, 171, 118,
     202, 130, 201, 125, 250,  89,  71, 240, 173, 212, 162, 175, 156, 164, 114, 192,
     183, 253, 147,  38,  54,  63, 247, 204,  52, 165, 229, 241, 113, 216,  49,  21,
       4, 199,  35, 195,  24, 150,   5, 154,   7,  18, 128, 226, 235,  39, 178, 117,
       9, 131,  44,  26,  27, 110,  90, 160,  82,  59, 214, 179,  41, 227,  47, 132,
      83, 209,   0, 237,  32, 252, 177,  91, 106, 203, 190,  57,  74,  76,  88, 207,
     208, 239, 170, 251,  67,  77,  51, 133,  69, 249,   2, 127,  80,  60, 159, 168,
      81, 163,  64, 143, 146, 157,  56, 245, 188, 182, 218,  33,  16, 255, 243, 210,
     205,  12,  19, 236,  95, 151,  68,  23, 196, 167, 126,  61, 100,  93,  25, 115,
      96, 129,  79, 220,  34,  42, 144, 136,  70, 238, 184,  20, 222,  94,  11, 219,
     224,  50,  58,  10,  73,   6,  36,  92, 194, 211, 172,  98, 145, 149, 228, 121,
     231, 200,  55, 109, 141, 213,  78, 169, 108,  86, 244, 234, 101, 122, 174,   8,
     186, 120,  37,  46,  28, 166, 180, 198, 232, 221, 116,  31,  75, 189, 139, 138,
     112,  62, 181, 102,  72,   3, 246,  14,  97,  53,  87, 185, 134, 193,  29, 158,
     225, 248, 152,  17, 105, 217, 142, 148, 155,  30, 135, 233, 206,  85,  40, 223,
     140, 161, 137,  13, 191, 230,  66, 104,  65, 153,  45,  15, 176,  84, 187,  22>>

rsbox ==
  <<82,   9, 106, 213,  48,  54, 165,  56, 191,  64, 163, 158, 129, 243, 215, 251,
     124, 227,  57, 130, 155,  47, 255, 135,  52, 142,  67,  68, 196, 222, 233, 203,
      84, 123, 148,  50, 166, 194,  35,  61, 238,  76, 149,  11,  66, 250, 195,  78,
       8,  46, 161, 102,  40, 217,  36, 178, 118,  91, 162,  73, 109, 139, 209,  37,
     114, 248, 246, 100, 134, 104, 152,  22, 212, 164,  92, 204,  93, 101, 182, 146,
     108, 112,  72,  80, 253, 237, 185, 218,  94,  21,  70,  87, 167, 141, 157, 132,
     144, 216, 171,   0, 140, 188, 211,  10, 247, 228,  88,   5, 184, 179,  69,   6,
     208,  44,  30, 143, 202,  63,  15,   2, 193, 175, 189,   3,   1,  19, 138, 107,
      58, 145,  17,  65,  79, 103, 220, 234, 151, 242, 207, 206, 240, 180, 230, 115,
     150, 172, 116,  34, 231, 173,  53, 133, 226, 249,  55, 232,  28, 117, 223, 110,
      71, 241,  26, 113,  29,  41, 197, 137, 111, 183,  98,  14, 170,  24, 190,  27,
     252,  86,  62,  75, 198, 210, 121,  32, 154, 219, 192, 254, 120, 205,  90, 244,
      31, 221, 168,  51, 136,   7, 199,  49, 177,  18,  16,  89,  39, 128, 236,  95,
      96,  81, 127, 169,  25, 181,  74,  13,  45, 229, 122, 159, 147, 201, 156, 239,
     160, 224,  59,  77, 174,  42, 245, 176, 200, 235, 187,  60, 131,  83, 153,  97,
      23,  43,   4, 126, 186, 119, 214,  38, 225, 105,  20,  99,  85,  33,  12, 125>>

Rcon == <<141, 1, 2, 4, 8, 16, 32, 64, 128, 27, 54>>

getSBoxValue(num)  == BitsOf(sbox[Value(num) + 1])
getSBoxInvert(num) == BitsOf(rsbox[Value(num) + 1])

-----------------------------------------------------------------------------
(* A word of the key schedule is four bytes; the round keys are KeyWords    *)
(* words, of which the first Nk are the key.                                *)
KeyWords == Nb * (Nr + 1)

KeyWord == Octet \X Octet \X Octet \X Octet

XorKeyWords(u, v) == <<Xor(u[1], v[1]), Xor(u[2], v[2]), Xor(u[3], v[3]), Xor(u[4], v[4])>>

SubWord(w) == <<getSBoxValue(w[1]), getSBoxValue(w[2]), getSBoxValue(w[3]), getSBoxValue(w[4])>>

(* What the word before is made into for the word i.                        *)
Mixed(w, i) ==
  IF i % Nk # 0 THEN w
  ELSE XorKeyWords(SubWord(<<w[2], w[3], w[4], w[1]>>), <<BitsOf(Rcon[i \div Nk + 1]), {}, {}, {}>>)

FirstWords(Key) ==
  [i \in 1..Nk |-> <<Key[4 * i - 4], Key[4 * i - 3], Key[4 * i - 2], Key[4 * i - 1]>>]

(* One turn of the loop that adds the other words, for word i.              *)
ExpandKey(RoundKey, i) ==
  Append(RoundKey, XorKeyWords(RoundKey[i - Nk + 1], Mixed(RoundKey[i], i)))

(* The words after each turn of the loop, and those after the last.         *)
KeysAfter(Key) ==
  LET after[n \in 0..(KeyWords - Nk)] ==
        IF n = 0 THEN FirstWords(Key) ELSE ExpandKey(after[n - 1], n + Nk - 1)
  IN  after

KeyExpansion(Key) == KeysAfter(Key)[KeyWords - Nk]

-----------------------------------------------------------------------------
XorBlocks(a, b) == [n \in 0..15 |-> Xor(a[n], b[n])]

AddRoundKey(round, state, RoundKey) ==
  XorBlocks(state, [n \in 0..15 |-> RoundKey[round * Nb + n \div 4 + 1][(n % 4) + 1]])

SubBytes(state)    == [n \in 0..15 |-> getSBoxValue(state[n])]
InvSubBytes(state) == [n \in 0..15 |-> getSBoxInvert(state[n])]

ShiftRows(state) ==
  LET moved == <<state[0], state[5], state[10], state[15], state[4], state[9], state[14], state[3],
                 state[8], state[13], state[2], state[7], state[12], state[1], state[6], state[11]>>
  IN  [n \in 0..15 |-> moved[n + 1]]

(* Slip: the last row goes round the same way as in ShiftRows.              *)
InvShiftRowsWrongWay(state) ==
  LET moved == <<state[0], state[13], state[10], state[15], state[4], state[1], state[14], state[3],
                 state[8], state[5], state[2], state[7], state[12], state[9], state[6], state[11]>>
  IN  [n \in 0..15 |-> moved[n + 1]]

InvShiftRows(state) ==
  LET moved == <<state[0], state[13], state[10], state[7], state[4], state[1], state[14], state[11],
                 state[8], state[5], state[2], state[15], state[12], state[9], state[6], state[3]>>
  IN  [n \in 0..15 |-> moved[n + 1]]

(* Slip: the shifted byte is not cut to eight bits.                         *)
xtimeWide(x) == Xor({n \in 1..8 : n - 1 \in x}, IF 7 \in x THEN BitsOf(27) ELSE {})

(* Multiplication by x in the field of 256 elements.                        *)
xtime(x) == Xor({n \in 1..7 : n - 1 \in x}, IF 7 \in x THEN BitsOf(27) ELSE {})

(* Only the low five bits of y count, and they are never above 14.          *)
Multiply(x, y) ==
  LET term(bit, value) == IF bit \in BitsOf(y) THEN value ELSE {}
      x2 == xtime(x)
      x4 == xtime(x2)
      x8 == xtime(x4)
  IN  Xor(Xor(Xor(term(0, x), term(1, x2)), Xor(term(2, x4), term(3, x8))), term(4, xtime(x8)))

(* Row j of the column that byte n is in.                                   *)
InColumn(state, n, j) == state[4 * (n \div 4) + (j % 4)]

(* The rows are overwritten one after the other; the code keeps the first   *)
(* one for the last, so each is made from the bytes before.                 *)
MixColumns(state) ==
  [n \in 0..15 |->
     LET at(j) == InColumn(state, n, j)
         Tmp   == Xor(Xor(at(0), at(1)), Xor(at(2), at(3)))
     IN  Xor(state[n], Xor(xtime(Xor(state[n], at((n % 4) + 1))), Tmp))]

InvMixColumns(state) ==
  [n \in 0..15 |->
     LET at(j) == InColumn(state, n, (n % 4) + j)
     IN  Xor(Xor(Multiply(at(0), 14), Multiply(at(1), 11)),
             Xor(Multiply(at(2), 13), Multiply(at(3), 9)))]

-----------------------------------------------------------------------------
(* Cipher is MixAndAdd of round 0 and, for each round from 1 to Nr, the two *)
(* halves of a turn of its loop; the last leaves before MixColumns.         *)
SubstituteAndShift(state) == ShiftRows(SubBytes(state))

MixAndAdd(round, state, RoundKey) ==
  AddRoundKey(round, IF round \in {0, Nr} THEN state ELSE MixColumns(state), RoundKey)

(* The state after each round, and the one after the last.                  *)
RoundsAfter(block, RoundKey) ==
  LET after[round \in 0..Nr] ==
        IF round = 0 THEN MixAndAdd(0, block, RoundKey)
        ELSE MixAndAdd(round, SubstituteAndShift(after[round - 1]), RoundKey)
  IN  after

Cipher(block, RoundKey) == RoundsAfter(block, RoundKey)[Nr]

(* InvCipher up to its loop, and one turn of the loop; the last turn, with  *)
(* round 0, leaves before InvMixColumns.                                    *)
StartInvCipher(block, RoundKey) == AddRoundKey(Nr, block, RoundKey)

InvCipherRound(round, state, RoundKey) ==
  LET added == AddRoundKey(round, InvSubBytes(InvShiftRows(state)), RoundKey)
  IN  IF round = 0 THEN added ELSE InvMixColumns(added)

(* The state after each turn, of which the first is of round Nr - 1.        *)
RoundsBack(block, RoundKey) ==
  LET after[n \in 0..Nr] ==
        IF n = 0 THEN StartInvCipher(block, RoundKey)
        ELSE InvCipherRound(Nr - n, after[n - 1], RoundKey)
  IN  after

InvCipher(block, RoundKey) == RoundsBack(block, RoundKey)[Nr]

=============================================================================
