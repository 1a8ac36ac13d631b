------------------------------ MODULE Boot1Proofs ------------------------------
(***************************************************************************)
(* Proofs about tools/boot1-extract.c, for every size and number of pages   *)
(* and every set of dumps that Boot1Assumption describes.                   *)
(*                                                                          *)
(* The argument: while a block is decrypted, the state before round n of    *)
(* InvCipher is what round n of Cipher left of the plain block, so the      *)
(* block comes out plain; what CBC adds to the next one is the encrypted    *)
(* block, on this page or the page before.  While a block is hashed, the    *)
(* variables and the sixteen words are the standard's, so the state after   *)
(* the eighty rounds is the standard's.  A page of which the file holds     *)
(* only a part changes nothing for the pages before it, and no whole page   *)
(* comes after it.                                                          *)
(***************************************************************************)
EXTENDS Boot1Extract, AesCipherProofs

-----------------------------------------------------------------------------
(* The inductive invariant.                                                 *)

(* Where a page has been read that is not copied yet.                       *)
Reading == {"decrypt", "rounds", "copy"}

(* What the place in the program says of the counts and the buffers.        *)
Progress ==
  /\ pc \in {"open", "failed", "expand"} => boot1_buffer = <<>> /\ Iv = ZeroBytes(AES_BLOCKLEN)
                                            /\ sha = InitialState
  /\ pc \in {"read"} \cup Reading => Len(boot1_buffer) < BOOT1_PAGE_SIZE
  /\ pc \in {"update", "transform", "save", "done"} => Len(boot1_buffer) > 0
  /\ pc = "copy" => block \in Nat /\ block * AES_BLOCKLEN = NAND_PAGE_SIZE
  /\ pc \in {"update", "transform"} => page_buffer = boot1_buffer[Len(boot1_buffer)]

(* The file is read on from where the page before ends, or at its end.      *)
PagesRead == Len(boot1_buffer) + IF pc \in Reading THEN 1 ELSE 0

FilePosition ==
  position = IF PageStart(PagesRead + 1) < Len(dump.bytes) THEN PageStart(PagesRead + 1)
                                                           ELSE Len(dump.bytes)

(* The round keys, as far as the loop has come.                             *)
KeyRight ==
  /\ pc = "expand" => RoundKey = KeysAfter(dump.key)[round - Nk]
  /\ pc \notin {"open", "failed", "expand"} => RoundKey = KeyExpansion(dump.key)

(* A page of which block is the next to decrypt.                            *)
PartlyPlain(d, p, b) ==
  [n \in 0..(NAND_PAGE_SIZE - 1) |->
     IF n \div AES_BLOCKLEN < b THEN d.pages[p][n] ELSE PageOf(d, p)[n]]

(* The page after the ones that are done.                                   *)
Current == Len(boot1_buffer) + 1

(* What the current block was made from by Cipher.                          *)
PlainBlock ==
  XorBlocks(Part(dump.pages[Current], AES_BLOCKLEN, block), ChainedTo(dump, Current, block))

(* If the file holds the current page: the chain, the page with its first   *)
(* blocks plain, and the state on the way back through the rounds of Cipher.*)
DecryptRight ==
  IsWhole(dump, Current) =>
    /\ Iv = ChainedTo(dump, Current, IF pc \in Reading THEN block ELSE 0)
    /\ pc \in Reading => page_buffer = PartlyPlain(dump, Current, block)
    /\ pc = "rounds" =>
         state = IF round < 0 THEN PlainBlock
                 ELSE SubstituteAndShift(RoundsAfter(PlainBlock, RoundKey)[round])

(* The state is the hash of the pages that came out, and of the blocks that *)
(* are done of the last of them.                                            *)
HashSoFar ==
  LET p == Len(boot1_buffer)
  IN  /\ pc \in {"update", "transform"} /\ IsWhole(dump, p) => sha = HashBefore(dump, p, block)
      /\ pc \notin {"update", "transform"} /\ (p > 0 => IsWhole(dump, p))
           => sha = HashBefore(dump, p + 1, 0)

Sixteen == [0..15 -> Word]

(* The sixteen words hold the last of the schedule, and at first the block. *)
Schedules(words, M, W, i) ==
  /\ i <= 16 => words = M
  /\ \A t \in 1..i : t > i - 16 => words[(t - 1) % 16] = W[t]

(* The variables under their names, in the order of the standard.           *)
Follows(w5, s, i) ==
  /\ s[1] = w5[Named(0, i)] /\ s[2] = w5[Named(1, i)] /\ s[3] = w5[Named(2, i)]
  /\ s[4] = w5[Named(3, i)] /\ s[5] = w5[Named(4, i)]

(* While a block is hashed.                                                 *)
RoundsRight ==
  pc = "transform" =>
    /\ Follows(working, standard.vars, round)
    /\ Schedules(workspace, MessageBlock, standard.W, round)
    /\ standard = StandardAfter(sha, MessageBlock)[round]

(* All that is true of the tool in every state.                             *)
Boot1Inv ==
  /\ TypeOK /\ Progress /\ FilePosition /\ KeyRight
  /\ RoundsRight /\ DecryptRight /\ WholePagesRight /\ HashSoFar

(* What the proofs about the data of the pages rest on.                     *)
PagesInv == TypeOK /\ Progress /\ FilePosition /\ KeyRight

-----------------------------------------------------------------------------
(* The rounds of SHA-1 and those of the standard.                           *)

(* Sums and rotations are words.                                            *)
LEMMA WordTypes ==
  /\ \A x, y : Plus(x, y) \in Word
  /\ \A x, n : rol(x, n) \in Word
  BY DEF Plus, rol, Shl, Shr, Word

(* The states of the hash are five words.                                   *)
LEMMA StateTypes ==
  /\ InitialState \in FiveWords
  /\ \A s, v : AddState(s, v) \in FiveWords
<1>1. \A a, b : Halves(a, b) \in Word
  BY DEF Halves, Word
<1>2. InitialState \in FiveWords
  <2>1. InitialState[0] \in Word /\ InitialState[1] \in Word /\ InitialState[2] \in Word
        /\ InitialState[3] \in Word /\ InitialState[4] \in Word
    <3> DEFINE words == <<Halves(\h6745, \h2301), Halves(\hEFCD, \hAB89), Halves(\h98BA, \hDCFE),
                          Halves(\h1032, \h5476), Halves(\hC3D2, \hE1F0)>>
    <3>1. words[1] \in Word /\ words[2] \in Word /\ words[3] \in Word /\ words[4] \in Word
          /\ words[5] \in Word
      BY <1>1
    <3>2. InitialState = [n \in 0..4 |-> words[n + 1]]
      BY DEF InitialState
    <3> HIDE DEF words
    <3>3. /\ InitialState[0] = words[1] /\ InitialState[1] = words[2] /\ InitialState[2] = words[3]
          /\ InitialState[3] = words[4] /\ InitialState[4] = words[5]
      BY <3>2
    <3> QED  BY <3>1, <3>3
  <2>2. InitialState = [n \in 0..4 |-> InitialState[n]]
    BY DEF InitialState
  <2>3. \A n \in 0..4 : InitialState[n] \in Word
    BY <2>1
  <2> QED  BY <2>2, <2>3 DEF FiveWords
<1>3. \A s, v : AddState(s, v) \in FiveWords
  BY WordTypes DEF AddState, FiveWords
<1> QED
  BY <1>2, <1>3

(* The five variables of a round have five names, and each is the next one's*)
(* in the round after.                                                      *)
LEMMA NamedFive ==
  ASSUME NEW i \in 0..80
  PROVE  /\ Named(0, i) \in 0..4 /\ Named(1, i) \in 0..4 /\ Named(2, i) \in 0..4
         /\ Named(3, i) \in 0..4 /\ Named(4, i) \in 0..4
         /\ Named(0, i) # Named(1, i) /\ Named(0, i) # Named(2, i) /\ Named(0, i) # Named(3, i)
         /\ Named(0, i) # Named(4, i) /\ Named(1, i) # Named(2, i) /\ Named(1, i) # Named(3, i)
         /\ Named(1, i) # Named(4, i) /\ Named(2, i) # Named(3, i) /\ Named(2, i) # Named(4, i)
         /\ Named(3, i) # Named(4, i)
         /\ Named(0, i + 1) = Named(4, i) /\ Named(1, i + 1) = Named(0, i)
         /\ Named(2, i + 1) = Named(1, i) /\ Named(3, i + 1) = Named(2, i)
         /\ Named(4, i + 1) = Named(3, i)
  BY DEF Named

(* Before the first round and after the last, the variables are in order.   *)
LEMMA NamedStart ==
  \A k \in 0..4 : Named(k, 0) = k /\ Named(k, 80) = k
  BY DEF Named

(* The code's forms of the three functions are those of the standard.       *)
LEMMA SameMix ==
  ASSUME NEW i \in 0..79, NEW w \in Word, NEW x \in Word, NEW y \in Word
  PROVE  Mix(i, w, x, y) = StandardMix(i, w, x, y)
<1>1. Xor(w \cap Xor(x, y), y) = (w \cap x) \cup (Complement(w) \cap y)
  BY DEF Xor, Complement, Word
<1>2. ((w \cup x) \cap y) \cup (w \cap x) = (w \cap x) \cup (w \cap y) \cup (x \cap y)
  OBVIOUS
<1>3. Xor(Xor(w, x), y) = Xor(w, Xor(x, y))
  BY DEF Xor
<1> QED
  BY <1>1, <1>2, <1>3, Zenon DEF Mix, StandardMix

(* A round leaves the variables, under the names of the next one, as the    *)
(* standard does.                                                           *)
LEMMA RoundFollows ==
  ASSUME NEW i \in 0..79, NEW w5 \in FiveWords, NEW s, Follows(w5, s.vars, i),
         NEW M, NEW word, word = ScheduleWord(M, s.W, i)
  PROVE  /\ Round(w5, i, word) \in FiveWords
         /\ Follows(Round(w5, i, word), StandardRound(M, s, i).vars, i + 1)
<1> DEFINE n0 == Named(0, i)
           n1 == Named(1, i)
           n2 == Named(2, i)
           n3 == Named(3, i)
           n4 == Named(4, i)
           sum == Plus(w5[n4], Plus(Plus(Plus(Mix(i, w5[n1], w5[n2], w5[n3]), word), Constant(i)), rol(w5[n0], 5)))
           r == Round(w5, i, word)
           t == StandardRound(M, s, i)
<1>1. n0 \in 0..4 /\ n1 \in 0..4 /\ n2 \in 0..4 /\ n3 \in 0..4 /\ n4 \in 0..4
  BY NamedFive
<1>2. r = [w5 EXCEPT ![n4] = sum, ![n1] = rol(w5[n1], 30)]
  BY DEF Round
<1>3. Mix(i, w5[n1], w5[n2], w5[n3]) = StandardMix(i, s.vars[2], s.vars[3], s.vars[4])
  <2>1. w5[n1] \in Word /\ w5[n2] \in Word /\ w5[n3] \in Word
    BY <1>1 DEF FiveWords
  <2> QED  BY <2>1, SameMix DEF Follows
<1>4. t.vars = <<sum, w5[n0], rol(w5[n1], 30), w5[n2], w5[n3]>>
  BY <1>3, Zenon DEF StandardRound, Follows
<1>5. sum \in Word /\ rol(w5[n1], 30) \in Word
  BY WordTypes
<1>6. n0 # n1 /\ n0 # n2 /\ n0 # n3 /\ n0 # n4 /\ n1 # n2 /\ n1 # n3 /\ n1 # n4
      /\ n2 # n3 /\ n2 # n4 /\ n3 # n4
  BY NamedFive
<1>7. Named(0, i + 1) = n4 /\ Named(1, i + 1) = n0 /\ Named(2, i + 1) = n1
      /\ Named(3, i + 1) = n2 /\ Named(4, i + 1) = n3
  BY NamedFive
<1> HIDE DEF n0, n1, n2, n3, n4, sum, r, t
<1>8. r \in FiveWords
  BY <1>1, <1>2, <1>5 DEF FiveWords
<1>9. /\ r[n4] = sum /\ r[n0] = w5[n0] /\ r[n1] = rol(w5[n1], 30) /\ r[n2] = w5[n2] /\ r[n3] = w5[n3]
  BY <1>1, <1>2, <1>6 DEF FiveWords
<1>10. /\ t.vars[1] = sum /\ t.vars[2] = w5[n0] /\ t.vars[3] = rol(w5[n1], 30)
       /\ t.vars[4] = w5[n2] /\ t.vars[5] = w5[n3]
  BY <1>4
<1>11. Follows(r, t.vars, i + 1)
  BY <1>7, <1>9, <1>10 DEF Follows
<1> QED
  BY <1>8, <1>11 DEF r, t

(* Expanding the message over itself gives the next word of the schedule, and*)
(* keeps the last sixteen.                                                  *)
LEMMA ScheduleFollows ==
  ASSUME NEW i \in 0..79, NEW words \in Sixteen, NEW M \in Sixteen,
         NEW W \in Seq(Word), Len(W) = i, Schedules(words, M, W, i)
  PROVE  LET word == ScheduleWord(M, W, i)
             block16 == Expanded(words, i)
         IN  /\ block16 \in Sixteen /\ word \in Word
             /\ block16[i % 16] = word
             /\ Schedules(block16, M, Append(W, word), i + 1)
<1> DEFINE word == ScheduleWord(M, W, i)
           block16 == Expanded(words, i)
<1>1. i % 16 \in 0..15
  OBVIOUS
<1>2. block16 \in Sixteen /\ word \in Word
  <2>1. CASE i < 16
    BY <2>1 DEF Expanded, ScheduleWord, Sixteen
  <2>2. CASE ~(i < 16)
    <3>1. blk(words, i) \in Word /\ word \in Word
      BY <2>2, WordTypes DEF blk, ScheduleWord
    <3> QED  BY <2>2, <3>1, <1>1 DEF Expanded, Sixteen
  <2> QED  BY <2>1, <2>2
<1>3. block16[i % 16] = word
  <2>1. CASE i < 16
    <3>1. i % 16 = i /\ i <= 16
      BY <2>1
    <3>2. words = M
      BY <3>1 DEF Schedules
    <3> QED  BY <2>1, <3>1, <3>2 DEF Expanded, ScheduleWord
  <2>2. CASE ~(i < 16)
    <3>1. /\ (i + 13) % 16 = (i - 2 - 1) % 16 /\ (i + 8) % 16 = (i - 7 - 1) % 16
          /\ (i + 2) % 16 = (i - 13 - 1) % 16 /\ i % 16 = (i - 15 - 1) % 16
      BY <2>2
    <3>2. ASSUME NEW t \in {i - 2, i - 7, i - 13, i - 15}
          PROVE  words[(t - 1) % 16] = W[t]
      BY <2>2 DEF Schedules
    <3>3. /\ words[(i + 13) % 16] = W[i - 2] /\ words[(i + 8) % 16] = W[i - 7]
          /\ words[(i + 2) % 16] = W[i - 13] /\ words[i % 16] = W[i - 15]
      BY <3>1, <3>2
    <3>4. blk(words, i) = word
      BY <2>2, <3>3, Zenon DEF blk, ScheduleWord
    <3>5. block16 = [words EXCEPT ![i % 16] = blk(words, i)]
      BY <2>2 DEF Expanded
    <3> QED  BY <3>4, <3>5, <1>1 DEF Sixteen
  <2> QED  BY <2>1, <2>2
<1>4. \A j \in 0..15 : j # i % 16 => block16[j] = words[j]
  BY DEF Expanded, Sixteen
<1>5. i + 1 <= 16 => block16 = M
  BY DEF Expanded, Schedules
<1> HIDE DEF word, block16
<1>6. ASSUME NEW t \in 1..(i + 1), t > i + 1 - 16
      PROVE  block16[(t - 1) % 16] = Append(W, word)[t]
  <2>1. CASE t = i + 1
    <3>1. Append(W, word)[t] = word
      BY <1>2, <2>1
    <3> QED  BY <2>1, <3>1, <1>3
  <2>2. CASE t # i + 1
    <3>1. t \in 1..i /\ t > i - 16 /\ (t - 1) % 16 \in 0..15 /\ (t - 1) % 16 # i % 16
      BY <1>6, <2>2
    <3>2. Append(W, word)[t] = W[t]
      BY <1>2, <3>1
    <3>3. words[(t - 1) % 16] = W[t]
      BY <3>1 DEF Schedules
    <3> QED  BY <3>1, <3>2, <3>3, <1>4
  <2> QED  BY <2>1, <2>2
<1>7. Schedules(block16, M, Append(W, word), i + 1)
  BY <1>5, <1>6 DEF Schedules
<1> QED
  BY <1>2, <1>3, <1>7 DEF word, block16

(* The standard's rounds, and that each adds a word to the schedule.        *)
LEMMA StandardTypes ==
  /\ \A s \in FiveWords : StandardStart(s) \in Standard /\ Len(StandardStart(s).W) = 0
  /\ \A i \in 0..79 : \A M \in Sixteen : \A s \in Standard :
       Len(s.W) = i => /\ StandardRound(M, s, i) \in Standard
                       /\ Len(StandardRound(M, s, i).W) = i + 1
                       /\ StandardRound(M, s, i).W = Append(s.W, ScheduleWord(M, s.W, i))
<1>1. ASSUME NEW s \in FiveWords
      PROVE  StandardStart(s) \in Standard /\ Len(StandardStart(s).W) = 0
  BY DEF StandardStart, Standard, FiveWords
<1>2. ASSUME NEW i \in 0..79, NEW M \in Sixteen, NEW s \in Standard, Len(s.W) = i
      PROVE  /\ StandardRound(M, s, i) \in Standard
             /\ Len(StandardRound(M, s, i).W) = i + 1
             /\ StandardRound(M, s, i).W = Append(s.W, ScheduleWord(M, s.W, i))
  <2> DEFINE word == ScheduleWord(M, s.W, i)
             v == s.vars
             temp == Plus(v[5], Plus(Plus(Plus(StandardMix(i, v[2], v[3], v[4]), word), Constant(i)),
                                     rol(v[1], 5)))
             t == StandardRound(M, s, i)
  <2>1. word \in Word
    <3>1. CASE i < 16
      BY <3>1 DEF ScheduleWord, Sixteen
    <3>2. CASE ~(i < 16)
      BY <3>2, WordTypes DEF ScheduleWord
    <3> QED  BY <3>1, <3>2
  <2>2. t = [W |-> Append(s.W, word), vars |-> <<temp, v[1], rol(v[2], 30), v[3], v[4]>>]
    BY DEF StandardRound
  <2>3. temp \in Word /\ rol(v[2], 30) \in Word
    BY WordTypes
  <2> HIDE DEF word, temp, t
  <2>4. v[1] \in Word /\ v[3] \in Word /\ v[4] \in Word
    BY DEF Standard
  <2>5. Append(s.W, word) \in Seq(Word) /\ Len(Append(s.W, word)) = i + 1
    BY <1>2, <2>1 DEF Standard
  <2>6. <<temp, v[1], rol(v[2], 30), v[3], v[4]>> \in Word \X Word \X Word \X Word \X Word
    BY <2>3, <2>4
  <2>7. t \in Standard /\ Len(t.W) = i + 1 /\ t.W = Append(s.W, word)
    <3> HIDE DEF v
    <3> QED  BY <2>2, <2>5, <2>6 DEF Standard
  <2> QED  BY <2>7 DEF t, word
<1> QED
  BY <1>1, <1>2

(* The record after each of the eighty rounds.                              *)
LEMMA StandardRecord ==
  ASSUME NEW s \in FiveWords, NEW M \in Sixteen
  PROVE  LET c == StandardAfter(s, M)
         IN  /\ c[0] = StandardStart(s)
             /\ \A i \in 1..80 : c[i] = StandardRound(M, c[i - 1], i - 1)
             /\ \A i \in 0..80 : c[i] \in Standard /\ Len(c[i].W) = i
<1> DEFINE Turn(i, x) == StandardRound(M, x, i - 1)
           V == [i \in 0..80 |-> {x \in Standard : Len(x.W) = i}]
           D == [i \in 1..80 |-> [x \in V[i - 1] |-> Turn(i, x)]]
           F(g) == [i \in 0..80 |-> IF i = 0 THEN StandardStart(s) ELSE Turn(i, g[i - 1])]
<1>1. \A i \in 0..80 : \A x : x \in V[i] <=> x \in Standard /\ Len(x.W) = i
  OBVIOUS
<1>2. \A i \in 1..80 : \A x \in V[i - 1] : D[i][x] = Turn(i, x)
  OBVIOUS
<1>3. StandardStart(s) \in V[0]
  BY StandardTypes
<1> HIDE DEF V, D
<1>4. \A i \in 1..80 : \A x \in V[i - 1] : D[i][x] \in V[i]
  <2> TAKE i \in 1..80
  <2> TAKE x \in V[i - 1]
  <2>1. i - 1 \in 0..80 /\ i - 1 \in 0..79 /\ i \in 0..80 /\ (i - 1) + 1 = i
    OBVIOUS
  <2>2. x \in Standard /\ Len(x.W) = i - 1
    BY <1>1, <2>1
  <2>3. Turn(i, x) \in Standard /\ Len(Turn(i, x).W) = (i - 1) + 1
    BY <2>1, <2>2, StandardTypes
  <2> HIDE DEF Turn
  <2> QED  BY <2>1, <2>3, <1>1, <1>2
<1>5. PICK g : g = [i \in 0..80 |-> g[i]] /\ StepsFrom(g, StandardStart(s), V, D, 80)
  BY <1>3, <1>4, Recursion
<1>6. g = F(g)
  <2>1. ASSUME NEW i \in 0..80
        PROVE  g[i] = IF i = 0 THEN StandardStart(s) ELSE Turn(i, g[i - 1])
    <3>1. CASE i = 0
      BY <3>1, <1>5 DEF StepsFrom
    <3>2. CASE i # 0
      <4>1. i \in 1..80 /\ i - 1 \in 0..80
        BY <3>2
      <4> HIDE DEF Turn
      <4> QED  BY <3>2, <4>1, <1>2, <1>5 DEF StepsFrom
    <3> QED  BY <3>1, <3>2
  <2>2. [i \in 0..80 |-> g[i]] = F(g)
    BY <2>1, Zenon
  <2> QED  BY <1>5, <2>2
<1> DEFINE c == StandardAfter(s, M)
<1>7. c = CHOOSE h : h = F(h)
  BY DEF StandardAfter
<1>8. c = F(c)
  BY <1>6, <1>7
<1>9. c[0] = StandardStart(s) /\ \A i \in 1..80 : c[i] = Turn(i, c[i - 1])
  <2> HIDE DEF c, Turn
  <2>1. ASSUME NEW i \in 0..80
        PROVE  c[i] = IF i = 0 THEN StandardStart(s) ELSE Turn(i, c[i - 1])
    BY <1>8
  <2> QED  BY <2>1
<1> HIDE DEF c
<1>10. \A i \in 0..80 : c[i] \in V[i]
  <2> HIDE DEF Turn
  <2>1. \A i \in 1..80 : c[i - 1] \in V[i - 1] => c[i] = D[i][c[i - 1]]
    BY <1>2, <1>9
  <2>2. c[0] \in V[0] /\ 80 \in Nat
    BY <1>3, <1>9
  <2> HIDE DEF F
  <2> QED  BY <2>1, <2>2, <1>4, RecursionTypes, SMTT(60)
<1> QED
  BY <1>1, <1>9, <1>10 DEF c

-----------------------------------------------------------------------------
(* Types and counts.                                                        *)

(* What the sizes are known to be: a page is whole blocks of both kinds.    *)
LEMMA Sizes ==
  /\ NAND_PAGE_SIZE \in Nat /\ NAND_PAGE_SIZE > 0
  /\ NAND_PAGE_SIZE \div 16 \in Nat /\ NAND_PAGE_SIZE = 16 * (NAND_PAGE_SIZE \div 16)
  /\ NAND_PAGE_SIZE \div 64 \in Nat /\ NAND_PAGE_SIZE = 64 * (NAND_PAGE_SIZE \div 64)
  /\ NAND_PAGE_SIZE \div 16 > 0 /\ NAND_PAGE_SIZE \div 64 > 0
  /\ NAND_ECC_SIZE \in Nat /\ BOOT1_PAGE_SIZE \in Nat /\ BOOT1_PAGE_SIZE > 0
<1>1. /\ NAND_PAGE_SIZE \in Nat /\ NAND_PAGE_SIZE > 0 /\ NAND_PAGE_SIZE % 64 = 0
      /\ NAND_ECC_SIZE \in Nat /\ BOOT1_PAGE_SIZE \in Nat /\ BOOT1_PAGE_SIZE > 0
  BY Boot1Assumption DEF Boot1Assumption, SHA_BLOCK
<1> QED
  BY <1>1

(* The bytes of a block are a block.                                        *)
LEMMA BlockBytes == Bytes(AES_BLOCKLEN) = Block /\ ZeroBytes(AES_BLOCKLEN) \in Block
  BY DEF Bytes, AES_BLOCKLEN, Block, ZeroBytes, Octet

(* Going on from block to block stays in the page.                          *)
LEMMA BlocksOfPage ==
  /\ \A b \in AesBlocks : b \in Nat /\ b < NAND_PAGE_SIZE \div 16
  /\ \A b \in AesBlocks : (b + 1) * 16 # NAND_PAGE_SIZE => b + 1 \in AesBlocks
  /\ \A b \in ShaBlocks : b \in Nat /\ b < NAND_PAGE_SIZE \div 64 /\ (b + 1) * 64 <= NAND_PAGE_SIZE
  /\ \A b \in ShaBlocks : (b + 1) * 64 < NAND_PAGE_SIZE => b + 1 \in ShaBlocks
  /\ 0 \in AesBlocks /\ 0 \in ShaBlocks
  BY Sizes DEF AesBlocks, ShaBlocks, AES_BLOCKLEN, SHA_BLOCK

(* A part of a page is a block.                                             *)
LEMMA PartOfPage ==
  ASSUME NEW page \in Bytes(NAND_PAGE_SIZE), NEW b \in AesBlocks
  PROVE  Part(page, AES_BLOCKLEN, b) \in Block
<1>1. ASSUME NEW i \in 0..15
      PROVE  16 * b + i \in 0..(NAND_PAGE_SIZE - 1)
  BY Sizes, BlocksOfPage
<1> QED
  BY <1>1 DEF Part, Bytes, AES_BLOCKLEN, Block

(* A part of a page is sixteen words.                                       *)
LEMMA MessageTypes ==
  \A bytes : blk0(bytes) \in Sixteen
  BY DEF blk0, Sixteen, Word

(* Adding a block twice gives the first back.                               *)
LEMMA BlocksSummed ==
  ASSUME NEW a \in Block, NEW b \in Block
  PROVE  XorBlocks(a, b) \in Block /\ XorBlocks(XorBlocks(a, b), b) = a
<1>1. \A n \in 0..15 : a[n] \in Octet /\ b[n] \in Octet
  BY DEF Block
<1>2. XorBlocks(a, b) \in Block
  BY <1>1, XorType DEF XorBlocks, Block
<1>3. \A n \in 0..15 : XorBlocks(XorBlocks(a, b), b)[n] = a[n]
  BY XorSelf DEF XorBlocks
<1> QED
  BY <1>2, <1>3 DEF XorBlocks, Block

(* A dump has a key and bytes.                                              *)
LEMMA DumpTypes ==
  ASSUME NEW d \in Dumps
  PROVE  d.key \in Block /\ d.bytes \in Seq(Octet) /\ Len(d.bytes) \in Nat
  BY Boot1Assumption, BlockBytes DEF Boot1Assumption

(* The first state.                                                         *)
LEMMA InitTypes == Init => TypeOK /\ Progress
<1> SUFFICES ASSUME Init PROVE TypeOK /\ Progress
  OBVIOUS
<1>1. page_buffer \in Bytes(NAND_PAGE_SIZE)
  BY DEF Init, ZeroBytes, Bytes, Octet
<1>2. position \in 0..Len(dump.bytes)
  BY DumpTypes DEF Init
<1>3. Iv \in Bytes(AES_BLOCKLEN) /\ state \in Bytes(AES_BLOCKLEN)
  BY BlockBytes DEF Init
<1>4. sha \in FiveWords /\ working \in FiveWords /\ workspace \in [0..15 -> Word]
  BY StateTypes DEF Init, Word
<1>5. standard \in Standard
  BY StateTypes, StandardTypes DEF Init
<1>6. boot1_buffer \in Seq(Bytes(NAND_PAGE_SIZE)) /\ Len(boot1_buffer) <= BOOT1_PAGE_SIZE
  BY Sizes DEF Init
<1>7. RoundKey \in Seq(KeyWord)
  BY DEF Init
<1> QED
  BY <1>1, <1>2, <1>3, <1>4, <1>5, <1>6, <1>7 DEF Init, TypeOK, Places, Progress, Reading

(* The steps at the two ends of the tool.                                   *)
LEMMA OpenTypes ==
  ASSUME TypeOK, Progress, OpenFails \/ Open \/ Save
  PROVE  TypeOK' /\ Progress'
<1>1. CASE OpenFails
  BY <1>1 DEF OpenFails, TypeOK, Places, Progress, Reading, files, aes, hash
<1>2. CASE Open
  <2>1. dump.key \in Block
    BY DumpTypes DEF TypeOK
  <2>2. RoundKey' \in Seq(KeyWord) /\ Len(RoundKey') = Nk /\ round' = Nk /\ Nk \in Nk..(KeyWords - 1)
    BY <1>2, <2>1, ExpansionTypes DEF Open, Nk, KeyWords, Nb, Nr
  <2> QED
    BY <1>2, <2>2 DEF Open, TypeOK, Places, Progress, Reading, files, hash
<1>3. CASE Save
  BY <1>3 DEF Save, TypeOK, Places, Progress, Reading, files, aes, hash
<1> QED
  BY <1>1, <1>2, <1>3

(* The key schedule grows to its length.                                    *)
LEMMA ExpandTypes ==
  ASSUME TypeOK, Progress, ExpandWord
  PROVE  TypeOK' /\ Progress'
<1>1. RoundKey \in Seq(KeyWord) /\ Len(RoundKey) = round /\ round \in Nk..(KeyWords - 1)
  BY DEF TypeOK, ExpandWord
<1>2. round \in Nat /\ round >= Nk
  BY <1>1 DEF Nk, KeyWords, Nb, Nr
<1>3. RoundKey' \in Seq(KeyWord) /\ Len(RoundKey') = round + 1 /\ round' = round + 1
  BY <1>1, <1>2, ExpansionTypes DEF ExpandWord
<1>4. round + 1 # KeyWords => round' \in Nk..(KeyWords - 1)
  BY <1>1, <1>3 DEF Nk, KeyWords, Nb, Nr
<1>5. pc' = (IF round + 1 = KeyWords THEN "read" ELSE "expand") /\ pc = "expand"
  BY DEF ExpandWord
<1>6. boot1_buffer = <<>> /\ Len(boot1_buffer) < BOOT1_PAGE_SIZE
  BY <1>5, Sizes DEF Progress
<1>7. UNCHANGED <<files, page_buffer, Iv, state, hash, block>>
  BY DEF ExpandWord
<1>8. TypeOK'
  BY <1>3, <1>4, <1>5, <1>7 DEF TypeOK, Places, files, hash
<1>9. Progress'
  BY <1>5, <1>6, <1>7 DEF Progress, Reading, files, hash
<1> QED
  BY <1>8, <1>9

(* Reading a page, whole or not.                                            *)
LEMMA ReadTypes ==
  ASSUME TypeOK, Progress, ReadPage
  PROVE  TypeOK' /\ Progress'
<1>1. dump \in Dumps /\ dump.bytes \in Seq(Octet) /\ Len(dump.bytes) \in Nat
      /\ position \in 0..Len(dump.bytes) /\ page_buffer \in Bytes(NAND_PAGE_SIZE)
  BY DumpTypes DEF TypeOK
<1>2. \A n \in 0..(NAND_PAGE_SIZE - 1) :
        (IF position + n < Len(dump.bytes) THEN dump.bytes[position + n + 1] ELSE page_buffer[n]) \in Octet
  <2> TAKE n \in 0..(NAND_PAGE_SIZE - 1)
  <2>1. position + n < Len(dump.bytes) => position + n + 1 \in 1..Len(dump.bytes)
    BY <1>1, Sizes
  <2>2. page_buffer[n] \in Octet
    BY <1>1 DEF Bytes
  <2> QED  BY <1>1, <2>1, <2>2
<1>3. page_buffer' \in Bytes(NAND_PAGE_SIZE)
  BY <1>2 DEF ReadPage, Bytes
<1>4. position' \in 0..Len(dump.bytes)
  BY <1>1, Sizes DEF ReadPage, AfterPage
<1>5. pc = "read" /\ pc' = "decrypt" /\ block' = 0
      /\ UNCHANGED <<dump, boot1_buffer, aes, hash, round>>
  BY DEF ReadPage
<1>6. TypeOK'
  BY <1>3, <1>4, <1>5, BlocksOfPage DEF TypeOK, Places, aes, hash
<1>7. Progress'
  BY <1>5 DEF Progress, Reading
<1> QED
  BY <1>6, <1>7

(* Starting a block and the rounds on it.                                   *)
LEMMA DecryptTypes ==
  ASSUME TypeOK, Progress, StartBlock \/ DecryptRound
  PROVE  TypeOK' /\ Progress'
<1>1. RoundKey \in Seq(KeyWord) /\ Len(RoundKey) = KeyWords /\ state \in Block /\ block \in AesBlocks
      /\ page_buffer \in Bytes(NAND_PAGE_SIZE)
  BY BlockBytes DEF TypeOK, StartBlock, DecryptRound
<1>2. CASE StartBlock
  <2>1. state' \in Block
    <3>1. CipherBlock \in Block
      BY <1>1, PartOfPage DEF CipherBlock
    <3>2. Nr \in 0..Nr
      BY DEF Nr
    <3> QED  BY <1>1, <1>2, <3>1, <3>2, KeyAdded DEF StartBlock, StartInvCipher
  <2>2. round' \in -1..(Nr - 1)
    BY <1>2 DEF StartBlock, Nr
  <2>3. pc = "decrypt" /\ pc' = "rounds" /\ UNCHANGED <<files, page_buffer, RoundKey, Iv, hash, block>>
    BY <1>2 DEF StartBlock
  <2>4. TypeOK'
    BY <2>1, <2>2, <2>3, BlockBytes DEF TypeOK, Places, files, hash
  <2>5. Progress'
    BY <2>3 DEF Progress, Reading, files, hash
  <2> QED  BY <2>4, <2>5
<1>3. CASE DecryptRound
  <2>1. round \in 0..(Nr - 1)
    BY <1>3 DEF DecryptRound, TypeOK, Nr
  <2>2. state' \in Block /\ round' \in -1..(Nr - 1)
    BY <1>1, <1>3, <2>1, RoundUndone DEF DecryptRound, Nr
  <2>3. pc = "rounds" /\ UNCHANGED <<pc, files, page_buffer, RoundKey, Iv, hash, block>>
    BY <1>3 DEF DecryptRound
  <2>4. TypeOK'
    BY <2>2, <2>3, BlockBytes DEF TypeOK, Places, files, hash
  <2>5. Progress'
    BY <2>3 DEF Progress, Reading, files, hash
  <2> QED  BY <2>4, <2>5
<1> QED
  BY <1>2, <1>3

(* Putting a block back.                                                    *)
LEMMA FinishBlockTypes ==
  ASSUME TypeOK, Progress, FinishBlock
  PROVE  TypeOK' /\ Progress'
<1>1. state \in Block /\ Iv \in Block /\ block \in AesBlocks /\ page_buffer \in Bytes(NAND_PAGE_SIZE)
  BY BlockBytes DEF TypeOK, FinishBlock
<1> DEFINE plain == XorBlocks(state, Iv)
<1>2. plain \in Block
  BY <1>1, BlocksSummed
<1>3. page_buffer' = [n \in DOMAIN page_buffer |->
                        IF n \div 16 = block THEN plain[n % 16] ELSE page_buffer[n]]
  BY DEF FinishBlock, AES_BLOCKLEN
<1>4. Iv' \in Block
  <2>1. CipherBlock \in Block
    BY <1>1, PartOfPage DEF CipherBlock
  <2> QED  BY <2>1 DEF FinishBlock, NextIv
<1> HIDE DEF plain
<1>5. page_buffer' \in Bytes(NAND_PAGE_SIZE)
  <2>1. DOMAIN page_buffer = 0..(NAND_PAGE_SIZE - 1) /\ \A n \in 0..(NAND_PAGE_SIZE - 1) : page_buffer[n] \in Octet
    BY <1>1 DEF Bytes
  <2>2. \A n \in 0..(NAND_PAGE_SIZE - 1) : n % 16 \in 0..15
    BY Sizes
  <2>3. \A n \in 0..15 : plain[n] \in Octet
    BY <1>2 DEF Block
  <2> QED  BY <1>3, <2>1, <2>2, <2>3 DEF Bytes
<1>6. pc = "rounds" /\ block' = block + 1 /\ UNCHANGED <<files, RoundKey, state, hash, round>>
      /\ pc' = IF (block + 1) * 16 = NAND_PAGE_SIZE THEN "copy" ELSE "decrypt"
  BY DEF FinishBlock, AES_BLOCKLEN
<1>7. (block + 1) * 16 # NAND_PAGE_SIZE => block' \in AesBlocks
  BY <1>1, <1>6, BlocksOfPage
<1>8. TypeOK'
  BY <1>4, <1>5, <1>6, <1>7, BlockBytes DEF TypeOK, Places, files, hash
<1>9. Progress'
  BY <1>1, <1>6, BlocksOfPage DEF Progress, Reading, AES_BLOCKLEN, files, hash
<1> QED
  BY <1>8, <1>9

(* A page is added while there is room for one.                             *)
LEMMA CopyTypes ==
  ASSUME TypeOK, Progress, CopyPage
  PROVE  TypeOK' /\ Progress'
<1>1. /\ boot1_buffer \in Seq(Bytes(NAND_PAGE_SIZE)) /\ page_buffer \in Bytes(NAND_PAGE_SIZE)
      /\ Len(boot1_buffer) < BOOT1_PAGE_SIZE
  BY DEF TypeOK, Progress, Reading, CopyPage
<1>2. boot1_buffer' = Append(boot1_buffer, page_buffer)
  BY DEF CopyPage
<1>3. /\ boot1_buffer' \in Seq(Bytes(NAND_PAGE_SIZE))
      /\ Len(boot1_buffer') = Len(boot1_buffer) + 1 /\ Len(boot1_buffer) \in Nat
      /\ boot1_buffer'[Len(boot1_buffer')] = page_buffer
  BY <1>1, <1>2
<1>4. pc = "copy" /\ pc' = "update" /\ block' = 0
      /\ UNCHANGED <<dump, position, page_buffer, aes, hash, round>>
  BY DEF CopyPage
<1>5. TypeOK'
  BY <1>1, <1>3, <1>4, BlocksOfPage, Sizes DEF TypeOK, Places, aes, hash
<1>6. Progress'
  BY <1>1, <1>3, <1>4 DEF Progress, Reading
<1> QED
  BY <1>5, <1>6

(* Starting a block of the message and the rounds on it.                    *)
LEMMA TransformTypes ==
  ASSUME TypeOK, Progress, StartTransform \/ TransformRound
  PROVE  TypeOK' /\ Progress'
<1>1. sha \in FiveWords /\ working \in FiveWords /\ workspace \in Sixteen /\ standard \in Standard
      /\ MessageBlock \in Sixteen
  BY MessageTypes DEF TypeOK, Sixteen, MessageBlock
<1>2. CASE StartTransform
  <2>1. workspace' \in Sixteen /\ working' \in FiveWords /\ standard' \in Standard
        /\ Len(standard'.W) = 0 /\ round' = 0
    BY <1>1, <1>2, StandardTypes DEF StartTransform
  <2>2. pc = "update" /\ pc' = "transform" /\ UNCHANGED <<files, page_buffer, aes, sha, block>>
    BY <1>2 DEF StartTransform
  <2>3. TypeOK'
    BY <2>1, <2>2 DEF TypeOK, Places, Sixteen, files, aes
  <2>4. Progress'
    BY <2>2 DEF Progress, Reading, files, aes
  <2> QED  BY <2>3, <2>4
<1>3. CASE TransformRound
  <2>1. round \in 0..79 /\ Len(standard.W) = round
    BY <1>3 DEF TransformRound, TypeOK
  <2>2. workspace' \in Sixteen
    <3>1. \A i : blk(workspace, i) \in Word
      BY WordTypes DEF blk
    <3> QED  BY <1>1, <1>3, <3>1 DEF TransformRound, Expanded, Sixteen
  <2>3. working' \in FiveWords
    <3>1. \A w5 \in FiveWords : \A i, word : Round(w5, i, word) \in FiveWords
      BY WordTypes DEF Round, FiveWords
    <3> QED  BY <1>1, <1>3, <3>1 DEF TransformRound
  <2>4. standard' \in Standard /\ Len(standard'.W) = round + 1
    BY <1>1, <1>3, <2>1, StandardTypes DEF TransformRound
  <2>5. pc = "transform" /\ round' = round + 1 /\ UNCHANGED <<pc, files, page_buffer, aes, sha, block>>
    BY <1>3 DEF TransformRound
  <2>6. TypeOK'
    BY <2>1, <2>2, <2>3, <2>4, <2>5 DEF TypeOK, Places, Sixteen, files, aes
  <2>7. Progress'
    BY <2>5 DEF Progress, Reading, files, aes
  <2> QED  BY <2>6, <2>7
<1> QED
  BY <1>2, <1>3

(* Where the tool goes on from a block that is hashed.                      *)
LEMMA AfterTransform ==
  ASSUME TypeOK, FinishTransform
  PROVE  pc' = IF (block + 1) * 64 < NAND_PAGE_SIZE THEN "update"
               ELSE IF Len(boot1_buffer) < BOOT1_PAGE_SIZE THEN "read" ELSE "save"
<1> DEFINE next == IF Len(boot1_buffer) < BOOT1_PAGE_SIZE THEN "read" ELSE "save"
<1>1. block \in ShaBlocks
  BY DEF TypeOK, FinishTransform
<1>2. (block + 1) * 64 < NAND_PAGE_SIZE \/ (block + 1) * 64 = NAND_PAGE_SIZE
  BY <1>1, BlocksOfPage, Sizes
<1>3. ~((block + 1) * 64 < NAND_PAGE_SIZE /\ (block + 1) * 64 = NAND_PAGE_SIZE)
  BY <1>1, BlocksOfPage, Sizes
<1>4. pc' = CASE (block + 1) * 64 < NAND_PAGE_SIZE -> "update"
            [] (block + 1) * 64 = NAND_PAGE_SIZE -> next
  BY Zenon DEF FinishTransform, SHA_BLOCK
<1> HIDE DEF next
<1>5. pc' = IF (block + 1) * 64 < NAND_PAGE_SIZE THEN "update" ELSE next
  BY <1>2, <1>3, <1>4, Zenon
<1> QED
  BY <1>5 DEF next

(* Adding the variables to the state.                                       *)
LEMMA FinishTransformTypes ==
  ASSUME TypeOK, Progress, FinishTransform
  PROVE  TypeOK' /\ Progress'
<1>1. block \in ShaBlocks /\ pc = "transform"
  BY DEF TypeOK, FinishTransform
<1>2. pc' = IF (block + 1) * 64 < NAND_PAGE_SIZE THEN "update"
            ELSE IF Len(boot1_buffer) < BOOT1_PAGE_SIZE THEN "read" ELSE "save"
  BY AfterTransform
<1>3. block' = block + 1 /\ UNCHANGED <<files, page_buffer, aes, working, workspace, standard, round>>
  BY DEF FinishTransform
<1>4. (block + 1) * 64 < NAND_PAGE_SIZE => block' \in ShaBlocks
  BY <1>1, <1>3, BlocksOfPage
<1>5. sha' \in FiveWords
  BY StateTypes DEF FinishTransform
<1>6. TypeOK'
  BY <1>1, <1>2, <1>3, <1>4, <1>5 DEF TypeOK, Places, files, aes
<1>7. Progress'
  BY <1>1, <1>2, <1>3 DEF Progress, Reading, files, aes
<1> QED
  BY <1>6, <1>7

(* Every step keeps the types and the counts.                               *)
LEMMA NextTypes ==
  ASSUME TypeOK, Progress, [Next]_vars
  PROVE  TypeOK' /\ Progress'
<1>1. CASE UNCHANGED vars
  BY <1>1 DEF TypeOK, Progress, Reading, vars, files, aes, hash
<1>2. CASE Next
  BY <1>2, OpenTypes, ExpandTypes, ReadTypes, DecryptTypes, FinishBlockTypes, CopyTypes,
     TransformTypes, FinishTransformTypes DEF Next
<1> QED
  BY <1>1, <1>2

(* The types, with the length of the key schedule and of the standard's: for*)
(* every size of a page and number of pages, and every dump.                *)
THEOREM TypeCorrect == Spec => []TypeOK
<1>1. TypeOK /\ Progress /\ [Next]_vars => TypeOK' /\ Progress'
  BY NextTypes
<1> QED
  BY <1>1, InitTypes, PTL DEF Spec

-----------------------------------------------------------------------------
(* The rounds of both algorithms.                                           *)

(* A step of the tool keeps the rounds with the standard.                   *)
LEMMA RoundsStep ==
  ASSUME TypeOK, Progress, RoundsRight, [Next]_vars
  PROVE  RoundsRight'
<1>1. CASE StartTransform
  <2>1. sha \in FiveWords /\ MessageBlock \in Sixteen
    BY MessageTypes DEF TypeOK, MessageBlock
  <2>2. MessageBlock' = MessageBlock
    BY <1>1 DEF StartTransform, MessageBlock
  <2>3. working' = sha /\ workspace' = MessageBlock /\ standard' = StandardStart(sha) /\ round' = 0
        /\ sha' = sha
    BY <1>1 DEF StartTransform
  <2>4. Follows(working', standard'.vars, 0)
    BY <2>3, NamedStart DEF Follows, StandardStart
  <2>5. Schedules(workspace', MessageBlock', standard'.W, 0)
    BY <2>2, <2>3 DEF Schedules
  <2>6. standard' = StandardAfter(sha', MessageBlock')[0]
    BY <2>1, <2>2, <2>3, StandardRecord
  <2> QED  BY <2>3, <2>4, <2>5, <2>6 DEF RoundsRight
<1>2. CASE TransformRound
  <2>1. /\ working \in FiveWords /\ workspace \in Sixteen /\ standard \in Standard
        /\ MessageBlock \in Sixteen /\ sha \in FiveWords
        /\ round \in 0..79 /\ Len(standard.W) = round
    BY <1>2, MessageTypes DEF TypeOK, Sixteen, MessageBlock, TransformRound
  <2>2. /\ Follows(working, standard.vars, round)
        /\ Schedules(workspace, MessageBlock, standard.W, round)
        /\ standard = StandardAfter(sha, MessageBlock)[round]
    BY <1>2 DEF RoundsRight, TransformRound
  <2> DEFINE word    == ScheduleWord(MessageBlock, standard.W, round)
             block16 == Expanded(workspace, round)
  <2>3. MessageBlock' = MessageBlock /\ sha' = sha /\ round' = round + 1
    BY <1>2 DEF TransformRound, MessageBlock
  <2>4. /\ workspace' = block16 /\ working' = Round(working, round, block16[round % 16])
        /\ standard' = StandardRound(MessageBlock, standard, round)
    BY <1>2 DEF TransformRound
  <2>5. standard.W \in Seq(Word)
    BY <2>1 DEF Standard
  <2>6. block16[round % 16] = word /\ Schedules(block16, MessageBlock, Append(standard.W, word), round + 1)
    BY <2>1, <2>2, <2>5, ScheduleFollows
  <2>7. standard'.W = Append(standard.W, word)
    BY <2>1, <2>4, StandardTypes
  <2>8. Follows(working', standard'.vars, round + 1)
    <3> HIDE DEF word, block16
    <3>1. word = ScheduleWord(MessageBlock, standard.W, round)
      BY DEF word
    <3> QED  BY <2>1, <2>2, <2>4, <2>6, <3>1, RoundFollows
  <2>9. standard' = StandardAfter(sha, MessageBlock)[round + 1]
    <3>1. round + 1 \in 1..80 /\ (round + 1) - 1 = round
      BY <2>1
    <3> DEFINE c == StandardAfter(sha, MessageBlock)
    <3>2. \A i \in 1..80 : c[i] = StandardRound(MessageBlock, c[i - 1], i - 1)
      BY <2>1, StandardRecord
    <3> HIDE DEF c
    <3>3. c[round + 1] = StandardRound(MessageBlock, c[round], round)
      BY <3>1, <3>2
    <3> QED  BY <2>2, <2>4, <3>3 DEF c
  <2> QED
    BY <2>3, <2>4, <2>6, <2>7, <2>8, <2>9 DEF RoundsRight
<1>3. CASE ~(StartTransform \/ TransformRound)
  <2>1. pc' = "transform" => UNCHANGED <<pc, page_buffer, block, round, sha, working, workspace, standard>>
    <3>1. FinishTransform => pc' # "transform"
      BY AfterTransform
    <3> QED
      BY <1>3, <3>1 DEF Next, OpenFails, Open, ExpandWord, ReadPage, StartBlock, DecryptRound,
         FinishBlock, CopyPage, Save, vars, files, aes, hash
  <2> QED
    BY <2>1 DEF RoundsRight, MessageBlock
<1> QED
  BY <1>1, <1>2, <1>3

(* The rounds of the code follow the standard's, through any number of blocks*)
(* and pages: the macros name the variables in turn and the message is expanded*)
(* in sixteen words.                                                        *)
THEOREM RoundsFollow == Spec => []RoundsFollowStandard
<1>1. Init => TypeOK /\ Progress /\ RoundsRight
  BY InitTypes DEF Init, RoundsRight
<1>2. TypeOK /\ Progress /\ RoundsRight /\ [Next]_vars => TypeOK' /\ Progress' /\ RoundsRight'
  BY NextTypes, RoundsStep
<1>3. TypeOK /\ RoundsRight => RoundsFollowStandard
  <2> SUFFICES ASSUME TypeOK, RoundsRight, pc = "transform"
               PROVE  /\ \A k \in 0..4 : working[Named(k, round)] = standard.vars[k + 1]
                      /\ \A t \in DOMAIN standard.W :
                           t > Len(standard.W) - 16 => workspace[(t - 1) % 16] = standard.W[t]
    BY DEF RoundsFollowStandard
  <2>1. ASSUME NEW k \in 0..4 PROVE working[Named(k, round)] = standard.vars[k + 1]
    <3>1. k = 0 \/ k = 1 \/ k = 2 \/ k = 3 \/ k = 4
      OBVIOUS
    <3> QED  BY <3>1 DEF RoundsRight, Follows
  <2>2. DOMAIN standard.W = 1..round /\ Len(standard.W) = round
    BY DEF TypeOK, Standard
  <2> QED  BY <2>1, <2>2 DEF RoundsRight, Schedules
<1> QED
  BY <1>1, <1>2, <1>3, PTL DEF Spec

(* Every round of InvCipher is undone by the same round of Cipher.          *)
THEOREM Undone == Spec => RoundsUndone
<1> DEFINE Back == /\ StartBlock   => CipherBlock = MixAndAdd(Nr, state', RoundKey)
                   /\ DecryptRound => state = SubstituteAndShift(MixAndAdd(round, state', RoundKey))
<1>1. ASSUME TypeOK PROVE Back
  <2>1. ASSUME StartBlock PROVE CipherBlock = MixAndAdd(Nr, state', RoundKey)
    <3>1. /\ RoundKey \in Seq(KeyWord) /\ Len(RoundKey) = KeyWords /\ block \in AesBlocks
          /\ page_buffer \in Bytes(NAND_PAGE_SIZE)
      BY <1>1, <2>1 DEF TypeOK, StartBlock
    <3>2. CipherBlock \in Block
      BY <3>1, PartOfPage DEF CipherBlock
    <3>3. AddRoundKey(Nr, AddRoundKey(Nr, CipherBlock, RoundKey), RoundKey) = CipherBlock
      BY <3>1, <3>2, KeyAdded DEF Nr
    <3>4. state' = AddRoundKey(Nr, CipherBlock, RoundKey)
      BY <2>1 DEF StartBlock, StartInvCipher
    <3> QED  BY <3>3, <3>4 DEF MixAndAdd
  <2>2. ASSUME DecryptRound
        PROVE  state = SubstituteAndShift(MixAndAdd(round, state', RoundKey))
    <3>1. /\ RoundKey \in Seq(KeyWord) /\ Len(RoundKey) = KeyWords /\ state \in Block
          /\ round \in 0..(Nr - 1)
      BY <1>1, <2>2, BlockBytes DEF TypeOK, DecryptRound, Nr
    <3>2. state' = InvCipherRound(round, state, RoundKey)
      BY <2>2 DEF DecryptRound
    <3> QED  BY <3>1, <3>2, RoundUndone
  <2> QED  BY <2>1, <2>2
<1>2. TypeOK => [Back]_vars
  BY <1>1
<1>3. Spec => [][Back]_vars
  <2> HIDE DEF Back
  <2> QED  BY <1>2, TypeCorrect, PTL
<1> QED
  BY <1>3 DEF RoundsUndone

-----------------------------------------------------------------------------
(* The file and the round keys.                                             *)

(* Pages follow one another in the file.                                    *)
LEMMA PageStarts ==
  /\ PageStart(1) = 0
  /\ \A p \in Nat \ {0} : PageStart(p) \in Nat
  /\ \A p \in Nat \ {0} : PageStart(p + 1) = PageStart(p) + NAND_PAGE_SIZE + NAND_ECC_SIZE
<1> DEFINE size == NAND_PAGE_SIZE + NAND_ECC_SIZE
<1>1. size \in Nat /\ \A p : PageStart(p) = (p - 1) * size
  BY Sizes DEF PageStart
<1>2. \A p \in Nat : (p + 1) * size = p * size + size
  <2> HIDE DEF size
  <2> QED  BY <1>1
<1>3. \A p \in Nat \ {0} : p - 1 \in Nat /\ (p + 1) - 1 = p /\ (p - 1) + 1 = p
  OBVIOUS
<1>4. \A p \in Nat \ {0} : p * size = (p - 1) * size + size
  <2> TAKE p \in Nat \ {0}
  <2>1. ((p - 1) + 1) * size = (p - 1) * size + size
    BY <1>2, <1>3
  <2> QED  BY <2>1, <1>3
<1>5. \A p \in Nat \ {0} : PageStart(p + 1) = PageStart(p) + size
  <2> HIDE DEF size
  <2> TAKE p \in Nat \ {0}
  <2>1. PageStart(p + 1) = p * size /\ PageStart(p) = (p - 1) * size
    BY <1>1, <1>3
  <2> QED  BY <2>1, <1>4
<1>6. \A p \in Nat \ {0} : PageStart(p) \in Nat
  <2> HIDE DEF size
  <2> TAKE p \in Nat \ {0}
  <2>1. \A a \in Nat : a * size \in Nat
    BY <1>1
  <2> QED  BY <2>1, <1>1, <1>3
<1>7. PageStart(1) = 0
  <2> HIDE DEF size
  <2>1. PageStart(1) = 0 * size
    BY <1>1
  <2> QED  BY <2>1, <1>1
<1>8. \A p \in Nat \ {0} : PageStart(p + 1) = PageStart(p) + NAND_PAGE_SIZE + NAND_ECC_SIZE
  <2> TAKE p \in Nat \ {0}
  <2>1. PageStart(p) \in Nat
    BY <1>6
  <2>2. PageStart(p) + size = PageStart(p) + NAND_PAGE_SIZE + NAND_ECC_SIZE
    BY <2>1, Sizes
  <2> HIDE DEF size
  <2> QED  BY <2>2, <1>5
<1> QED
  BY <1>6, <1>7, <1>8

(* A file that holds a page holds the one before, and all its bytes.        *)
LEMMA WholePages ==
  ASSUME NEW d \in Dumps, NEW p \in Nat \ {0}
  PROVE  /\ IsWhole(d, p + 1) => IsWhole(d, p)
         /\ IsWhole(d, p) => /\ PageStart(p) < Len(d.bytes)
                             /\ \A n \in 0..(NAND_PAGE_SIZE - 1) : PageStart(p) + n + 1 \in 1..Len(d.bytes)
                             /\ PageOf(d, p) \in Bytes(NAND_PAGE_SIZE)
<1>1. d.bytes \in Seq(Octet) /\ Len(d.bytes) \in Nat
  BY DumpTypes
<1>2. PageStart(p) \in Nat /\ PageStart(p + 1) = PageStart(p) + NAND_PAGE_SIZE + NAND_ECC_SIZE
  BY PageStarts
<1>3. IsWhole(d, p + 1) => IsWhole(d, p)
  BY <1>1, <1>2, Sizes DEF IsWhole
<1>4. ASSUME IsWhole(d, p)
      PROVE  /\ PageStart(p) < Len(d.bytes)
             /\ \A n \in 0..(NAND_PAGE_SIZE - 1) : PageStart(p) + n + 1 \in 1..Len(d.bytes)
  BY <1>1, <1>2, <1>4, Sizes DEF IsWhole
<1>5. ASSUME IsWhole(d, p)
      PROVE  PageOf(d, p) \in Bytes(NAND_PAGE_SIZE)
  BY <1>1, <1>4, <1>5 DEF PageOf, Bytes
<1> QED
  BY <1>3, <1>4, <1>5

(* What CBC adds is a block.                                                *)
LEMMA ChainTypes ==
  ASSUME NEW d \in Dumps, NEW p \in Nat \ {0}, IsWhole(d, p), NEW b \in AesBlocks
  PROVE  ChainedTo(d, p, b) \in Block
<1>1. CASE b > 0
  <2>1. b - 1 \in AesBlocks
    BY <1>1, BlocksOfPage, Sizes DEF AesBlocks, AES_BLOCKLEN
  <2> QED  BY <1>1, <2>1, WholePages, PartOfPage DEF ChainedTo
<1>2. CASE ~(b > 0) /\ p > 1
  <2>1. p - 1 \in Nat \ {0} /\ (p - 1) + 1 = p
    BY <1>2
  <2>2. IsWhole(d, p - 1)
    BY <2>1, WholePages
  <2>3. LastAesBlock \in AesBlocks
    BY Sizes DEF LastAesBlock, AesBlocks, AES_BLOCKLEN
  <2> QED  BY <1>2, <2>1, <2>2, <2>3, WholePages, PartOfPage DEF ChainedTo
<1>3. CASE ~(b > 0) /\ ~(p > 1)
  BY <1>3, BlockBytes DEF ChainedTo
<1> QED
  BY <1>1, <1>2, <1>3

(* The blocks of a whole page are encrypted and hashed.                     *)
LEMMA DumpBlocks ==
  ASSUME NEW d \in Dumps, NEW p \in 1..BOOT1_PAGE_SIZE, IsWhole(d, p)
  PROVE  /\ d.pages[p] \in Bytes(NAND_PAGE_SIZE)
         /\ \A b \in AesBlocks :
              LET plain == XorBlocks(Part(d.pages[p], AES_BLOCKLEN, b), ChainedTo(d, p, b))
              IN  /\ plain \in Block
                  /\ Part(PageOf(d, p), AES_BLOCKLEN, b) = Cipher(plain, KeyExpansion(d.key))
         /\ \A b \in ShaBlocks :
              d.hashes[p][b] = StandardTransform(HashBefore(d, p, b), blk0(Part(d.pages[p], SHA_BLOCK, b)))
<1>1. IsDumpOf(d, p)
  BY Boot1Assumption DEF Boot1Assumption
<1>2. p \in Nat \ {0}
  BY Sizes
<1>3. \A b \in AesBlocks : XorBlocks(Part(d.pages[p], AES_BLOCKLEN, b), ChainedTo(d, p, b)) \in Block
  BY <1>1, <1>2, PartOfPage, ChainTypes, BlocksSummed DEF IsDumpOf
<1> QED
  BY <1>1, <1>3 DEF IsDumpOf

(* A step leaves the file where the next page starts, or at its end.        *)
LEMMA FilePositionStep ==
  ASSUME TypeOK, Progress, FilePosition, [Next]_vars
  PROVE  FilePosition'
<1>1. Len(boot1_buffer) \in Nat /\ dump \in Dumps /\ Len(dump.bytes) \in Nat
  BY DumpTypes DEF TypeOK
<1>2. CASE ReadPage
  <2>1. PagesRead = Len(boot1_buffer) /\ PagesRead' = Len(boot1_buffer) + 1
    BY <1>2 DEF ReadPage, PagesRead, Reading
  <2> DEFINE p == Len(boot1_buffer) + 1
  <2>2. PageStart(p + 1) = PageStart(p) + NAND_PAGE_SIZE + NAND_ECC_SIZE /\ PageStart(p) \in Nat
    BY <1>1, PageStarts
  <2>3. /\ position = IF PageStart(p) < Len(dump.bytes) THEN PageStart(p) ELSE Len(dump.bytes)
        /\ dump' = dump
        /\ position' = IF position + NAND_PAGE_SIZE + NAND_ECC_SIZE < Len(dump.bytes)
                       THEN position + NAND_PAGE_SIZE + NAND_ECC_SIZE ELSE Len(dump.bytes)
    BY <1>2, <2>1 DEF ReadPage, FilePosition, AfterPage
  <2>4. position' = IF PageStart(p + 1) < Len(dump.bytes) THEN PageStart(p + 1) ELSE Len(dump.bytes)
    <3> HIDE DEF p
    <3> QED  BY <1>1, <2>2, <2>3, Sizes
  <2> QED  BY <2>1, <2>3, <2>4 DEF FilePosition
<1>3. CASE CopyPage
  <2>1. PagesRead' = PagesRead
    BY <1>1, <1>3 DEF CopyPage, PagesRead, Reading, TypeOK
  <2> QED  BY <1>3, <2>1 DEF FilePosition, CopyPage
<1>4. CASE ~(ReadPage \/ CopyPage)
  <2>1. UNCHANGED <<dump, position, boot1_buffer>>
    BY <1>4 DEF Next, OpenFails, Open, ExpandWord, StartBlock, DecryptRound, FinishBlock,
       StartTransform, TransformRound, FinishTransform, Save, vars, files
  <2>2. pc \in Reading <=> pc' \in Reading
    <3>1. FinishTransform => pc = "transform" /\ pc' \in {"update", "read", "save"}
      BY AfterTransform DEF FinishTransform
    <3> QED
      BY <1>4, <3>1 DEF Next, OpenFails, Open, ExpandWord, StartBlock, DecryptRound, FinishBlock,
         StartTransform, TransformRound, Save, vars, Reading
  <2> QED  BY <2>1, <2>2 DEF FilePosition, PagesRead
<1> QED
  BY <1>2, <1>3, <1>4

(* A step keeps the round keys.                                             *)
LEMMA KeyStep ==
  ASSUME TypeOK, Progress, KeyRight, [Next]_vars
  PROVE  KeyRight'
<1>1. dump.key \in Block
  BY DumpTypes DEF TypeOK
<1>2. CASE Open
  <2>1. RoundKey' = FirstWords(dump.key) /\ round' = Nk /\ pc' = "expand" /\ dump' = dump
    BY <1>2 DEF Open, files
  <2>2. KeysAfter(dump.key)[0] = FirstWords(dump.key)
    BY <1>1, KeySchedule
  <2>3. Nk - Nk = 0
    BY DEF Nk
  <2> QED  BY <2>1, <2>2, <2>3 DEF KeyRight
<1>3. CASE ExpandWord
  <2>1. round \in 4..43 /\ pc = "expand" /\ dump' = dump /\ round' = round + 1
        /\ RoundKey' = ExpandKey(RoundKey, round) /\ RoundKey = KeysAfter(dump.key)[round - 4]
        /\ pc' = IF round + 1 = 44 THEN "read" ELSE "expand"
    BY <1>3 DEF ExpandWord, TypeOK, KeyRight, Nk, Nb, Nr, KeyWords, files
  <2>2. RoundKey' = KeysAfter(dump.key)[round - 3]
    <3> DEFINE k == KeysAfter(dump.key)
    <3>1. \A n \in 1..40 : k[n] = ExpandKey(k[n - 1], n + 3)
      <4>1. \A n \in 1..40 : n + Nk - 1 = n + 3
        BY DEF Nk
      <4> QED  BY <1>1, <4>1, KeySchedule
    <3> HIDE DEF k
    <3>2. round - 3 \in 1..40 /\ (round - 3) - 1 = round - 4 /\ (round - 3) + 3 = round
      BY <2>1
    <3>3. k[round - 3] = ExpandKey(k[round - 4], round)
      BY <3>1, <3>2
    <3> QED  BY <2>1, <3>3 DEF k
  <2>3. round + 1 = 44 => RoundKey' = KeyExpansion(dump.key)
    <3>1. round + 1 = 44 => round - 3 = KeyWords - Nk
      BY <2>1 DEF Nk, Nb, Nr, KeyWords
    <3> QED  BY <2>2, <3>1 DEF KeyExpansion
  <2>4. (round + 1) - Nk = round - 3
    BY <2>1 DEF Nk
  <2> QED  BY <2>1, <2>2, <2>3, <2>4 DEF KeyRight
<1>4. CASE ~(Open \/ ExpandWord)
  <2>1. UNCHANGED <<dump, RoundKey>>
    BY <1>4 DEF Next, OpenFails, ReadPage, StartBlock, DecryptRound, FinishBlock, CopyPage,
       StartTransform, TransformRound, FinishTransform, Save, vars, files, aes
  <2>2. /\ pc' = "expand" => pc = "expand" /\ round' = round
        /\ pc' \notin {"open", "failed", "expand"} => pc \notin {"open", "failed", "expand"}
    <3>1. FinishTransform => pc = "transform" /\ pc' \in {"update", "read", "save"}
      BY AfterTransform DEF FinishTransform
    <3> QED
      BY <1>4, <3>1 DEF Next, OpenFails, ReadPage, StartBlock, DecryptRound, FinishBlock, CopyPage,
         StartTransform, TransformRound, Save, vars
  <2> QED  BY <2>1, <2>2 DEF KeyRight
<1> QED
  BY <1>2, <1>3, <1>4

-----------------------------------------------------------------------------
(* The pages that come out.                                                 *)

(* While pages are read, the current one is one of boot1's.                 *)
LEMMA CurrentPage ==
  ASSUME TypeOK, Progress, pc \in {"read"} \cup Reading
  PROVE  Current \in 1..BOOT1_PAGE_SIZE /\ Current \in Nat \ {0} /\ dump \in Dumps
<1>1. Len(boot1_buffer) \in Nat /\ Len(boot1_buffer) < BOOT1_PAGE_SIZE /\ dump \in Dumps
  BY DEF TypeOK, Progress
<1> QED
  BY <1>1, Sizes DEF Current

(* The next block of that page is as it was read.                           *)
LEMMA NextBlock ==
  ASSUME NEW d, NEW p, NEW b \in AesBlocks
  PROVE  Part(PartlyPlain(d, p, b), AES_BLOCKLEN, b) = Part(PageOf(d, p), AES_BLOCKLEN, b)
<1>1. ASSUME NEW i \in 0..15
      PROVE  16 * b + i \in 0..(NAND_PAGE_SIZE - 1) /\ (16 * b + i) \div 16 = b
  BY Sizes, BlocksOfPage
<1>2. ASSUME NEW i \in 0..15
      PROVE  PartlyPlain(d, p, b)[16 * b + i] = PageOf(d, p)[16 * b + i]
  <2> DEFINE n == 16 * b + i
  <2>1. n \in 0..(NAND_PAGE_SIZE - 1) /\ ~(n \div 16 < b)
    <3>1. b \in Nat /\ n \div 16 = b
      BY <1>1, BlocksOfPage
    <3> HIDE DEF n
    <3>2. ~(n \div 16 < b)
      BY <3>1
    <3> QED  BY <1>1, <3>2 DEF n
  <2> HIDE DEF n
  <2>2. PartlyPlain(d, p, b)[n] = PageOf(d, p)[n]
    BY <2>1 DEF PartlyPlain, AES_BLOCKLEN
  <2> QED  BY <2>2 DEF n
<1> QED
  BY <1>2 DEF Part, AES_BLOCKLEN

(* Reading a page that the file holds whole.                                *)
LEMMA DecryptRead ==
  ASSUME PagesInv, DecryptRight, ReadPage
  PROVE  DecryptRight'
<1> SUFFICES ASSUME IsWhole(dump, Current)
             PROVE  /\ Iv' = ChainedTo(dump, Current, 0)
                    /\ page_buffer' = PartlyPlain(dump, Current, 0)
  BY DEF DecryptRight, ReadPage, Current, Reading, PartlyPlain, aes
<1>1. Iv' = ChainedTo(dump, Current, 0)
  BY DEF DecryptRight, ReadPage, Reading, aes
<1>2. Current \in Nat \ {0} /\ dump \in Dumps
  BY CurrentPage DEF PagesInv, ReadPage
<1>3. position = PageStart(Current)
  <2>1. PagesRead + 1 = Current
    BY DEF PagesRead, Current, ReadPage, Reading, PagesInv, TypeOK
  <2> QED  BY <1>2, <2>1, WholePages DEF PagesInv, FilePosition
<1>4. ASSUME NEW n \in 0..(NAND_PAGE_SIZE - 1)
      PROVE  /\ PageStart(Current) + n < Len(dump.bytes)
             /\ ~(n \div 16 < 0)
  <2>1. PageStart(Current) + n + 1 \in 1..Len(dump.bytes) /\ PageStart(Current) \in Nat
        /\ Len(dump.bytes) \in Nat
    BY <1>2, WholePages, PageStarts, DumpTypes
  <2> QED  BY <2>1, Sizes
<1>5. page_buffer' = [n \in 0..(NAND_PAGE_SIZE - 1) |->
                        IF PageStart(Current) + n < Len(dump.bytes)
                        THEN dump.bytes[PageStart(Current) + n + 1] ELSE page_buffer[n]]
  BY <1>3 DEF ReadPage
<1>6. page_buffer' = [n \in 0..(NAND_PAGE_SIZE - 1) |-> dump.bytes[PageStart(Current) + n + 1]]
  BY <1>4, <1>5
<1>7. PartlyPlain(dump, Current, 0) = [n \in 0..(NAND_PAGE_SIZE - 1) |-> PageOf(dump, Current)[n]]
  BY <1>4 DEF PartlyPlain, AES_BLOCKLEN
<1> QED
  BY <1>1, <1>6, <1>7 DEF PageOf

(* Starting a block leads to what the last round of Cipher was made from.   *)
LEMMA DecryptStart ==
  ASSUME PagesInv, DecryptRight, StartBlock
  PROVE  DecryptRight'
<1>1. Current' = Current /\ dump' = dump /\ block' = block /\ PlainBlock' = PlainBlock
      /\ page_buffer' = page_buffer /\ Iv' = Iv /\ RoundKey' = RoundKey /\ pc' = "rounds"
      /\ round' = Nr - 1 /\ pc = "decrypt"
  BY DEF StartBlock, Current, PlainBlock, files
<1> SUFFICES ASSUME IsWhole(dump, Current)
             PROVE  state' = SubstituteAndShift(RoundsAfter(PlainBlock, RoundKey)[Nr - 1])
  <2>1. ~(Nr - 1 < 0)
    BY DEF Nr
  <2>2. (IF pc' \in Reading THEN block' ELSE 0) = IF pc \in Reading THEN block ELSE 0
    BY <1>1 DEF Reading
  <2> QED  BY <1>1, <2>1, <2>2 DEF DecryptRight, Reading
<1>2. Current \in 1..BOOT1_PAGE_SIZE /\ dump \in Dumps /\ block \in AesBlocks
      /\ RoundKey \in Seq(KeyWord) /\ Len(RoundKey) = KeyWords /\ RoundKey = KeyExpansion(dump.key)
  <2>1. TypeOK /\ Progress /\ KeyRight
    BY DEF PagesInv
  <2> QED  BY <1>1, <2>1, CurrentPage DEF Reading, TypeOK, KeyRight
<1>3. page_buffer = PartlyPlain(dump, Current, block)
  BY <1>1 DEF DecryptRight, Reading, PartlyPlain
<1>4. PlainBlock \in Block /\ CipherBlock = Cipher(PlainBlock, RoundKey)
  BY <1>2, <1>3, NextBlock, DumpBlocks DEF PlainBlock, CipherBlock
<1>5. state' = StartInvCipher(CipherBlock, RoundKey)
  BY DEF StartBlock
<1> QED
  BY <1>2, <1>4, <1>5, CipherUndone

(* Each round goes back by one round of Cipher.                             *)
LEMMA DecryptTurn ==
  ASSUME PagesInv, DecryptRight, DecryptRound
  PROVE  DecryptRight'
<1>1. Current' = Current /\ dump' = dump /\ block' = block /\ PlainBlock' = PlainBlock
      /\ page_buffer' = page_buffer /\ Iv' = Iv /\ RoundKey' = RoundKey /\ pc' = "rounds"
      /\ round' = round - 1 /\ pc = "rounds" /\ round \in 0..(Nr - 1)
      /\ state' = InvCipherRound(round, state, RoundKey)
  BY DEF DecryptRound, Current, PlainBlock, files, PagesInv, TypeOK, Nr
<1> SUFFICES ASSUME IsWhole(dump, Current)
             PROVE  state' = IF round - 1 < 0 THEN PlainBlock
                             ELSE SubstituteAndShift(RoundsAfter(PlainBlock, RoundKey)[round - 1])
  <2>2. (IF pc' \in Reading THEN block' ELSE 0) = IF pc \in Reading THEN block ELSE 0
    BY <1>1
  <2> QED  BY <1>1, <2>2 DEF DecryptRight, Reading
<1>2. Current \in 1..BOOT1_PAGE_SIZE /\ dump \in Dumps /\ block \in AesBlocks
      /\ RoundKey \in Seq(KeyWord) /\ Len(RoundKey) = KeyWords
  <2>1. TypeOK /\ Progress
    BY DEF PagesInv
  <2> QED  BY <1>1, <2>1, CurrentPage DEF Reading, TypeOK
<1>3. state = SubstituteAndShift(RoundsAfter(PlainBlock, RoundKey)[round])
  <2>1. ~(round < 0)
    BY <1>1 DEF Nr
  <2> QED  BY <1>1, <2>1 DEF DecryptRight
<1>4. PlainBlock \in Block
  BY <1>2, DumpBlocks DEF PlainBlock
<1>5. CASE round = 0
  <2>1. InvCipherRound(0, SubstituteAndShift(RoundsAfter(PlainBlock, RoundKey)[0]), RoundKey) = PlainBlock
    BY <1>2, <1>4, CipherUndone
  <2>2. round - 1 < 0
    BY <1>5
  <2> QED  BY <1>1, <1>3, <1>5, <2>1, <2>2
<1>6. CASE round # 0
  <2>1. round \in 1..(Nr - 1) /\ ~(round - 1 < 0)
    BY <1>1, <1>6 DEF Nr
  <2>2. InvCipherRound(round, SubstituteAndShift(RoundsAfter(PlainBlock, RoundKey)[round]), RoundKey)
          = SubstituteAndShift(RoundsAfter(PlainBlock, RoundKey)[round - 1])
    BY <1>2, <1>4, <2>1, CipherUndone
  <2> QED  BY <1>1, <1>3, <2>1, <2>2
<1> QED
  BY <1>5, <1>6

(* The block comes out plain, and the encrypted one is kept for the next.   *)
LEMMA DecryptFinish ==
  ASSUME PagesInv, DecryptRight, FinishBlock
  PROVE  DecryptRight'
<1>1. Current' = Current /\ dump' = dump /\ block' = block + 1
      /\ Iv' = CipherBlock /\ pc = "rounds" /\ round < 0
      /\ pc' = (IF (block + 1) * AES_BLOCKLEN = NAND_PAGE_SIZE THEN "copy" ELSE "decrypt")
      /\ page_buffer' = [n \in DOMAIN page_buffer |->
                           IF n \div AES_BLOCKLEN = block THEN XorBlocks(state, Iv)[n % AES_BLOCKLEN]
                                                          ELSE page_buffer[n]]
  BY DEF FinishBlock, NextIv, Current, files
<1> SUFFICES ASSUME IsWhole(dump, Current)
             PROVE  /\ CipherBlock = ChainedTo(dump, Current, block + 1)
                    /\ page_buffer' = PartlyPlain(dump, Current, block + 1)
  BY <1>1 DEF DecryptRight, Reading, PartlyPlain
<1>2. Current \in 1..BOOT1_PAGE_SIZE /\ Current \in Nat \ {0} /\ dump \in Dumps
      /\ block \in AesBlocks /\ block \in Nat
  <2>1. TypeOK /\ Progress
    BY DEF PagesInv
  <2> QED  BY <1>1, <2>1, CurrentPage, BlocksOfPage DEF Reading, TypeOK
<1> DEFINE plain == Part(dump.pages[Current], AES_BLOCKLEN, block)
<1>3. page_buffer = PartlyPlain(dump, Current, block)
  BY <1>1 DEF DecryptRight, Reading, PartlyPlain
<1>4. state = XorBlocks(plain, Iv) /\ Iv = ChainedTo(dump, Current, block)
  BY <1>1 DEF DecryptRight, Reading, PlainBlock
<1>5. XorBlocks(state, Iv) = plain
  <2>1. plain \in Block
    BY <1>2, DumpBlocks, PartOfPage
  <2>2. Iv \in Block
    BY <1>2, <1>4, ChainTypes
  <2> QED  BY <1>4, <2>1, <2>2, BlocksSummed
<1>6. CipherBlock = ChainedTo(dump, Current, block + 1)
  <2>1. CipherBlock = Part(PageOf(dump, Current), AES_BLOCKLEN, block)
    BY <1>2, <1>3, NextBlock DEF CipherBlock
  <2>2. block + 1 > 0 /\ (block + 1) - 1 = block
    BY <1>2
  <2> QED  BY <2>1, <2>2 DEF ChainedTo
<1>7. page_buffer' = [n \in 0..(NAND_PAGE_SIZE - 1) |->
                        IF n \div 16 = block THEN plain[n % 16]
                        ELSE IF n \div 16 < block THEN dump.pages[Current][n] ELSE PageOf(dump, Current)[n]]
  <2>1. DOMAIN page_buffer = 0..(NAND_PAGE_SIZE - 1)
    BY <1>3 DEF PartlyPlain
  <2>2. \A n \in 0..(NAND_PAGE_SIZE - 1) :
          page_buffer[n] = IF n \div 16 < block THEN dump.pages[Current][n] ELSE PageOf(dump, Current)[n]
    BY <1>3 DEF PartlyPlain, AES_BLOCKLEN
  <2> HIDE DEF plain
  <2> QED  BY <1>1, <1>5, <2>1, <2>2 DEF AES_BLOCKLEN
<1>8. ASSUME NEW n \in 0..(NAND_PAGE_SIZE - 1)
      PROVE  (IF n \div 16 = block THEN plain[n % 16]
              ELSE IF n \div 16 < block THEN dump.pages[Current][n] ELSE PageOf(dump, Current)[n])
               = IF n \div 16 < block + 1 THEN dump.pages[Current][n] ELSE PageOf(dump, Current)[n]
  <2>1. n \in Nat /\ n \div 16 \in Nat /\ n % 16 \in 0..15 /\ n = 16 * (n \div 16) + (n % 16)
    BY Sizes
  <2>2. n \div 16 < block + 1 <=> n \div 16 = block \/ n \div 16 < block
    BY <1>2, <2>1
  <2>3. n \div 16 = block => plain[n % 16] = dump.pages[Current][n]
    BY <2>1 DEF Part, AES_BLOCKLEN
  <2> HIDE DEF plain
  <2> QED  BY <2>2, <2>3, Zenon
<1>9. page_buffer' = PartlyPlain(dump, Current, block + 1)
  <2> HIDE DEF plain
  <2> QED  BY <1>7, <1>8 DEF PartlyPlain, AES_BLOCKLEN
<1> QED
  BY <1>6, <1>9

(* The chain goes on from page to page.                                     *)
LEMMA DecryptCopy ==
  ASSUME PagesInv, DecryptRight, CopyPage
  PROVE  DecryptRight'
<1>1. Current' = Current + 1 /\ dump' = dump /\ Iv' = Iv /\ pc = "copy" /\ pc' = "update"
      /\ boot1_buffer \in Seq(Bytes(NAND_PAGE_SIZE))
  BY DEF CopyPage, Current, aes, PagesInv, TypeOK
<1> SUFFICES ASSUME IsWhole(dump, Current + 1)
             PROVE  Iv = ChainedTo(dump, Current + 1, 0)
  BY <1>1 DEF DecryptRight, Reading
<1>2. Current \in Nat \ {0} /\ dump \in Dumps /\ block \in Nat /\ block * 16 = NAND_PAGE_SIZE
  <2>1. TypeOK /\ Progress
    BY DEF PagesInv
  <2> QED  BY <1>1, <2>1, CurrentPage DEF Reading, Progress, AES_BLOCKLEN
<1>3. Iv = ChainedTo(dump, Current, block)
  BY <1>1, <1>2, WholePages DEF DecryptRight, Reading
<1>4. Iv = ChainedTo(dump, Current, NAND_PAGE_SIZE \div 16)
  BY <1>2, <1>3, Sizes
<1>5. Iv = Part(PageOf(dump, Current), AES_BLOCKLEN, LastAesBlock)
  BY <1>4, Sizes DEF ChainedTo, LastAesBlock, AES_BLOCKLEN
<1>6. ~(0 > 0) /\ Current + 1 > 1 /\ (Current + 1) - 1 = Current
  BY <1>2
<1> QED
  BY <1>5, <1>6 DEF ChainedTo

(* Every step keeps what has been decrypted.                                *)
LEMMA DecryptStep ==
  ASSUME PagesInv, DecryptRight, [Next]_vars
  PROVE  DecryptRight'
<1>1. CASE ~(ReadPage \/ StartBlock \/ DecryptRound \/ FinishBlock \/ CopyPage)
  <2>1. UNCHANGED <<dump, boot1_buffer, Iv>>
    BY <1>1 DEF Next, OpenFails, Open, ExpandWord, StartTransform, TransformRound, FinishTransform,
       Save, vars, files, aes
  <2>2. (pc \notin Reading /\ pc' \notin Reading) \/ UNCHANGED vars
    <3>1. FinishTransform => pc = "transform" /\ pc' \in {"update", "read", "save"}
      BY AfterTransform DEF FinishTransform, PagesInv
    <3> QED
      BY <1>1, <3>1 DEF Next, OpenFails, Open, ExpandWord, StartTransform, TransformRound, Save,
         Reading
  <2>3. CASE pc \notin Reading /\ pc' \notin Reading
    BY <2>1, <2>3 DEF DecryptRight, Reading, Current
  <2>4. CASE UNCHANGED vars
    BY <2>4 DEF DecryptRight, Current, PlainBlock, vars, files, aes
  <2> QED  BY <2>2, <2>3, <2>4
<1> QED
  BY <1>1, DecryptRead, DecryptStart, DecryptTurn, DecryptFinish, DecryptCopy

(* A page is copied when all its blocks are plain.                          *)
LEMMA PlainPage ==
  ASSUME PagesInv, DecryptRight, CopyPage, IsWhole(dump, Current)
  PROVE  page_buffer = dump.pages[Current]
<1>1. Current \in 1..BOOT1_PAGE_SIZE /\ dump \in Dumps /\ block \in Nat /\ block * 16 = NAND_PAGE_SIZE /\ pc = "copy"
  <2>1. TypeOK /\ Progress
    BY DEF PagesInv
  <2> QED  BY <2>1, CurrentPage DEF Reading, Progress, AES_BLOCKLEN, CopyPage
<1>2. page_buffer = PartlyPlain(dump, Current, block)
  BY <1>1 DEF DecryptRight, Reading, PartlyPlain
<1>3. \A n \in 0..(NAND_PAGE_SIZE - 1) : n \div 16 < block
  <2>1. block = NAND_PAGE_SIZE \div 16
    BY <1>1, Sizes
  <2> QED  BY <2>1, Sizes
<1>4. page_buffer = [n \in 0..(NAND_PAGE_SIZE - 1) |-> dump.pages[Current][n]]
  BY <1>2, <1>3 DEF PartlyPlain, AES_BLOCKLEN
<1>5. dump.pages[Current] \in Bytes(NAND_PAGE_SIZE)
  BY <1>1, DumpBlocks
<1> QED
  BY <1>4, <1>5 DEF Bytes

(* Every step keeps the pages that came out.                                *)
LEMMA PagesStep ==
  ASSUME PagesInv, DecryptRight, WholePagesRight, [Next]_vars
  PROVE  WholePagesRight'
<1>1. CASE CopyPage
  <2>1. boot1_buffer' = Append(boot1_buffer, page_buffer) /\ boot1_buffer \in Seq(Bytes(NAND_PAGE_SIZE))
        /\ page_buffer \in Bytes(NAND_PAGE_SIZE) /\ dump' = dump
    BY <1>1 DEF CopyPage, PagesInv, TypeOK
  <2>2. ASSUME NEW p \in DOMAIN boot1_buffer', IsWhole(dump, p)
        PROVE  boot1_buffer'[p] = dump.pages[p]
    <3>1. CASE p \in DOMAIN boot1_buffer
      <4>1. boot1_buffer'[p] = boot1_buffer[p]
        BY <2>1, <3>1
      <4> QED  BY <2>2, <3>1, <4>1 DEF WholePagesRight
    <3>2. CASE p \notin DOMAIN boot1_buffer
      <4>1. p = Current /\ boot1_buffer'[p] = page_buffer
        BY <2>1, <2>2, <3>2 DEF Current
      <4> QED  BY <1>1, <2>2, <4>1, PlainPage
    <3> QED  BY <3>1, <3>2
  <2> QED  BY <2>1, <2>2 DEF WholePagesRight
<1>2. CASE ~CopyPage
  <2>1. UNCHANGED <<dump, boot1_buffer>>
    BY <1>2 DEF Next, OpenFails, Open, ExpandWord, ReadPage, StartBlock, DecryptRound, FinishBlock,
       StartTransform, TransformRound, FinishTransform, Save, vars, files
  <2> QED  BY <2>1 DEF WholePagesRight
<1> QED
  BY <1>1, <1>2

-----------------------------------------------------------------------------
(* The hash, and the theorems.                                              *)

(* The eighty rounds give the standard's hash of the block.                 *)
LEMMA FinishedHash ==
  ASSUME TypeOK, RoundsRight, FinishTransform
  PROVE  sha' = StandardTransform(sha, MessageBlock)
<1>1. sha \in FiveWords /\ MessageBlock \in Sixteen /\ round = 80 /\ pc = "transform"
  BY MessageTypes DEF TypeOK, MessageBlock, FinishTransform
<1>2. Follows(working, standard.vars, 80) /\ standard = StandardAfter(sha, MessageBlock)[80]
  BY <1>1 DEF RoundsRight
<1>3. \A n \in 0..4 : standard.vars[n + 1] = working[n]
  <2>1. /\ standard.vars[1] = working[0] /\ standard.vars[2] = working[1]
        /\ standard.vars[3] = working[2] /\ standard.vars[4] = working[3]
        /\ standard.vars[5] = working[4]
    BY <1>2, NamedStart DEF Follows
  <2> QED  BY <2>1
<1>4. StandardTransform(sha, MessageBlock) = [n \in 0..4 |-> Plus(sha[n], standard.vars[n + 1])]
  BY <1>2 DEF StandardTransform
<1>5. sha' = [n \in 0..4 |-> Plus(sha[n], working[n])]
  BY DEF FinishTransform, AddState
<1> QED
  BY <1>3, <1>4, <1>5

(* Every step keeps the hash of what came out.                              *)
LEMMA HashStep ==
  ASSUME PagesInv, RoundsRight, WholePagesRight, HashSoFar, [Next]_vars
  PROVE  HashSoFar'
<1> DEFINE p == Len(boot1_buffer)
<1>1. p \in Nat /\ p <= BOOT1_PAGE_SIZE /\ dump \in Dumps /\ TypeOK /\ Progress
  BY DEF PagesInv, TypeOK
<1>2. CASE FinishTransform
  <2>1. p' = p /\ dump' = dump /\ block' = block + 1 /\ pc = "transform"
        /\ block \in ShaBlocks /\ block \in Nat /\ p > 0 /\ page_buffer = boot1_buffer[p]
    BY <1>1, <1>2, BlocksOfPage DEF FinishTransform, files, TypeOK, Progress
  <2>2. ASSUME IsWhole(dump, p)
        PROVE  sha' = dump.hashes[p][block]
    <3>1. sha = HashBefore(dump, p, block)
      BY <2>1, <2>2 DEF HashSoFar
    <3>2. page_buffer = dump.pages[p]
      <4>1. p \in DOMAIN boot1_buffer
        BY <1>1, <2>1 DEF TypeOK
      <4> QED  BY <2>1, <2>2, <4>1 DEF WholePagesRight
    <3>3. sha' = StandardTransform(HashBefore(dump, p, block), blk0(Part(dump.pages[p], SHA_BLOCK, block)))
      BY <1>1, <1>2, <3>1, <3>2, FinishedHash DEF MessageBlock
    <3>4. p \in 1..BOOT1_PAGE_SIZE
      BY <1>1, <2>1, Sizes
    <3> QED  BY <1>1, <2>1, <2>2, <3>3, <3>4, DumpBlocks
  <2>3. CASE (block + 1) * 64 < NAND_PAGE_SIZE
    <3>1. pc' = "update"
      BY <1>1, <1>2, <2>3, AfterTransform
    <3>2. HashBefore(dump, p, block + 1) = dump.hashes[p][block]
      <4>1. block + 1 > 0 /\ (block + 1) - 1 = block
        BY <2>1
      <4> QED  BY <4>1 DEF HashBefore
    <3> HIDE DEF p
    <3>3. p' = Len(boot1_buffer')
      BY DEF p
    <3> QED  BY <2>1, <2>2, <3>1, <3>2, <3>3 DEF HashSoFar
  <2>4. CASE ~((block + 1) * 64 < NAND_PAGE_SIZE)
    <3>1. pc' \in {"read", "save"}
      BY <1>1, <1>2, <2>4, AfterTransform
    <3>2. block = LastShaBlock
      BY <2>1, <2>4, BlocksOfPage, Sizes DEF LastShaBlock, SHA_BLOCK
    <3>3. HashBefore(dump, p + 1, 0) = dump.hashes[p][LastShaBlock]
      <4>1. ~(0 > 0) /\ p + 1 > 1 /\ (p + 1) - 1 = p
        BY <1>1, <2>1
      <4> QED  BY <4>1 DEF HashBefore
    <3> HIDE DEF p
    <3>4. p' = Len(boot1_buffer')
      BY DEF p
    <3> QED  BY <2>1, <2>2, <3>1, <3>2, <3>3, <3>4 DEF HashSoFar
  <2> QED  BY <2>3, <2>4
<1>3. CASE CopyPage
  <2>1. Len(boot1_buffer') = p + 1 /\ dump' = dump /\ block' = 0 /\ sha' = sha /\ pc = "copy" /\ pc' = "update"
    BY <1>3 DEF CopyPage, hash, PagesInv, TypeOK
  <2>2. ASSUME IsWhole(dump, p + 1)
        PROVE  sha = HashBefore(dump, p + 1, 0)
    <3>1. p > 0 => IsWhole(dump, p)
      BY <1>1, <2>2, WholePages
    <3> QED  BY <2>1, <3>1 DEF HashSoFar
  <2> HIDE DEF p
  <2> QED  BY <2>1, <2>2 DEF HashSoFar
<1>4. CASE ~(FinishTransform \/ CopyPage)
  <2>1. UNCHANGED <<dump, boot1_buffer, sha>>
    BY <1>4 DEF Next, OpenFails, Open, ExpandWord, ReadPage, StartBlock, DecryptRound, FinishBlock,
       StartTransform, TransformRound, Save, vars, files, hash
  <2>2. \/ pc \in {"update", "transform"} /\ pc' \in {"update", "transform"} /\ block' = block
        \/ pc \notin {"update", "transform"} /\ pc' \notin {"update", "transform"}
    BY <1>4 DEF Next, OpenFails, Open, ExpandWord, ReadPage, StartBlock, DecryptRound, FinishBlock,
       StartTransform, TransformRound, Save, vars
  <2> QED  BY <2>1, <2>2 DEF HashSoFar
<1> QED
  BY <1>2, <1>3, <1>4

(* It holds in the first state.                                             *)
LEMMA InitInv == Init => Boot1Inv
<1> SUFFICES ASSUME Init PROVE Boot1Inv
  OBVIOUS
<1>1. TypeOK /\ Progress
  BY InitTypes
<1>2. FilePosition
  <2>1. PagesRead + 1 = 1 /\ position = 0 /\ Len(dump.bytes) \in Nat
    BY DumpTypes DEF Init, PagesRead, Reading
  <2> QED  BY <2>1, PageStarts DEF FilePosition
<1>3. KeyRight /\ RoundsRight /\ WholePagesRight
  BY DEF Init, KeyRight, RoundsRight, WholePagesRight
<1>4. DecryptRight
  BY DEF Init, DecryptRight, Current, Reading, ChainedTo
<1>5. HashSoFar
  BY DEF Init, HashSoFar, HashBefore
<1> QED
  BY <1>1, <1>2, <1>3, <1>4, <1>5 DEF Boot1Inv

(* It is inductive.                                                         *)
LEMMA NextInv == Boot1Inv /\ [Next]_vars => Boot1Inv'
<1> SUFFICES ASSUME Boot1Inv, [Next]_vars PROVE Boot1Inv'
  OBVIOUS
<1> QED
  BY NextTypes, FilePositionStep, KeyStep, RoundsStep, DecryptStep, PagesStep, HashStep
  DEF Boot1Inv, PagesInv

(* All of it, in every state.                                               *)
THEOREM Boot1Invariant == Spec => []Boot1Inv
  BY InitInv, NextInv, PTL DEF Spec

(* The pages that the file holds whole come out as those it is a dump of, for*)
(* every file that is cut off anywhere.                                     *)
THEOREM PagesDecrypted == Spec => []WholePagesRight
<1>1. Boot1Inv => WholePagesRight
  BY DEF Boot1Inv
<1> QED
  BY <1>1, Boot1Invariant, PTL

(* The hash of the pages so far, for the same files.                        *)
THEOREM PagesHashed == Spec => []HashRight
<1>1. Boot1Inv => HashRight
  <2> DEFINE p == Len(boot1_buffer)
  <2> SUFFICES ASSUME Boot1Inv, pc \in {"read", "save", "done"}, p > 0, IsWhole(dump, p)
               PROVE  sha = dump.hashes[p][LastShaBlock]
    BY DEF HashRight
  <2>1. p \in Nat
    BY DEF Boot1Inv, TypeOK
  <2>2. sha = HashBefore(dump, p + 1, 0)
    BY DEF Boot1Inv, HashSoFar
  <2>3. ~(0 > 0) /\ p + 1 > 1 /\ (p + 1) - 1 = p
    BY <2>1
  <2> QED  BY <2>2, <2>3 DEF HashBefore
<1> QED
  BY <1>1, Boot1Invariant, PTL

=============================================================================
