------------------------------- MODULE AesProofs -------------------------------
(***************************************************************************)
(* That a chained stream of AES commands is one CBC run, for every block    *)
(* cipher, word width, memory and number of commands.                       *)
(*                                                                          *)
(* The context is what carries a stream from one command to the next: it    *)
(* holds the round keys the stream began with and the ciphertext of the     *)
(* last block done.                                                         *)
(***************************************************************************)
EXTENDS AesStream, SequenceTheorems, TLAPS

DoneBlock == [decrypt : BOOLEAN, in : Block, out : Block]
Stream    == [RoundKey : Schedule, Iv : Block, done : Seq(DoneBlock)]

(* The CBC value the next block of a stream will get.                       *)
NextChained(s) == IF s.done = <<>> THEN s.Iv ELSE Ciphertext(s.done[Len(s.done)])

ContextCarries ==
  running => /\ AES_context.RoundKey = stream.RoundKey
             /\ AES_context.Iv = NextChained(stream)

RecordOK == stream \in Stream

StreamInv == TypeOK /\ RecordOK /\ ContextCarries /\ StreamIsCbc

LEMMA ZeroBlockType == ZeroBlock \in Block
  BY DEF ZeroBlock, Block, AesWord

LEMMA XorType == \A b, c \in Block : Xor(b, c) \in Block
  BY DEF Xor, Block, AesWord

LEMMA ScheduleType ==
  /\ NoSchedule \in Schedule
  /\ \A k \in Block : KeyExpansion(k) \in Schedule
  BY DEF Schedule

LEMMA NewStreamIsCbc ==
  ASSUME NEW s \in Schedule, NEW iv \in Block
  PROVE  /\ NewStream(s, iv) \in Stream
         /\ NextChained(NewStream(s, iv)) = iv
         /\ \A j \in DOMAIN NewStream(s, iv).done : BlockIsCbc(NewStream(s, iv), j)
  BY DEF NewStream, Stream, NextChained

LEMMA StreamInitInv == StreamInit => StreamInv
<1> SUFFICES ASSUME StreamInit PROVE StreamInv
  OBVIOUS
<1>1. TypeOK
  <2>1. 0 \in Address /\ 0 \in 0..3
    BY AesAssumption DEF Address
  <2>2. [RoundKey |-> NoSchedule, Iv |-> ZeroBlock] \in [RoundKey : Schedule, Iv : Block]
    BY ZeroBlockType, ScheduleType
  <2>3. InitialMemory \in Memory
    BY AesAssumption
  <2>4. QED  BY <2>1, <2>2, <2>3, ZeroBlockType DEF StreamInit, Init, TypeOK
<1>2. stream = NewStream(NoSchedule, ZeroBlock)
  BY DEF StreamInit
<1>3. RecordOK /\ StreamIsCbc /\ NextChained(stream) = ZeroBlock
  BY <1>2, NewStreamIsCbc, ZeroBlockType, ScheduleType DEF RecordOK, StreamIsCbc
<1>4. ContextCarries
  BY <1>2, <1>3 DEF StreamInit, Init, ContextCarries, NewStream
<1>5. QED  BY <1>1, <1>3, <1>4 DEF StreamInv

-----------------------------------------------------------------------------
CommandBlocks(n, decrypt, in, out) ==
  [j \in 1..n |-> [decrypt |-> decrypt, in |-> in[j], out |-> out[j]]]

(* A stream that is CBC so far stays CBC when the blocks of one command are *)
(* added, if the command starts from the CBC value the stream left off with *)
(* (CBC_encrypt and CBC_decrypt).                                           *)
LEMMA AppendCommand ==
  ASSUME NEW s \in Stream, NEW n \in Nat \ {0},
         NEW in \in [1..n -> Block], NEW out \in [1..n -> Block],
         NEW decrypt \in BOOLEAN, NEW ctx \in [RoundKey : Schedule, Iv : Block],
         ctx.RoundKey = s.RoundKey, ctx.Iv = NextChained(s),
         \A j \in DOMAIN s.done : BlockIsCbc(s, j),
         IF decrypt THEN CBC_decrypt(ctx, in, out) ELSE CBC_encrypt(ctx, in, out),
         NEW t, t = Continue(s, CommandBlocks(n, decrypt, in, out))
  PROVE  /\ t \in Stream
         /\ t.RoundKey = s.RoundKey
         /\ NextChained(t) = IF decrypt THEN in[n] ELSE out[n]
         /\ \A j \in DOMAIN t.done : BlockIsCbc(t, j)
<1> DEFINE L == Len(s.done)
           D == CommandBlocks(n, decrypt, in, out)
<1>1. s.done \in Seq(DoneBlock) /\ L \in Nat
  BY DEF Stream
<1>2. D \in Seq(DoneBlock) /\ Len(D) = n /\ \A k \in 1..n : D[k] \in DoneBlock
  <2>1. D \in [1..n -> DoneBlock]
    BY DEF CommandBlocks, DoneBlock
  <2> HIDE DEF D
  <2>2. D \in Seq(DoneBlock)
    BY <2>1
  <2>3. DOMAIN D = 1..n /\ DOMAIN D = 1..Len(D) /\ Len(D) \in Nat
    BY <2>1, <2>2
  <2>4. QED  BY <2>1, <2>2, <2>3
<1>3. /\ t.done = s.done \o D
      /\ t.Iv = s.Iv /\ t.RoundKey = s.RoundKey
      /\ t \in [RoundKey : Schedule, Iv : Block, done : {s.done \o D}]
  BY DEF Stream, Continue
<1>4. /\ t.done \in Seq(DoneBlock)
      /\ Len(t.done) = L + n /\ DOMAIN t.done = 1..(L + n)
      /\ \A j \in 1..L : t.done[j] = s.done[j]
      /\ \A k \in 1..n : t.done[L + k] = D[k]
  <2> HIDE DEF D
  <2>1. t.done \in Seq(DoneBlock) /\ Len(t.done) = L + n
    <3>1. /\ s.done \o D \in Seq(DoneBlock)
          /\ Len(s.done \o D) = Len(s.done) + Len(D)
      BY <1>1, <1>2, ConcatProperties
    <3>2. QED  BY <1>2, <1>3, <3>1
  <2>2. ASSUME NEW j \in 1..(L + n)
        PROVE  (s.done \o D)[j] = IF j <= L THEN s.done[j] ELSE D[j - L]
    BY <1>1, <1>2
  <2>3. DOMAIN t.done = 1..(L + n)
    BY <2>1
  <2>4. \A j \in 1..L : t.done[j] = s.done[j]
    BY <1>1, <1>3, <2>2
  <2>5. ASSUME NEW k \in 1..n PROVE t.done[L + k] = D[k]
    <3>1. L + k \in 1..(L + n) /\ ~(L + k <= L) /\ (L + k) - L = k
      BY <1>1
    <3>2. QED  BY <1>3, <2>2, <3>1
  <2>6. QED  BY <2>1, <2>3, <2>4, <2>5
<1>5. t \in Stream
  BY <1>3, <1>4 DEF Stream
<1>6. \A k \in 1..n : /\ t.done[L + k].decrypt = decrypt
                      /\ t.done[L + k].in = in[k] /\ t.done[L + k].out = out[k]
  <2>1. \A k \in 1..n : D[k] = [decrypt |-> decrypt, in |-> in[k], out |-> out[k]]
    BY DEF CommandBlocks
  <2> HIDE DEF D
  <2>2. ASSUME NEW k \in 1..n
        PROVE  t.done[L + k] = [decrypt |-> decrypt, in |-> in[k], out |-> out[k]]
    BY <1>4, <2>1
  <2> HIDE DEF L
  <2>3. ASSUME NEW k \in 1..n
        PROVE  /\ t.done[L + k].decrypt = decrypt
               /\ t.done[L + k].in = in[k] /\ t.done[L + k].out = out[k]
    <3> DEFINE d == t.done[L + k]
    <3>1. d = [decrypt |-> decrypt, in |-> in[k], out |-> out[k]]
      BY <2>2
    <3> HIDE DEF d
    <3>2. d.decrypt = decrypt /\ d.in = in[k] /\ d.out = out[k]
      BY <3>1
    <3>3. QED  BY <3>2 DEF d
  <2>4. QED  BY <2>3
<1> HIDE DEF D
<1>7. NextChained(t) = IF decrypt THEN in[n] ELSE out[n]
  <2>1. t.done # <<>> /\ Len(t.done) = L + n /\ n \in 1..n
    BY <1>1, <1>4
  <2>2. QED  BY <1>6, <2>1 DEF NextChained, Ciphertext
<1>8. ASSUME NEW j \in 1..L PROVE BlockIsCbc(t, j)
  <2>1. t.done[j] = s.done[j] /\ Chained(t, j) = Chained(s, j)
    <3>1. j # 1 => j - 1 \in 1..L
      <4> HIDE DEF L
      <4>1. QED  BY <1>1
    <3>2. t.Iv = s.Iv /\ \A k \in 1..L : t.done[k] = s.done[k]
      BY <1>3, <1>4
    <3> HIDE DEF L
    <3>3. QED  BY <3>1, <3>2 DEF Chained
  <2>2. BlockIsCbc(s, j)
    BY <1>1
  <2>3. QED  BY <1>3, <2>1, <2>2 DEF BlockIsCbc
<1>9. ASSUME NEW k \in 1..n PROVE BlockIsCbc(t, L + k)
  <2>1. CASE k = 1
    <3>1. Chained(t, L + 1) = ctx.Iv
      BY <1>1, <1>3, <1>4 DEF Chained, NextChained
    <3>2. IF decrypt THEN out[1] = Xor(InvCipher[s.RoundKey][in[1]], ctx.Iv)
                     ELSE out[1] = Cipher[s.RoundKey][Xor(in[1], ctx.Iv)]
      BY DEF CBC_decrypt, CBC_encrypt, Before
    <3>3. QED  BY <1>3, <1>6, <2>1, <3>1, <3>2 DEF BlockIsCbc
  <2>2. CASE k # 1
    <3>1. k - 1 \in 1..n /\ L + k # 1 /\ (L + k) - 1 = L + (k - 1)
      <4> HIDE DEF L
      <4>1. QED  BY <1>1, <2>2
    <3>2. Chained(t, L + k) = IF decrypt THEN in[k - 1] ELSE out[k - 1]
      BY <1>6, <3>1 DEF Chained, Ciphertext
    <3>3. IF decrypt THEN out[k] = Xor(InvCipher[s.RoundKey][in[k]], in[k - 1])
                     ELSE out[k] = Cipher[s.RoundKey][Xor(in[k], out[k - 1])]
      BY <2>2 DEF CBC_decrypt, CBC_encrypt, Before
    <3>4. QED  BY <1>3, <1>6, <3>2, <3>3 DEF BlockIsCbc
  <2>3. QED  BY <2>1, <2>2
<1>10. ASSUME NEW j \in 1..(L + n) PROVE BlockIsCbc(t, j)
  <2>1. CASE j \in 1..L
    BY <1>8, <2>1
  <2>2. CASE j \notin 1..L
    <3>1. j - L \in 1..n /\ L + (j - L) = j
      BY <1>1, <2>2
    <3>2. QED  BY <1>9, <3>1
  <2>3. QED  BY <2>1, <2>2
<1>11. QED  BY <1>3, <1>4, <1>5, <1>7, <1>10

(* A command that encrypts or decrypts adds its blocks to the stream it     *)
(* chains to, or to a new one.                                              *)
LEMMA CommandInv ==
  ASSUME StreamInv, NEW c \in Control, StreamCommand(c)
  PROVE  StreamInv'
<1> DEFINE n == c.blocks
           ctx == StartContext(c)
           began == IF c.chain THEN stream
                    ELSE NewStream(KeyExpansion(AES_key_buffer), AES_iv_buffer)
           in == SourceBlocks(n)
<1>1. PICK out \in [1..n -> Block] : Crypts(c, ctx, in, out)
  BY DEF StreamCommand, StartCommand, Advanced
<1>2. /\ n \in Nat \ {0} /\ n \in 1..n
      /\ c.encryption \in BOOLEAN /\ c.decrypt \in BOOLEAN /\ c.chain \in BOOLEAN
  BY AesAssumption DEF Control
<1>3. /\ InMemory(AES_src_address, n) /\ InMemory(AES_dest_address, n)
      /\ AES_src_address \in Nat /\ AES_dest_address \in Nat
  BY AesAssumption DEF StreamCommand, StartCommand, StreamInv, TypeOK, Address, Advanced
<1>4. in \in [1..n -> Block]
  <2>1. ASSUME NEW j \in 1..n PROVE AES_src_address + j - 1 \in 0..(MEM_BLOCKS - 1)
    <3>1. AES_src_address + j - 1 \in Blocks(AES_src_address, n)
      BY <1>2, <1>3 DEF Blocks
    <3>2. QED  BY <1>3, <3>1 DEF InMemory
  <2>2. memory \in [0..(MEM_BLOCKS - 1) -> Block]
    BY DEF StreamInv, TypeOK, Memory
  <2>3. QED  BY <2>1, <2>2 DEF SourceBlocks
<1>5. /\ ctx \in [RoundKey : Schedule, Iv : Block]
      /\ began \in Stream
      /\ ctx.RoundKey = began.RoundKey /\ ctx.Iv = NextChained(began)
      /\ \A j \in DOMAIN began.done : BlockIsCbc(began, j)
  <2>1. CASE c.chain
    BY <2>1 DEF StreamCommand, StartCommand, StartContext, StreamInv, TypeOK, RecordOK, ContextCarries, StreamIsCbc, Advanced
  <2>2. CASE ~c.chain
    <3>1. AES_iv_buffer \in Block /\ KeyExpansion(AES_key_buffer) \in Schedule
      BY ScheduleType DEF StreamInv, TypeOK
    <3>2. QED
      BY <2>2, <3>1, NewStreamIsCbc DEF StartContext, NewStream
  <2>3. QED  BY <1>2, <2>1, <2>2
<1> HIDE DEF ctx, began, in
<1>6. memory' \in Memory
      /\ \A j \in 1..n : memory'[AES_dest_address + j - 1] = out[j]
  <2>1. \A a \in 0..(MEM_BLOCKS - 1) :
          a \in Blocks(AES_dest_address, n) => a - AES_dest_address + 1 \in 1..n
    BY <1>2, <1>3 DEF Blocks
  <2>2. memory' \in Memory
    BY <1>1, <2>1 DEF Crypts, StreamInv, TypeOK, Memory, NextIv
  <2>3. ASSUME NEW j \in 1..n PROVE memory'[AES_dest_address + j - 1] = out[j]
    <3>1. /\ AES_dest_address + j - 1 \in Blocks(AES_dest_address, n)
          /\ (AES_dest_address + j - 1) - AES_dest_address + 1 = j
      BY <1>2, <1>3 DEF Blocks
    <3>2. AES_dest_address + j - 1 \in 0..(MEM_BLOCKS - 1)
      BY <1>3, <3>1 DEF InMemory
    <3>3. QED  BY <1>1, <3>1, <3>2 DEF Crypts, NextIv
  <2>4. QED  BY <2>2, <2>3
<1>7. stream' = Continue(began, DoneBlocks(c))
  BY DEF StreamCommand, began
<1>8. /\ AES_context' \in [RoundKey : Schedule, Iv : Block]
      /\ RecordOK' /\ ContextCarries' /\ StreamIsCbc'
  <2>1. CASE c.encryption
    <3>1. DoneBlocks(c) = CommandBlocks(n, c.decrypt, in, out)
      BY <1>6, <2>1 DEF DoneBlocks, CommandBlocks, in, SourceBlocks
    <3>2. IF c.decrypt THEN CBC_decrypt(ctx, in, out) ELSE CBC_encrypt(ctx, in, out)
      BY <1>1, <1>2, <2>1 DEF Crypts, NextIv
    <3>3. /\ stream' \in Stream
          /\ stream'.RoundKey = began.RoundKey
          /\ NextChained(stream') = IF c.decrypt THEN in[n] ELSE out[n]
          /\ \A j \in DOMAIN stream'.done : BlockIsCbc(stream', j)
      BY <1>2, <1>4, <1>5, <1>7, <3>1, <3>2, AppendCommand
    <3>4. AES_context' = [ctx EXCEPT !.Iv = IF c.decrypt THEN in[n] ELSE out[n]]
      BY <1>1, <1>2, <2>1 DEF Crypts, NextIv
    <3>5. in[n] \in Block /\ out[n] \in Block
      BY <1>2, <1>4
    <3>6. /\ AES_context' \in [RoundKey : Schedule, Iv : Block]
          /\ AES_context'.RoundKey = ctx.RoundKey
          /\ AES_context'.Iv = IF c.decrypt THEN in[n] ELSE out[n]
      BY <1>5, <3>4, <3>5
    <3>7. QED
      BY <1>5, <3>3, <3>6 DEF RecordOK, ContextCarries, StreamIsCbc
  <2>2. CASE ~c.encryption
    <3>1. DoneBlocks(c) = <<>>
      BY <2>2 DEF DoneBlocks
    <3>2. stream' = began
      BY <1>5, <1>7, <3>1, ConcatEmptySeq DEF Stream, Continue
    <3>3. AES_context' = ctx
      BY <1>1, <1>2, <1>5, <2>2 DEF Crypts, NextIv
    <3>4. QED
      BY <1>5, <3>2, <3>3 DEF RecordOK, ContextCarries, StreamIsCbc
  <2>3. QED  BY <2>1, <2>2
<1>9. AES_src_address' \in Address /\ AES_dest_address' \in Address
  <2>1. \A x \in Nat : x % ADDRESS_LIMIT \in 0..(ADDRESS_LIMIT - 1)
    BY AesAssumption
  <2>2. AES_src_address + n \in Nat /\ AES_dest_address + n \in Nat
    BY <1>2, <1>3
  <2>3. QED  BY <2>1, <2>2 DEF StreamCommand, StartCommand, Address, Advanced
<1>10. TypeOK'
  BY <1>2, <1>6, <1>8, <1>9
     DEF StreamCommand, StartCommand, StreamInv, TypeOK, keyFifo, ivFifo, Advanced
<1>11. QED  BY <1>8, <1>10 DEF StreamInv

LEMMA StreamStepInv == StreamInv /\ [StreamNext]_vars => StreamInv'
<1> SUFFICES ASSUME StreamInv, [StreamNext]_vars PROVE StreamInv'
  OBVIOUS
<1> DEFINE Kept == UNCHANGED <<AES_context, stream, running>>
<1>1. Kept => RecordOK' /\ ContextCarries' /\ StreamIsCbc'
  BY DEF StreamInv, RecordOK, ContextCarries, StreamIsCbc
<1>2. ASSUME NEW c \in Written["AES_CTRL"], StreamCommand(c) PROVE StreamInv'
  <2>1. c \in Control
    BY AesAssumption
  <2>2. QED  BY <1>2, <2>1, CommandInv
<1>3. ASSUME NEW c \in Written["AES_CTRL"], StreamOutside(c) PROVE StreamInv'
  <2>1. c \in Control /\ c.encryption \in BOOLEAN /\ c.decrypt \in BOOLEAN
    BY AesAssumption DEF Control
  <2>2. ~running' /\ RecordOK' /\ StreamIsCbc'
    BY <1>3 DEF StreamOutside, StartOutside, StreamInv, RecordOK, StreamIsCbc
  <2>3. AES_context' \in [RoundKey : Schedule, Iv : Block]
    BY <1>3, ScheduleType DEF StreamOutside, StartOutside, StartContext, StreamInv, TypeOK
  <2>4. TypeOK'
    BY <1>3, <2>1, <2>3
       DEF StreamOutside, StartOutside, StreamInv, TypeOK, keyFifo, ivFifo
  <2>5. QED  BY <2>2, <2>4 DEF StreamInv, ContextCarries
<1>4. ASSUME NEW c \in Written["AES_CTRL"], StreamReset(c) PROVE StreamInv'
  <2>1. c \in Control
    BY AesAssumption
  <2>2. /\ AES_context' = [RoundKey |-> NoSchedule, Iv |-> ZeroBlock]
        /\ stream' = NewStream(NoSchedule, ZeroBlock)
    BY <1>4 DEF StreamReset, Reset, ClearFifos
  <2>3. RecordOK' /\ StreamIsCbc' /\ NextChained(stream') = ZeroBlock
    BY <2>2, NewStreamIsCbc, ZeroBlockType, ScheduleType DEF RecordOK, StreamIsCbc
  <2>4. ContextCarries'
    BY <2>2, <2>3 DEF ContextCarries, NewStream
  <2>5. AES_context' \in [RoundKey : Schedule, Iv : Block]
    BY <2>2, ZeroBlockType, ScheduleType
  <2>6. TypeOK'
    BY <1>4, <2>1, <2>5, ZeroBlockType DEF StreamReset, Reset, StreamInv, TypeOK, Control, ClearFifos
  <2>7. QED  BY <2>3, <2>4, <2>6 DEF StreamInv
<1>5. ASSUME NEW w \in Written["AES_KEY"], StreamKEY(w) PROVE StreamInv'
  <2>1. w \in AesWord
    BY AesAssumption
  <2>2. AES_key_buffer' \in Block /\ AES_key_fifo_state' \in 0..3
    BY <1>5, <2>1 DEF StreamKEY, WriteKEY, StreamInv, TypeOK, Block, NextPosition
  <2>3. TypeOK' /\ Kept
    BY <1>5, <2>2 DEF StreamKEY, WriteKEY, StreamInv, TypeOK, ivFifo, flags, NextPosition
  <2>4. QED  BY <1>1, <2>3 DEF StreamInv
<1>6. ASSUME NEW w \in Written["AES_IV"], StreamIV(w) PROVE StreamInv'
  <2>1. w \in AesWord
    BY AesAssumption
  <2>2. AES_iv_buffer' \in Block /\ AES_iv_fifo_state' \in 0..3
    BY <1>6, <2>1 DEF StreamIV, WriteIV, StreamInv, TypeOK, Block, NextPosition
  <2>3. TypeOK' /\ Kept
    BY <1>6, <2>2 DEF StreamIV, WriteIV, StreamInv, TypeOK, keyFifo, flags, NextPosition
  <2>4. QED  BY <1>1, <2>3 DEF StreamInv
<1>7. ASSUME StreamPointer PROVE StreamInv'
  <2>1. AES_src_address' \in Address /\ AES_dest_address' \in Address
    BY <1>7, AesAssumption DEF StreamPointer, WriteSRC, WriteDEST, StreamInv, TypeOK
  <2>2. TypeOK' /\ Kept
    BY <1>7, <2>1
       DEF StreamPointer, WriteSRC, WriteDEST, StreamInv, TypeOK, keyFifo, ivFifo, flags
  <2>3. QED  BY <1>1, <2>2 DEF StreamInv
<1>8. ASSUME UNCHANGED vars PROVE StreamInv'
  <2>1. TypeOK' /\ Kept
    BY <1>8 DEF vars, engine, StreamInv, TypeOK, keyFifo, ivFifo, flags
  <2>2. QED  BY <1>1, <2>1 DEF StreamInv
<1>9. QED
  BY <1>2, <1>3, <1>4, <1>5, <1>6, <1>7, <1>8 DEF StreamNext

-----------------------------------------------------------------------------
(* The FIFOs.  A word goes to the position that the number of words before  *)
(* it says, and the other positions keep the last word they had.            *)
FifoInv ==
  /\ keyWords \in Seq(AesWord) /\ ivWords \in Seq(AesWord)
  /\ FifosHoldLastWords

Positions(words, i) == {n \in DOMAIN words : (n - 1) % 4 = i}

IsLast(n, at) == n \in at /\ \A k \in at : k <= n

LEMMA LastPosition ==
  ASSUME NEW words \in Seq(AesWord), NEW i \in 0..3, Positions(words, i) # {}
  PROVE  \E n \in DOMAIN words : IsLast(n, Positions(words, i))
<1> DEFINE m == Len(words) - ((Len(words) - 1 - i) % 4)
<1>1. Len(words) \in Nat /\ DOMAIN words = 1..Len(words)
  OBVIOUS
<1>2. m \in Int /\ m <= Len(words) /\ (m - 1) % 4 = i /\ Len(words) < m + 4
  BY <1>1
<1>3. \A k \in Positions(words, i) : k <= m
  BY <1>1, <1>2 DEF Positions
<1>4. m \in 1..Len(words)
  BY <1>1, <1>2, <1>3 DEF Positions
<1> QED
  BY <1>1, <1>2, <1>3, <1>4 DEF Positions, IsLast

LEMMA PutWord ==
  ASSUME NEW buffer \in Block, NEW state \in 0..3, NEW words \in Seq(AesWord),
         NEW word \in AesWord, HoldsWords(buffer, state, words)
  PROVE  HoldsWords([buffer EXCEPT ![state] = word], NextPosition(state), Append(words, word))
<1> DEFINE more == Append(words, word)
           L == Len(words)
<1>1. /\ L \in Nat /\ DOMAIN words = 1..L /\ DOMAIN more = 1..(L + 1)
      /\ more[L + 1] = word /\ \A n \in 1..L : more[n] = words[n]
      /\ Len(more) = L + 1
  OBVIOUS
<1>2. state = L % 4
  BY DEF HoldsWords
<1>3. NextPosition(state) = Len(more) % 4
  BY <1>1, <1>2 DEF NextPosition
<1>4. ASSUME NEW i \in 0..3
      PROVE  [buffer EXCEPT ![state] = word][i] =
               LET at == Positions(more, i) IN
               IF at = {} THEN {} ELSE more[CHOOSE n \in at : \A k \in at : k <= n]
  <2>0. DOMAIN buffer = 0..3
    BY DEF Block
  <2>1. CASE i = state
    <3>1. L + 1 \in Positions(more, i)
      BY <1>1, <1>2, <2>1 DEF Positions
    <3>2. \A n \in Positions(more, i) : n \in Nat /\ n <= L + 1
      BY <1>1 DEF Positions
    <3>3. (CHOOSE n \in Positions(more, i) : \A k \in Positions(more, i) : k <= n) = L + 1
      <4> DEFINE c == CHOOSE n \in Positions(more, i) : \A k \in Positions(more, i) : k <= n
      <4>1. c \in Positions(more, i) /\ \A k \in Positions(more, i) : k <= c
        BY <3>1, <3>2
      <4> HIDE DEF c
      <4>2. c \in Nat /\ c <= L + 1 /\ L + 1 <= c
        BY <3>1, <3>2, <4>1
      <4>3. c = L + 1
        BY <4>2, <1>1
      <4> QED  BY <4>3 DEF c
    <3> QED  BY <1>1, <2>0, <2>1, <3>1, <3>3
  <2>2. CASE i # state
    <3>1. Positions(more, i) = Positions(words, i)
      BY <1>1, <1>2, <2>2 DEF Positions
    <3>2. buffer[i] = LET at == Positions(words, i) IN
            IF at = {} THEN {} ELSE words[CHOOSE n \in at : \A k \in at : k <= n]
      BY DEF HoldsWords, Positions
    <3>3. CASE Positions(words, i) = {}
      BY <2>0, <2>2, <3>1, <3>2, <3>3
    <3>4. CASE Positions(words, i) # {}
      <4> DEFINE at == Positions(words, i)
                 c == CHOOSE n \in at : \A k \in at : k <= n
      <4>1. c \in at
        BY <3>4, LastPosition DEF IsLast
      <4>2. c \in 1..L
        BY <4>1, <1>1 DEF Positions
      <4> HIDE DEF c
      <4>3. more[c] = words[c]
        BY <1>1, <4>2
      <4>4. buffer[i] = words[c]
        BY <3>2, <3>4 DEF c
      <4> QED  BY <2>0, <2>2, <3>1, <3>4, <4>3, <4>4 DEF c
    <3> QED  BY <3>3, <3>4
  <2> QED  BY <2>1, <2>2
<1> QED
  BY <1>3, <1>4 DEF HoldsWords, Positions

LEMMA NoWords == HoldsWords(ZeroBlock, 0, <<>>)
  BY DEF HoldsWords, ZeroBlock

LEMMA FifoStepInv == TypeOK /\ FifoInv /\ [StreamNext]_vars => FifoInv'
<1> SUFFICES ASSUME TypeOK, FifoInv, [StreamNext]_vars PROVE FifoInv'
  OBVIOUS
<1> DEFINE KeyKept == UNCHANGED <<keyFifo, keyWords>>
           IvKept  == UNCHANGED <<ivFifo, ivWords>>
<1>1. KeyKept => /\ keyWords' \in Seq(AesWord)
                 /\ HoldsWords(AES_key_buffer, AES_key_fifo_state, keyWords)'
  BY DEF FifoInv, FifosHoldLastWords, keyFifo, HoldsWords
<1>2. IvKept => /\ ivWords' \in Seq(AesWord)
                /\ HoldsWords(AES_iv_buffer, AES_iv_fifo_state, ivWords)'
  BY DEF FifoInv, FifosHoldLastWords, ivFifo, HoldsWords
<1>3. ASSUME NEW c \in Written["AES_CTRL"], StreamReset(c) PROVE FifoInv'
  <2>1. /\ keyWords' = <<>> /\ ivWords' = <<>>
        /\ AES_key_buffer' = ZeroBlock /\ AES_key_fifo_state' = 0
        /\ AES_iv_buffer' = ZeroBlock /\ AES_iv_fifo_state' = 0
    BY <1>3 DEF StreamReset, Reset, ClearFifos
  <2> QED  BY <2>1, NoWords DEF FifoInv, FifosHoldLastWords
<1>4. ASSUME NEW w \in Written["AES_KEY"], StreamKEY(w) PROVE FifoInv'
  <2>1. w \in AesWord
    BY AesAssumption
  <2>2. IvKept
    BY <1>4 DEF StreamKEY, WriteKEY
  <2>3. /\ AES_key_buffer' = [AES_key_buffer EXCEPT ![AES_key_fifo_state] = w]
        /\ AES_key_fifo_state' = NextPosition(AES_key_fifo_state)
        /\ keyWords' = Append(keyWords, w)
    BY <1>4 DEF StreamKEY, WriteKEY
  <2>4. HoldsWords(AES_key_buffer, AES_key_fifo_state, keyWords)'
    BY <2>1, <2>3, PutWord DEF TypeOK, FifoInv, FifosHoldLastWords
  <2> QED  BY <1>2, <2>1, <2>2, <2>3, <2>4 DEF FifoInv, FifosHoldLastWords
<1>5. ASSUME NEW w \in Written["AES_IV"], StreamIV(w) PROVE FifoInv'
  <2>1. w \in AesWord
    BY AesAssumption
  <2>2. KeyKept
    BY <1>5 DEF StreamIV, WriteIV
  <2>3. /\ AES_iv_buffer' = [AES_iv_buffer EXCEPT ![AES_iv_fifo_state] = w]
        /\ AES_iv_fifo_state' = NextPosition(AES_iv_fifo_state)
        /\ ivWords' = Append(ivWords, w)
    BY <1>5 DEF StreamIV, WriteIV
  <2>4. HoldsWords(AES_iv_buffer, AES_iv_fifo_state, ivWords)'
    BY <2>1, <2>3, PutWord DEF TypeOK, FifoInv, FifosHoldLastWords
  <2> QED  BY <1>1, <2>1, <2>2, <2>3, <2>4 DEF FifoInv, FifosHoldLastWords
<1>6. ASSUME KeyKept, IvKept PROVE FifoInv'
  BY <1>1, <1>2, <1>6 DEF FifoInv, FifosHoldLastWords
<1>7. ASSUME NEW c \in Written["AES_CTRL"], StreamCommand(c) \/ StreamOutside(c)
      PROVE  KeyKept /\ IvKept
  BY <1>7 DEF StreamCommand, StartCommand, StreamOutside, StartOutside
<1>8. StreamPointer => KeyKept /\ IvKept
  BY DEF StreamPointer, WriteSRC, WriteDEST
<1>9. UNCHANGED vars => KeyKept /\ IvKept
  BY DEF vars, engine
<1> QED
  BY <1>3, <1>4, <1>5, <1>6, <1>7, <1>8, <1>9 DEF StreamNext

THEOREM StreamInvariant == StreamSpec => []StreamInv
  BY StreamInitInv, StreamStepInv, PTL DEF StreamSpec

(* Every variable of the engine keeps its kind.                             *)
THEOREM AesTypeCorrect == StreamSpec => []TypeOK
  BY StreamInvariant, PTL DEF StreamInv

(* Every stream of chained commands is one CBC run under the key and IV it  *)
(* began with.                                                              *)
THEOREM StreamCorrect == StreamSpec => []StreamIsCbc
  BY StreamInvariant, PTL DEF StreamInv

(* Each FIFO holds, at each position, the last word written there since the *)
(* reset, for any number of words.                                          *)
THEOREM FifosCorrect == StreamSpec => []FifosHoldLastWords
<1>1. StreamInit => FifoInv
  BY NoWords DEF StreamInit, Init, FifoInv, FifosHoldLastWords
<1>2. StreamInv => TypeOK
  BY DEF StreamInv
<1>3. FifoInv => FifosHoldLastWords
  BY DEF FifoInv
<1> QED
  BY <1>1, <1>2, <1>3, FifoStepInv, StreamInvariant, PTL DEF StreamSpec

=============================================================================
