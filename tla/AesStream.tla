------------------------------- MODULE AesStream -------------------------------
(***************************************************************************)
(* The AES engine with a record of what the guest had it do: the words it   *)
(* put into each FIFO since the last reset, and the blocks of the stream in *)
(* progress.  A command that does not chain, and a reset, begin a stream; a *)
(* command that chains continues the one before.                            *)
(***************************************************************************)
EXTENDS AesEngine

CONSTANTS
  MAX_TOTAL,     \* bound on the blocks of a run
  MAX_SPENT      \* bound on its blocks and words, a block counting for two

ASSUME RecordAssumption == MAX_TOTAL \in Nat /\ MAX_SPENT \in Nat

VARIABLES
  keyWords, ivWords,
  stream,      \* the key and IV it began with, and each block done
  total        \* blocks of all commands so far

vars == <<engine, keyWords, ivWords, stream, total>>

Spent == 2 * total + Len(keyWords) + Len(ivWords)

NewStream(schedule, iv) == [RoundKey |-> schedule, Iv |-> iv, done |-> <<>>]

StreamInit ==
  /\ Init
  /\ keyWords = <<>> /\ ivWords = <<>>
  /\ stream = NewStream(NoSchedule, ZeroBlock)
  /\ total = 0

Continue(s, blocks) == [s EXCEPT !.done = @ \o blocks]

(* What one block of a command did: the direction, and memory before and    *)
(* after.  A command that only copies has no part in the stream.            *)
DoneBlocks(c) ==
  IF c.encryption
  THEN [j \in 1..c.blocks |-> [decrypt |-> c.decrypt,
                               in  |-> memory[AES_src_address + j - 1],
                               out |-> memory'[AES_dest_address + j - 1]]]
  ELSE <<>>

StreamCommand(c) ==
  /\ total + c.blocks <= MAX_TOTAL /\ Spent + 2 * c.blocks <= MAX_SPENT
  /\ total' = total + c.blocks
  /\ StartCommand(c)
  /\ LET began == IF c.chain THEN stream
                  ELSE NewStream(KeyExpansion(AES_key_buffer), AES_iv_buffer)
     IN  stream' = Continue(began, DoneBlocks(c))
  /\ UNCHANGED <<keyWords, ivWords>>

StreamOutside(c) ==
  /\ StartOutside(c)
  /\ UNCHANGED <<keyWords, ivWords, stream, total>>

StreamReset(c) ==
  /\ Reset(c)
  /\ keyWords' = <<>> /\ ivWords' = <<>>
  /\ stream' = NewStream(NoSchedule, ZeroBlock)
  /\ UNCHANGED total

StreamKEY(word) ==
  /\ Spent < MAX_SPENT
  /\ WriteKEY(word)
  /\ keyWords' = Append(keyWords, word)
  /\ UNCHANGED <<ivWords, stream, total>>

StreamIV(word) ==
  /\ Spent < MAX_SPENT
  /\ WriteIV(word)
  /\ ivWords' = Append(ivWords, word)
  /\ UNCHANGED <<keyWords, stream, total>>

StreamPointer ==
  /\ \/ \E a \in Written["AES_SRC"]  : WriteSRC(a)
     \/ \E a \in Written["AES_DEST"] : WriteDEST(a)
  /\ UNCHANGED <<keyWords, ivWords, stream, total>>

StreamNext ==
  \/ \E c \in Written["AES_CTRL"] : StreamCommand(c) \/ StreamOutside(c) \/ StreamReset(c)
  \/ \E w \in Written["AES_KEY"] : StreamKEY(w)
  \/ \E w \in Written["AES_IV"]  : StreamIV(w)
  \/ StreamPointer

StreamSpec == StreamInit /\ [][StreamNext]_vars

-----------------------------------------------------------------------------
(* The CBC value that goes into block j: the IV the stream began with, then *)
(* the ciphertext of the block before, which is what came out when it was   *)
(* encrypted and what went in when it was decrypted.                        *)
Ciphertext(d) == IF d.decrypt THEN d.in ELSE d.out

Chained(s, j) == IF j = 1 THEN s.Iv ELSE Ciphertext(s.done[j - 1])

BlockIsCbc(s, j) ==
  LET d == s.done[j] IN
  IF d.decrypt THEN d.out = Xor(InvCipher[s.RoundKey][d.in], Chained(s, j))
               ELSE d.out = Cipher[s.RoundKey][Xor(d.in, Chained(s, j))]

(* However a stream is cut into commands, and whatever is written to the    *)
(* FIFOs or copied between them, its blocks are one CBC run under the key   *)
(* and IV that were in the FIFOs when it began (AES_WriteRegister with the  *)
(* chain bit, AES_CBC_encrypt_buffer and AES_CBC_decrypt_buffer), also      *)
(* where source and destination overlap.                                    *)
StreamIsCbc == \A j \in DOMAIN stream.done : BlockIsCbc(stream, j)

(* Each FIFO holds the last word written at each of its four positions      *)
(* since the reset, and is at the position after the last word, however     *)
(* many words the guest left it with before a command or a reset.           *)
HoldsWords(buffer, state, words) ==
  /\ state = Len(words) % 4
  /\ \A i \in 0..3 :
       LET at == {n \in DOMAIN words : (n - 1) % 4 = i} IN
       buffer[i] = IF at = {} THEN {}
                   ELSE words[CHOOSE n \in at : \A k \in at : k <= n]

FifosHoldLastWords ==
  /\ HoldsWords(AES_key_buffer, AES_key_fifo_state, keyWords)
  /\ HoldsWords(AES_iv_buffer, AES_iv_fifo_state, ivWords)

=============================================================================
