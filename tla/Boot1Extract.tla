----------------------------- MODULE Boot1Extract -----------------------------
(***************************************************************************)
(* tools/boot1-extract.c: boot1 is read from a NAND dump page by page,      *)
(* decrypted in one CBC run over all pages and hashed as boot0 does, with   *)
(* the rounds of both algorithms as steps.  The tool has no other thread    *)
(* and no input but the file, which may be short.                           *)
(***************************************************************************)
EXTENDS AesCipher, Sha1Rounds

CONSTANTS
  NAND_PAGE_SIZE, NAND_ECC_SIZE,
  BOOT1_PAGE_SIZE,   \* 0x2F, the pages of boot1
  Dumps              \* dumps to try, each with a key; the tool has only one key

AES_BLOCKLEN == 16
SHA_BLOCK    == 64

Bytes(n) == [0..(n - 1) -> Octet]

Part(bytes, size, n) == [i \in 0..(size - 1) |-> bytes[size * n + i]]

ZeroBytes(n) == [i \in 0..(n - 1) |-> {}]

(* The blocks of a page, from 0.                                            *)
AesBlocks == 0..(NAND_PAGE_SIZE \div AES_BLOCKLEN - 1)
ShaBlocks == 0..(NAND_PAGE_SIZE \div SHA_BLOCK - 1)
LastAesBlock == NAND_PAGE_SIZE \div AES_BLOCKLEN - 1
LastShaBlock == NAND_PAGE_SIZE \div SHA_BLOCK - 1

(* A file d holds page p whole, as these bytes.                             *)
PageStart(p) == (p - 1) * (NAND_PAGE_SIZE + NAND_ECC_SIZE)

IsWhole(d, p) == PageStart(p) + NAND_PAGE_SIZE <= Len(d.bytes)

PageOf(d, p) == [n \in 0..(NAND_PAGE_SIZE - 1) |-> d.bytes[PageStart(p) + n + 1]]

(* What CBC adds to a block: the encrypted block before it, also where that *)
(* is on the page before.                                                   *)
ChainedTo(d, p, b) ==
  IF b > 0 THEN Part(PageOf(d, p), AES_BLOCKLEN, b - 1)
  ELSE IF p > 1 THEN Part(PageOf(d, p - 1), AES_BLOCKLEN, LastAesBlock)
  ELSE ZeroBytes(AES_BLOCKLEN)

(* The hash of everything before a block.                                   *)
HashBefore(d, p, b) ==
  IF b > 0 THEN d.hashes[p][b - 1]
  ELSE IF p > 1 THEN d.hashes[p - 1][LastShaBlock]
  ELSE InitialState

(* The whole pages of a file are the encryption of d.pages, and d.hashes    *)
(* has the hash up to each of their blocks, without padding.                *)
IsDumpOf(d, p) ==
  /\ d.pages[p] \in Bytes(NAND_PAGE_SIZE)
  /\ \A b \in AesBlocks :
       Part(PageOf(d, p), AES_BLOCKLEN, b) =
         Cipher(XorBlocks(Part(d.pages[p], AES_BLOCKLEN, b), ChainedTo(d, p, b)),
                KeyExpansion(d.key))
  /\ \A b \in ShaBlocks :
       d.hashes[p][b] =
         StandardTransform(HashBefore(d, p, b), blk0(Part(d.pages[p], SHA_BLOCK, b)))

ASSUME Boot1Assumption ==
  /\ NAND_PAGE_SIZE \in Nat \ {0} /\ NAND_PAGE_SIZE % SHA_BLOCK = 0
  /\ NAND_ECC_SIZE \in Nat /\ BOOT1_PAGE_SIZE \in Nat \ {0}
  /\ \A d \in Dumps :
       /\ d.key \in Bytes(AES_BLOCKLEN) /\ d.bytes \in Seq(Octet)
       /\ \A p \in 1..BOOT1_PAGE_SIZE : IsWhole(d, p) => IsDumpOf(d, p)

VARIABLES
  dump,
  pc,
  position,          \* in the file
  page_buffer, boot1_buffer,
  RoundKey, Iv,      \* the AES context
  sha,               \* the state words of the SHA-1 context
  block, round,      \* counters of the loops inside of both algorithms
  state,             \* the block AES works on
  working, workspace, \* the variables a to e and the message words of SHA-1
  standard           \* a record of the same rounds as the standard has them

aes   == <<RoundKey, Iv, state>>
hash  == <<sha, working, workspace, standard>>
files == <<dump, position, boot1_buffer>>
vars  == <<pc, files, page_buffer, aes, hash, block, round>>

Init ==
  /\ dump \in Dumps
  /\ pc = "open"
  /\ position = 0
  /\ page_buffer = ZeroBytes(NAND_PAGE_SIZE)
  /\ boot1_buffer = <<>>
  /\ RoundKey = <<>>
  /\ Iv = ZeroBytes(AES_BLOCKLEN)
  /\ sha = InitialState
  /\ block = 0 /\ round = 0
  /\ state = ZeroBytes(AES_BLOCKLEN)
  /\ working = InitialState
  /\ workspace = [i \in 0..15 |-> {}]
  /\ standard = StandardStart(InitialState)

-----------------------------------------------------------------------------
(* No argument, or no file by that name.                                    *)
OpenFails ==
  /\ pc = "open"
  /\ pc' = "failed"
  /\ UNCHANGED <<files, page_buffer, aes, hash, block, round>>

Open ==
  /\ pc = "open"
  /\ pc' = "expand"
  /\ RoundKey' = FirstWords(dump.key)
  /\ round' = Nk
  /\ UNCHANGED <<files, page_buffer, Iv, state, hash, block>>

ExpandWord ==
  /\ pc = "expand"
  /\ RoundKey' = ExpandKey(RoundKey, round)
  /\ round' = round + 1
  /\ pc' = IF round + 1 = KeyWords THEN "read" ELSE "expand"
  /\ UNCHANGED <<files, page_buffer, Iv, state, hash, block>>

(* Where the second fread leaves the file.                                  *)
AfterPage(at) == at + NAND_PAGE_SIZE + NAND_ECC_SIZE

(* fread leaves the bytes of the buffer that it has none for: those of the  *)
(* page before, which have been decrypted in place.                         *)
ReadPage ==
  /\ pc = "read"
  /\ page_buffer' = [n \in 0..(NAND_PAGE_SIZE - 1) |->
                       IF position + n < Len(dump.bytes) THEN dump.bytes[position + n + 1]
                                                         ELSE page_buffer[n]]
  /\ position' = IF AfterPage(position) < Len(dump.bytes) THEN AfterPage(position)
                                                          ELSE Len(dump.bytes)
  /\ block' = 0
  /\ pc' = "decrypt"
  /\ UNCHANGED <<dump, boot1_buffer, aes, hash, round>>

CipherBlock == Part(page_buffer, AES_BLOCKLEN, block)

StartBlock ==
  /\ pc = "decrypt"
  /\ state' = StartInvCipher(CipherBlock, RoundKey)
  /\ round' = Nr - 1
  /\ pc' = "rounds"
  /\ UNCHANGED <<files, page_buffer, RoundKey, Iv, hash, block>>

DecryptRound ==
  /\ pc = "rounds" /\ round >= 0
  /\ state' = InvCipherRound(round, state, RoundKey)
  /\ round' = round - 1
  /\ UNCHANGED <<pc, files, page_buffer, RoundKey, Iv, hash, block>>

(* The block is still in the page, where the code has kept a copy of it.    *)
(* The slip takes the plaintext for the next block.                         *)
NextIvPlain(plain, ciphertext) == plain
NextIv(plain, ciphertext)      == ciphertext

FinishBlock ==
  /\ pc = "rounds" /\ round < 0
  /\ LET plain == XorBlocks(state, Iv)
     IN  /\ page_buffer' = [n \in DOMAIN page_buffer |->
                              IF n \div AES_BLOCKLEN = block THEN plain[n % AES_BLOCKLEN]
                                                             ELSE page_buffer[n]]
         /\ Iv' = NextIv(plain, CipherBlock)
  /\ block' = block + 1
  /\ pc' = IF (block + 1) * AES_BLOCKLEN = NAND_PAGE_SIZE THEN "copy" ELSE "decrypt"
  /\ UNCHANGED <<files, RoundKey, state, hash, round>>

CopyPage ==
  /\ pc = "copy"
  /\ boot1_buffer' = Append(boot1_buffer, page_buffer)
  /\ block' = 0
  /\ pc' = "update"
  /\ UNCHANGED <<dump, position, page_buffer, aes, hash, round>>

(* SHA1_Update with nothing in its buffer and a page of whole blocks: each  *)
(* is transformed once, in order.                                           *)
MessageBlock == blk0(Part(page_buffer, SHA_BLOCK, block))

StartTransform ==
  /\ pc = "update"
  /\ workspace' = MessageBlock
  /\ working' = sha
  /\ standard' = StandardStart(sha)
  /\ round' = 0
  /\ pc' = "transform"
  /\ UNCHANGED <<files, page_buffer, aes, sha, block>>

TransformRound ==
  /\ pc = "transform" /\ round < 80
  /\ LET block16 == Expanded(workspace, round)
     IN  /\ workspace' = block16
         /\ working' = Round(working, round, block16[round % 16])
  /\ standard' = StandardRound(MessageBlock, standard, round)
  /\ round' = round + 1
  /\ UNCHANGED <<pc, files, page_buffer, aes, sha, block>>

FinishTransform ==
  /\ pc = "transform" /\ round = 80
  /\ sha' = AddState(sha, working)
  /\ block' = block + 1
  /\ pc' = CASE (block + 1) * SHA_BLOCK < NAND_PAGE_SIZE -> "update"
             [] (block + 1) * SHA_BLOCK = NAND_PAGE_SIZE ->
                  IF Len(boot1_buffer) < BOOT1_PAGE_SIZE THEN "read" ELSE "save"
  /\ UNCHANGED <<files, page_buffer, aes, working, workspace, standard, round>>

(* The hash is printed and boot1 written out.                               *)
Save ==
  /\ pc = "save"
  /\ pc' = "done"
  /\ UNCHANGED <<files, page_buffer, aes, hash, block, round>>

Next ==
  \/ OpenFails \/ Open \/ ExpandWord
  \/ ReadPage \/ StartBlock \/ DecryptRound \/ FinishBlock \/ CopyPage
  \/ StartTransform \/ TransformRound \/ FinishTransform \/ Save

Spec == Init /\ [][Next]_vars

-----------------------------------------------------------------------------
Places ==
  {"open", "failed", "expand", "read", "decrypt", "rounds", "copy",
   "update", "transform", "save", "done"}

FiveWords == [0..4 -> Word]
Standard  == [W : Seq(Word), vars : Word \X Word \X Word \X Word \X Word]

(* The types, with the round keys as far as they are expanded and the       *)
(* standard's schedule as long as the rounds done.                          *)
TypeOK ==
  /\ dump \in Dumps /\ pc \in Places
  /\ position \in 0..Len(dump.bytes)
  /\ page_buffer \in Bytes(NAND_PAGE_SIZE)
  /\ boot1_buffer \in Seq(Bytes(NAND_PAGE_SIZE)) /\ Len(boot1_buffer) <= BOOT1_PAGE_SIZE
  /\ RoundKey \in Seq(KeyWord)
  /\ pc = "expand" => Len(RoundKey) = round /\ round \in Nk..(KeyWords - 1)
  /\ pc \notin {"open", "failed", "expand"} => Len(RoundKey) = KeyWords
  /\ Iv \in Bytes(AES_BLOCKLEN) /\ state \in Bytes(AES_BLOCKLEN)
  /\ sha \in FiveWords /\ working \in FiveWords /\ workspace \in [0..15 -> Word]
  /\ standard \in Standard
  /\ pc = "transform" => Len(standard.W) = round /\ round \in 0..80
  /\ pc = "rounds" => round \in -1..(Nr - 1)
  /\ pc \in {"decrypt", "rounds"} => block \in AesBlocks
  /\ pc \in {"update", "transform"} => block \in ShaBlocks

(* What InvCipher does before its loop and in each turn of it, Cipher does  *)
(* backwards under the same round key: the tables are inverse, the rows go  *)
(* back by as much, the columns are unmixed and the order is the opposite.  *)
RoundsUndone ==
  [][/\ StartBlock   => CipherBlock = MixAndAdd(Nr, state', RoundKey)
     /\ DecryptRound => state = SubstituteAndShift(MixAndAdd(round, state', RoundKey))]_vars

(* After any number of rounds, the variables under the names of the next    *)
(* round are those of the standard, and the sixteen words are the last      *)
(* sixteen of its schedule.                                                 *)
RoundsFollowStandard ==
  pc = "transform" =>
    /\ \A k \in 0..4 : working[Named(k, round)] = standard.vars[k + 1]
    /\ \A t \in DOMAIN standard.W :
         t > Len(standard.W) - 16 => workspace[(t - 1) % 16] = standard.W[t]

(* The pages that the file holds whole come out as the pages it is a dump   *)
(* of, CBC going on from page to page, whatever is missing behind them.     *)
WholePagesRight ==
  \A p \in DOMAIN boot1_buffer : IsWhole(dump, p) => boot1_buffer[p] = dump.pages[p]

(* After each of those pages the state is the hash of the pages so far.     *)
HashRight ==
  LET p == Len(boot1_buffer)
  IN  pc \in {"read", "save", "done"} /\ p > 0 /\ IsWhole(dump, p)
        => sha = dump.hashes[p][LastShaBlock]

=============================================================================
