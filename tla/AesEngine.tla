------------------------------- MODULE AesEngine -------------------------------
(***************************************************************************)
(* The AES engine (interface_aes.c) on top of the CBC mode of util_aes.c:   *)
(* the key and IV FIFOs, the flags, the source and destination pointers     *)
(* and a memory the engine reads and writes.                                *)
(*                                                                          *)
(* A block is four words, and the block cipher itself is a constant: any    *)
(* two families of functions that undo each other.  Addresses and lengths   *)
(* count blocks.  A write to a register is one callback, and a command is   *)
(* finished before the callback returns.                                    *)
(***************************************************************************)
EXTENDS Integers, Sequences

CONSTANTS
  WordBits,          \* the bits of a word of a block
  MEM_BLOCKS,        \* the engine reaches addresses 0..MEM_BLOCKS-1
  ADDRESS_LIMIT,     \* 2^32 bytes, in blocks: the pointers are unsigned
  MAX_BLOCKS,        \* the longest command, 2^12 blocks
  Cipher, InvCipher, \* Cipher[schedule][block]
  InitialMemory,
  Written            \* the words and addresses the guest writes, by register

AesWord == SUBSET WordBits
Block   == [0..3 -> AesWord]

ZeroBlock == [i \in 0..3 |-> {}]

Xor(b, c) == [i \in 0..3 |-> (b[i] \ c[i]) \cup (c[i] \ b[i])]

(* The round keys in a context: those of some key, or the zeroes of a       *)
(* context that was never set up, which are the round keys of no key.       *)
KeyExpansion(key) == <<key>>
NoSchedule        == <<>>
Schedule          == {KeyExpansion(k) : k \in Block} \cup {NoSchedule}

Address == 0..(ADDRESS_LIMIT - 1)
Memory  == [0..(MEM_BLOCKS - 1) -> Block]

(* The bits of AES_CTRL: start is bit 31, encryption 28, decrypt 27, chain  *)
(* 12, and blocks is one more than the low twelve.                          *)
Control == [start : BOOLEAN, encryption : BOOLEAN, decrypt : BOOLEAN,
            chain : BOOLEAN, blocks : 1..MAX_BLOCKS]

ASSUME AesAssumption ==
  /\ MAX_BLOCKS \in Nat \ {0}
  /\ MEM_BLOCKS \in Nat /\ ADDRESS_LIMIT \in Nat /\ MEM_BLOCKS <= ADDRESS_LIMIT
  /\ ADDRESS_LIMIT > 0
  /\ Cipher \in [Schedule -> [Block -> Block]]
  /\ InvCipher \in [Schedule -> [Block -> Block]]
  /\ \A s \in Schedule, b \in Block : InvCipher[s][Cipher[s][b]] = b
  /\ InitialMemory \in Memory
  /\ Written["AES_CTRL"] \subseteq Control
  /\ Written["AES_KEY"] \subseteq AesWord /\ Written["AES_IV"] \subseteq AesWord
  /\ Written["AES_SRC"] \subseteq Address /\ Written["AES_DEST"] \subseteq Address

VARIABLES
  AES_key_buffer, AES_iv_buffer,
  AES_key_fifo_state, AES_iv_fifo_state,
  AES_enable_encryption, AES_should_decrypt,
  AES_src_address, AES_dest_address,
  AES_context,       \* RoundKey and Iv
  memory,
  running            \* FALSE once a copy went outside of memory

keyFifo == <<AES_key_buffer, AES_key_fifo_state>>
ivFifo  == <<AES_iv_buffer, AES_iv_fifo_state>>
flags   == <<AES_enable_encryption, AES_should_decrypt>>
engine  == <<keyFifo, ivFifo, flags, AES_src_address, AES_dest_address,
             AES_context, memory, running>>

Init ==
  /\ AES_key_buffer = ZeroBlock /\ AES_key_fifo_state = 0
  /\ AES_iv_buffer = ZeroBlock  /\ AES_iv_fifo_state = 0
  /\ AES_enable_encryption = TRUE
  /\ AES_should_decrypt = FALSE
  /\ AES_src_address = 0 /\ AES_dest_address = 0
  /\ AES_context = [RoundKey |-> NoSchedule, Iv |-> ZeroBlock]
  /\ memory = InitialMemory
  /\ running = TRUE

-----------------------------------------------------------------------------
(* The CBC loops of util_aes.c, as what each block of the result is.        *)
Before(seq, iv, j) == IF j = 1 THEN iv ELSE seq[j - 1]

CBC_encrypt(ctx, in, out) ==
  \A j \in DOMAIN in :
    out[j] = Cipher[ctx.RoundKey][Xor(in[j], Before(out, ctx.Iv, j))]

CBC_decrypt(ctx, in, out) ==
  \A j \in DOMAIN in :
    out[j] = Xor(InvCipher[ctx.RoundKey][in[j]], Before(in, ctx.Iv, j))

Blocks(base, n) == base..(base + n - 1)
InMemory(base, n) == Blocks(base, n) \subseteq 0..(MEM_BLOCKS - 1)

(* The CBC value that a command leaves for the next: its last block of      *)
(* ciphertext.  The slip takes the last block of plaintext.                 *)
NextIvPlain(c, ctx, in, out) ==
  CASE ~c.encryption -> ctx.Iv
    [] c.encryption /\ c.decrypt  -> out[c.blocks]
    [] c.encryption /\ ~c.decrypt -> in[c.blocks]

NextIv(c, ctx, in, out) ==
  CASE ~c.encryption -> ctx.Iv
    [] c.encryption /\ c.decrypt  -> in[c.blocks]
    [] c.encryption /\ ~c.decrypt -> out[c.blocks]

(* A command on a context; the data goes through a buffer of its own, so    *)
(* the result may overlap the source.                                       *)
Crypts(c, ctx, in, out) ==
  /\ AES_context' = [ctx EXCEPT !.Iv = NextIv(c, ctx, in, out)]
  /\ CASE ~c.encryption -> out = in
       [] c.encryption /\ c.decrypt  -> CBC_decrypt(ctx, in, out)
       [] c.encryption /\ ~c.decrypt -> CBC_encrypt(ctx, in, out)
  /\ memory' = [a \in 0..(MEM_BLOCKS - 1) |->
                  IF a \in Blocks(AES_dest_address, c.blocks)
                  THEN out[a - AES_dest_address + 1] ELSE memory[a]]

SourceBlocks(n) == [j \in 1..n |-> memory[AES_src_address + j - 1]]

StartContext(c) ==
  IF c.chain THEN AES_context
  ELSE [RoundKey |-> KeyExpansion(AES_key_buffer), Iv |-> AES_iv_buffer]

(* A pointer after a command, an unsigned word; the slip has it wider.      *)
AdvancedWide(address, n) == address + n
Advanced(address, n)     == (address + n) % ADDRESS_LIMIT

StartCommand(c) ==
  /\ running /\ c.start
  /\ InMemory(AES_src_address, c.blocks) /\ InMemory(AES_dest_address, c.blocks)
  /\ AES_enable_encryption' = c.encryption
  /\ AES_should_decrypt' = c.decrypt
  /\ \E out \in [1..c.blocks -> Block] :
       Crypts(c, StartContext(c), SourceBlocks(c.blocks), out)
  /\ AES_src_address' = Advanced(AES_src_address, c.blocks)
  /\ AES_dest_address' = Advanced(AES_dest_address, c.blocks)
  /\ UNCHANGED <<keyFifo, ivFifo, running>>

(* Nothing checks that the blocks are in memory.  What copies outside of it *)
(* do to the process is undefined; here it ends.                            *)
StartOutside(c) ==
  /\ running /\ c.start
  /\ ~(InMemory(AES_src_address, c.blocks) /\ InMemory(AES_dest_address, c.blocks))
  /\ running' = FALSE
  /\ AES_enable_encryption' = c.encryption
  /\ AES_should_decrypt' = c.decrypt
  /\ AES_context' = StartContext(c)
  /\ UNCHANGED <<keyFifo, ivFifo, AES_src_address, AES_dest_address, memory>>

(* A reset empties both FIFOs; the slip leaves them at their positions.     *)
ClearBuffers ==
  /\ AES_key_buffer' = ZeroBlock /\ AES_iv_buffer' = ZeroBlock
  /\ UNCHANGED <<AES_key_fifo_state, AES_iv_fifo_state>>

ClearFifos ==
  /\ AES_key_buffer' = ZeroBlock /\ AES_key_fifo_state' = 0
  /\ AES_iv_buffer' = ZeroBlock  /\ AES_iv_fifo_state' = 0

(* Without the start bit a write to AES_CTRL is a reset.  The pointers keep *)
(* their values, and the flags still take theirs.                           *)
Reset(c) ==
  /\ running /\ ~c.start
  /\ AES_enable_encryption' = c.encryption
  /\ AES_should_decrypt' = c.decrypt
  /\ ClearFifos
  /\ AES_context' = [RoundKey |-> NoSchedule, Iv |-> ZeroBlock]
  /\ UNCHANGED <<AES_src_address, AES_dest_address, memory, running>>

(* The position after a word.                                               *)
NextPosition(state) == (state + 1) % 4

WriteKEY(word) ==
  /\ running
  /\ AES_key_buffer' = [AES_key_buffer EXCEPT ![AES_key_fifo_state] = word]
  /\ AES_key_fifo_state' = NextPosition(AES_key_fifo_state)
  /\ UNCHANGED <<ivFifo, flags, AES_src_address, AES_dest_address,
                 AES_context, memory, running>>

WriteIV(word) ==
  /\ running
  /\ AES_iv_buffer' = [AES_iv_buffer EXCEPT ![AES_iv_fifo_state] = word]
  /\ AES_iv_fifo_state' = NextPosition(AES_iv_fifo_state)
  /\ UNCHANGED <<keyFifo, flags, AES_src_address, AES_dest_address,
                 AES_context, memory, running>>

WriteSRC(address) ==
  /\ running
  /\ AES_src_address' = address
  /\ UNCHANGED <<keyFifo, ivFifo, flags, AES_dest_address, AES_context, memory, running>>

WriteDEST(address) ==
  /\ running
  /\ AES_dest_address' = address
  /\ UNCHANGED <<keyFifo, ivFifo, flags, AES_src_address, AES_context, memory, running>>

Next ==
  \/ \E c \in Written["AES_CTRL"] : StartCommand(c) \/ StartOutside(c) \/ Reset(c)
  \/ \E w \in Written["AES_KEY"]  : WriteKEY(w)
  \/ \E w \in Written["AES_IV"]   : WriteIV(w)
  \/ \E a \in Written["AES_SRC"]  : WriteSRC(a)
  \/ \E a \in Written["AES_DEST"] : WriteDEST(a)

Spec == Init /\ [][Next]_engine

-----------------------------------------------------------------------------
(* The types, with a context only ever keyed from a whole key FIFO.          *)
TypeOK ==
  /\ AES_key_buffer \in Block /\ AES_key_fifo_state \in 0..3
  /\ AES_iv_buffer \in Block  /\ AES_iv_fifo_state \in 0..3
  /\ AES_enable_encryption \in BOOLEAN /\ AES_should_decrypt \in BOOLEAN
  /\ AES_src_address \in Address /\ AES_dest_address \in Address
  /\ AES_context \in [RoundKey : Schedule, Iv : Block]
  /\ memory \in Memory
  /\ running \in BOOLEAN

=============================================================================
