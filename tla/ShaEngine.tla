------------------------------- MODULE ShaEngine -------------------------------
(***************************************************************************)
(* The SHA engine (interface_sha.c) on the SHA-1 context of util_sha1.c.    *)
(* The guest sets a source pointer and the five words of the state, and     *)
(* has the engine hash a number of blocks from the pointer on; a command is *)
(* finished before the write to SHA_CTRL returns.                           *)
(*                                                                          *)
(* began and done are a history: the state the stream of blocks in progress *)
(* started from, and each block hashed since, with the state after it.      *)
(* hashed counts the blocks since the last reset.                           *)
(***************************************************************************)
EXTENDS Sha1

CONSTANTS
  MemoryBytes,       \* what the engine reads, by address
  ADDRESS_LIMIT,     \* 2^32: the pointer is unsigned
  MAX_BLOCKS,        \* 2^9, the longest command
  Written,           \* the words the guest writes, by register
  MAX_STREAM,        \* bound on the blocks of a stream
  MAX_HASHED         \* bound on the blocks between two resets

Address == 0..(ADDRESS_LIMIT - 1)

(* The bits of SHA_CTRL: start is bit 31, blocks one more than the low nine.*)
Control == [start : BOOLEAN, blocks : 1..MAX_BLOCKS]

ASSUME ShaAssumption ==
  /\ ADDRESS_LIMIT \in Nat \ {0} /\ MAX_BLOCKS \in Nat \ {0}
  /\ MAX_BLOCKS * BLOCK < LOW_LIMIT
  /\ DOMAIN MemoryBytes \subseteq Address
  /\ \A a \in DOMAIN MemoryBytes : MemoryBytes[a] \in Byte
  /\ Written["SHA_CTRL"] \subseteq Control
  /\ Written["SHA_SRC"] \subseteq Address
  /\ Written["SHA_H"] \subseteq (0..4) \X (0..(WORD_LIMIT - 1))
  /\ MAX_STREAM \in Nat /\ MAX_HASHED \in Nat

VARIABLES
  SHA_src_address, SHA1_context,
  running,           \* FALSE once a copy went outside of memory
  began, done, hashed

engine == <<SHA_src_address, SHA1_context, running>>
vars   == <<engine, began, done, hashed>>

NewStream(state) == began' = state /\ done' = <<>>

Init ==
  /\ SHA_src_address = 0
  /\ SHA1_context = ZeroContext
  /\ running = TRUE
  /\ began = ZeroContext.state /\ done = <<>> /\ hashed = 0

Source(n) == SHA_src_address..(SHA_src_address + n - 1)

(* The copy that is hashed; SHA1_Update never sees guest memory itself.     *)
TempBuf(n) == [i \in 1..n |-> MemoryBytes[SHA_src_address + i - 1]]

Advanced(address, n) == (address + n) % ADDRESS_LIMIT

(* The blocks of a command in the history, by their addresses.              *)
DoneBlocks(chain) ==
  [k \in DOMAIN chain |-> [at |-> SHA_src_address + (k - 1) * BLOCK,
                           after |-> chain[k]]]

Hash(c) ==
  LET shasize == c.blocks * BLOCK IN
  /\ running /\ c.start
  /\ Source(shasize) \subseteq DOMAIN MemoryBytes
  /\ Len(done) + c.blocks <= MAX_STREAM /\ hashed + c.blocks <= MAX_HASHED
  /\ \E chain \in [1..WholeBlocks(SHA1_context, TempBuf(shasize)) -> State] :
       /\ IsChain(chain, SHA1_context, TempBuf(shasize))
       /\ SHA1_context' = SHA1_Update(SHA1_context, TempBuf(shasize), chain)
       /\ done' = done \o DoneBlocks(chain)
  /\ SHA_src_address' = Advanced(SHA_src_address, shasize)
  /\ hashed' = hashed + c.blocks
  /\ UNCHANGED <<running, began>>

(* Nothing checks that the blocks are in memory.  What a copy from outside  *)
(* of it does to the process is undefined; here it ends.                    *)
HashOutside(c) ==
  /\ running /\ c.start
  /\ ~(Source(c.blocks * BLOCK) \subseteq DOMAIN MemoryBytes)
  /\ running' = FALSE
  /\ UNCHANGED <<SHA_src_address, SHA1_context, began, done, hashed>>

(* Without the start bit a write to SHA_CTRL clears the context; the pointer*)
(* stays.                                                                   *)
Reset(c) ==
  /\ running /\ ~c.start
  /\ SHA1_context' = ZeroContext
  /\ NewStream(ZeroContext.state)
  /\ hashed' = 0
  /\ UNCHANGED <<SHA_src_address, running>>

WriteSRC(address) ==
  /\ running
  /\ SHA_src_address' = address
  /\ UNCHANGED <<SHA1_context, running, began, done, hashed>>

(* A word of the state, at any time: software sets the initial state so,    *)
(* and goes on with a hash it had put aside.                                *)
WriteH(i, word) ==
  /\ running
  /\ SHA1_context' = [SHA1_context EXCEPT !.state[i] = word]
  /\ NewStream([SHA1_context.state EXCEPT ![i] = word])
  /\ UNCHANGED <<SHA_src_address, running, hashed>>

Next ==
  \/ \E c \in Written["SHA_CTRL"] : Hash(c) \/ HashOutside(c) \/ Reset(c)
  \/ \E a \in Written["SHA_SRC"]  : WriteSRC(a)
  \/ \E h \in Written["SHA_H"]    : WriteH(h[1], h[2])

Spec == Init /\ [][Next]_vars

-----------------------------------------------------------------------------
(* The types, with the words of the counter and of the state in their width.*)
TypeOK ==
  /\ SHA_src_address \in Address
  /\ SHA1_context \in Context
  /\ running \in BOOLEAN
  /\ began \in State
  /\ done \in Seq([at : Address, after : State])
  /\ hashed \in Nat

BlockAt(a) == [i \in 1..BLOCK |-> MemoryBytes[a + i - 1]]

Before(k) == IF k = 1 THEN began ELSE done[k - 1].after

(* However a message is cut into commands, wherever each is read from, and  *)
(* whatever was hashed before the state was last written, the state is the  *)
(* one that SHA-1 gives for the blocks since then, in order: each taken     *)
(* once, whole, none of it from an earlier message (SHA_WriteRegister and   *)
(* the buffering of SHA1_Update).                                           *)
StateIsHash ==
  /\ \A k \in DOMAIN done :
       done[k].after = SHA1_Transform(Before(k), BlockAt(done[k].at))
  /\ SHA1_context.state = Before(Len(done) + 1)

(* The two words of the context's counter are the bytes hashed since the    *)
(* reset, the carry between them included, and no write of the state        *)
(* disturbs them (count in SHA1_Update, memset in SHA_WriteRegister).  A    *)
(* counter that a reset left behind would go into the length of the next    *)
(* message.                                                                 *)
CountIsBytes ==
  SHA1_context.low + LOW_LIMIT * SHA1_context.high =
    (hashed * BLOCK) % (LOW_LIMIT * HIGH_LIMIT)

=============================================================================
