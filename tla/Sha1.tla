--------------------------------- MODULE Sha1 ---------------------------------
(***************************************************************************)
(* The context of util_sha1.c and what SHA1_Update makes of it: whole       *)
(* blocks are folded into the state, the bytes left over wait in a buffer,  *)
(* and two words count what went in.  The eighty rounds are a constant, any *)
(* function of a state and a block.                                         *)
(*                                                                          *)
(* The code counts bits in two 32-bit words.  All counts are of whole bytes,*)
(* so low counts bytes up to 2^29 here.                                     *)
(***************************************************************************)
EXTENDS Integers, Sequences

CONSTANTS
  BLOCK,        \* 64, the bytes of a block
  LOW_LIMIT,    \* 2^29, the bytes that count[0] can tell apart
  HIGH_LIMIT,   \* 2^32, the values of count[1]
  WORD_LIMIT,   \* 2^32, the values of a word of the state
  Byte,
  Rounds        \* Rounds[<<state, block>>]: the working variables a to e

State  == [0..4 -> 0..(WORD_LIMIT - 1)]
Blocks == [1..BLOCK -> Byte]

ASSUME Sha1Assumption ==
  /\ BLOCK \in Nat \ {0} /\ HIGH_LIMIT \in Nat \ {0} /\ WORD_LIMIT \in Nat \ {0}
  /\ LOW_LIMIT \in Nat \ {0} /\ \E q \in 1..LOW_LIMIT : LOW_LIMIT = q * BLOCK
  /\ 0 \in Byte
  /\ Rounds \in [State \X Blocks -> State]

Context == [state : State, buffer : Blocks,
            low : 0..(LOW_LIMIT - 1), high : 0..(HIGH_LIMIT - 1)]

(* What memset leaves.                                                      *)
ZeroContext == [state |-> [i \in 0..4 |-> 0], buffer |-> [i \in 1..BLOCK |-> 0],
                low |-> 0, high |-> 0]

(* The rounds work on a copy, which is then added to the state.             *)
SHA1_Transform(state, block) ==
  [i \in 0..4 |-> (state[i] + Rounds[<<state, block>>][i]) % WORD_LIMIT]

(* The bytes not yet hashed once data has come in, cut into blocks.         *)
Position(ctx)      == ctx.low % BLOCK
Pending(ctx, data) == SubSeq(ctx.buffer, 1, Position(ctx)) \o data
WholeBlocks(ctx, data) == Len(Pending(ctx, data)) \div BLOCK

(* The slip begins the loop over the later blocks at the start of the data. *)
BlockOfRestarted(ctx, data, k) ==
  IF k = 1 THEN SubSeq(Pending(ctx, data), 1, BLOCK)
  ELSE SubSeq(data, (k - 2) * BLOCK + 1, (k - 1) * BLOCK)

BlockOf(ctx, data, k) == SubSeq(Pending(ctx, data), (k - 1) * BLOCK + 1, k * BLOCK)

Rest(ctx, data) ==
  SubSeq(Pending(ctx, data), WholeBlocks(ctx, data) * BLOCK + 1, Len(Pending(ctx, data)))

(* The first block is put together in the buffer, the later ones are hashed *)
(* where they are, and the rest is copied over the start of the buffer.     *)
NextBuffer(ctx, data) ==
  LET old  == IF WholeBlocks(ctx, data) = 0 THEN ctx.buffer ELSE BlockOf(ctx, data, 1)
      rest == Rest(ctx, data)
  IN  [i \in 1..BLOCK |-> IF i <= Len(rest) THEN rest[i] ELSE old[i]]

(* The sum in the low word, and the carry found by comparing it with what   *)
(* was added; the slips count wider than the word and lose the carry.       *)
NextLowWide(ctx, n) == ctx.low + n

NextLow(ctx, n) == (ctx.low + n) % LOW_LIMIT

NextHighCarryLost(ctx, n) == (ctx.high + n \div LOW_LIMIT) % HIGH_LIMIT

NextHigh(ctx, n) ==
  LET carry == IF NextLow(ctx, n) < n THEN 1 ELSE 0
  IN  (ctx.high + carry + n \div LOW_LIMIT) % HIGH_LIMIT

(* A sequence of states, one for each block of the data.                    *)
IsChain(chain, ctx, data) ==
  \A k \in DOMAIN chain :
    chain[k] = SHA1_Transform(IF k = 1 THEN ctx.state ELSE chain[k - 1],
                              BlockOf(ctx, data, k))

SHA1_Update(ctx, data, chain) ==
  [state  |-> IF chain = <<>> THEN ctx.state ELSE chain[Len(chain)],
   buffer |-> NextBuffer(ctx, data),
   low    |-> NextLow(ctx, Len(data)),
   high   |-> NextHigh(ctx, Len(data))]

=============================================================================
