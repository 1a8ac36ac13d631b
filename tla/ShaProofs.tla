-------------------------------- MODULE ShaProofs --------------------------------
(***************************************************************************)
(* That the SHA engine's state is the hash of the blocks since the state    *)
(* was last written, and that its counter is right, for any rounds, block   *)
(* size and word widths.                                                    *)
(*                                                                          *)
(* Both rest on one fact: every command is of whole blocks, so the counter  *)
(* is a multiple of the block size and nothing waits in the buffer.         *)
(***************************************************************************)
EXTENDS ShaEngine, SequenceTheorems, TLAPS

(* The counter is at a block boundary.                                      *)
Aligned == \E a \in Nat : SHA1_context.low = a * BLOCK

(* CountIsBytes with the quotient of its remainder named.                   *)
Counted ==
  \E q \in Nat : hashed * BLOCK = (LOW_LIMIT * HIGH_LIMIT) * q
                                    + (SHA1_context.low + LOW_LIMIT * SHA1_context.high)

IInv == TypeOK /\ Aligned /\ Counted /\ StateIsHash

-----------------------------------------------------------------------------
(* Arithmetic of the counter.                                               *)
LEMMA RemainderOf ==
  ASSUME NEW p \in Nat \ {0}, NEW q \in Nat, NEW r \in 0..(p - 1)
  PROVE  (p * q + r) % p = r
  OBVIOUS

LEMMA WholeQuotient ==
  ASSUME NEW p \in Nat \ {0}, NEW x \in Nat
  PROVE  (x * p) \div p = x /\ (x * p) % p = 0
  OBVIOUS

LEMMA SmallRemainder ==
  ASSUME NEW p \in Nat \ {0}, NEW x \in 0..(p - 1)
  PROVE  x % p = x /\ x \div p = 0
  OBVIOUS

LEMMA WrappedRemainder ==
  ASSUME NEW p \in Nat \ {0}, NEW x \in 0..(p - 1), NEW y \in 0..(p - 1), p <= x + y
  PROVE  (x + y) % p = x + y - p
  OBVIOUS

LEMMA AddCounts ==
  ASSUME NEW x \in Int, NEW y \in Int, NEW size \in Int, NEW all \in Int,
         NEW low \in Int, NEW high \in Int, NEW low2 \in Int, NEW high2 \in Int,
         all = x + (low + high), low + high + size = y + low2 + high2
  PROVE  all + size = (x + y) + (low2 + high2)
  OBVIOUS

(* Two digits are less than the product of their limits.                    *)
LEMMA TwoDigits ==
  ASSUME NEW l \in Nat \ {0}, NEW h \in Nat \ {0},
         NEW low \in 0..(l - 1), NEW high \in 0..(h - 1)
  PROVE  low + l * high \in 0..(l * h - 1) /\ l * h \in Nat \ {0}
<1>1. l * high <= l * (h - 1)
  OBVIOUS
<1>2. l * (h - 1) = l * h - l
  OBVIOUS
<1>3. l * high \in Nat /\ l * h \in Nat
  OBVIOUS
<1>4. QED  BY <1>1, <1>2, <1>3

(* The counter after n bytes, fewer than the low word counts: n more than   *)
(* before, or all the way around (SHA1_Update).                             *)
LEMMA CounterAdds ==
  ASSUME NEW ctx \in Context, NEW n \in 1..(LOW_LIMIT - 1)
  PROVE  /\ NextLow(ctx, n) \in 0..(LOW_LIMIT - 1)
         /\ NextHigh(ctx, n) \in 0..(HIGH_LIMIT - 1)
         /\ NextLow(ctx, n) \in {ctx.low + n, ctx.low + n - LOW_LIMIT}
         /\ \E w \in {0, 1} :
              ctx.low + LOW_LIMIT * ctx.high + n =
                (LOW_LIMIT * HIGH_LIMIT) * w + NextLow(ctx, n) + LOW_LIMIT * NextHigh(ctx, n)
<1> DEFINE L == LOW_LIMIT
           H == HIGH_LIMIT
           low == ctx.low
           high == ctx.high
<1>1. L \in Nat \ {0} /\ H \in Nat \ {0} /\ low \in 0..(L - 1) /\ high \in 0..(H - 1)
  BY Sha1Assumption DEF Context
<1>2. n \in 0..(L - 1) /\ n \div L = 0
  <2>1. n \in 0..(L - 1)
    BY <1>1
  <2> HIDE DEF L
  <2>2. QED  BY <1>1, <2>1, SmallRemainder
<1>3. NextLow(ctx, n) = (low + n) % L
  BY DEF NextLow
<1>4. NextHigh(ctx, n) = (high + (IF NextLow(ctx, n) < n THEN 1 ELSE 0) + n \div L) % H
  BY DEF NextHigh
<1> HIDE DEF L, H, low, high
<1>5. CASE low + n < L
  <2>1. NextLow(ctx, n) = low + n /\ ~(low + n < n)
    <3>1. low + n \in 0..(L - 1)
      BY <1>1, <1>2, <1>5
    <3>2. QED  BY <1>1, <1>2, <1>3, <3>1, SmallRemainder
  <2>2. NextHigh(ctx, n) = high
    <3>1. NextHigh(ctx, n) = high % H
      BY <1>1, <1>2, <1>4, <2>1
    <3>2. QED  BY <1>1, <3>1, SmallRemainder
  <2>3. low + L * high + n = (L * H) * 0 + NextLow(ctx, n) + L * NextHigh(ctx, n)
    <3>1. L * high \in Int /\ (L * H) * 0 = 0
      BY <1>1
    <3>2. QED  BY <1>1, <1>2, <2>1, <2>2, <3>1
  <2>4. QED  BY <1>1, <1>2, <1>5, <2>1, <2>2, <2>3 DEF L, H, low, high
<1>6. CASE L <= low + n
  <2>1. NextLow(ctx, n) = low + n - L /\ low + n - L < n
    <3>1. (low + n) % L = low + n - L
      BY <1>1, <1>2, <1>6, WrappedRemainder
    <3>2. QED  BY <1>1, <1>2, <1>3, <3>1
  <2>2. NextHigh(ctx, n) = (high + 1) % H
    BY <1>1, <1>2, <1>4, <2>1
  <2>3. CASE high + 1 < H
    <3>1. NextHigh(ctx, n) = high + 1
      <4>1. high + 1 \in 0..(H - 1)
        BY <1>1, <2>3
      <4>2. QED  BY <1>1, <2>2, <4>1, SmallRemainder
    <3>2. L * (high + 1) = L * high + L /\ L * high \in Int /\ (L * H) * 0 = 0
      BY <1>1
    <3>3. low + L * high + n = (L * H) * 0 + NextLow(ctx, n) + L * NextHigh(ctx, n)
      BY <1>1, <1>2, <2>1, <3>1, <3>2
    <3>4. QED  BY <1>1, <1>2, <1>6, <2>1, <2>3, <3>1, <3>3 DEF L, H, low, high
  <2>4. CASE high + 1 = H
    <3>1. NextHigh(ctx, n) = 0
      <4>1. (1 * H) % H = 0 /\ 1 * H = H
        BY <1>1, WholeQuotient
      <4>2. QED  BY <2>2, <2>4, <4>1
    <3>2. L * H = L * high + L /\ L * high \in Int /\ L * 0 = 0
      BY <1>1, <2>4
    <3>3. low + L * high + n = (L * H) * 1 + NextLow(ctx, n) + L * NextHigh(ctx, n)
      BY <1>1, <1>2, <2>1, <3>1, <3>2
    <3>4. QED  BY <1>1, <1>2, <1>6, <2>1, <3>1, <3>3 DEF L, H, low, high
  <2>5. QED  BY <1>1, <2>3, <2>4
<1>7. QED  BY <1>1, <1>2, <1>5, <1>6

-----------------------------------------------------------------------------
(* With the counter at a block boundary, a command's data is cut into its   *)
(* own blocks, and no byte of it is kept back (SHA1_Update).                *)
LEMMA WholeCommand ==
  ASSUME NEW ctx \in Context, NEW a \in Nat, ctx.low = a * BLOCK,
         NEW n \in Nat \ {0}, NEW data \in [1..(n * BLOCK) -> Byte]
  PROVE  /\ Len(data) = n * BLOCK
         /\ WholeBlocks(ctx, data) = n
         /\ \A k \in 1..n :
              BlockOf(ctx, data, k) = [i \in 1..BLOCK |-> data[(k - 1) * BLOCK + i]]
         /\ NextBuffer(ctx, data) \in Blocks
<1>1. BLOCK \in Nat \ {0} /\ n * BLOCK \in Nat
  BY Sha1Assumption
<1>2. data \in Seq(Byte) /\ Len(data) = n * BLOCK
  <2>1. \E m \in Nat : data \in [1..m -> Byte]
    BY <1>1
  <2>2. data \in Seq(Byte)
    BY <2>1, SeqDef
  <2>3. DOMAIN data = 1..(n * BLOCK) /\ DOMAIN data = 1..Len(data) /\ Len(data) \in Nat
    BY <2>2
  <2>4. QED  BY <1>1, <2>2, <2>3
<1>3. Pending(ctx, data) = data
  <2>1. Position(ctx) = 0
    BY <1>1, WholeQuotient DEF Position
  <2>2. SubSeq(ctx.buffer, 1, 0) = <<>>
    OBVIOUS
  <2>3. QED  BY <1>2, <2>1, <2>2, ConcatEmptySeq DEF Pending
<1>4. WholeBlocks(ctx, data) = n
  BY <1>1, <1>2, <1>3, WholeQuotient DEF WholeBlocks
<1>5. ASSUME NEW k \in 1..n
      PROVE  BlockOf(ctx, data, k) = [i \in 1..BLOCK |-> data[(k - 1) * BLOCK + i]]
  <2> DEFINE s == (k - 1) * BLOCK
  <2>1. s \in Nat /\ k * BLOCK = s + BLOCK
    BY <1>1
  <2>2. BlockOf(ctx, data, k) = SubSeq(data, s + 1, s + BLOCK)
    BY <1>3, <2>1 DEF BlockOf
  <2>3. k * BLOCK <= n * BLOCK
    BY <1>1
  <2> HIDE DEF s
  <2>4. \A i \in (s + 1)..(s + BLOCK) : data[i] \in Byte
    BY <1>1, <2>1, <2>3
  <2> DEFINE b == SubSeq(data, s + 1, s + BLOCK)
  <2>5. /\ b \in Seq(Byte)
        /\ Len(b) = (s + BLOCK) - (s + 1) + 1
        /\ \A i \in 1..((s + BLOCK) - (s + 1) + 1) : b[i] = data[(s + 1) + i - 1]
    <3>1. s + 1 \in Int /\ s + BLOCK \in Int /\ s + 1 <= s + BLOCK
      BY <1>1, <2>1
    <3>2. QED  BY <2>4, <3>1, SubSeqProperties
  <2> HIDE DEF b
  <2>6. (s + BLOCK) - (s + 1) + 1 = BLOCK /\ \A i \in 1..BLOCK : (s + 1) + i - 1 = s + i
    BY <1>1, <2>1
  <2>7. Len(b) = BLOCK /\ \A i \in 1..BLOCK : b[i] = data[s + i]
    BY <2>5, <2>6
  <2>8. b = [i \in 1..BLOCK |-> data[s + i]]
    BY <2>5, <2>7
  <2>9. QED  BY <2>2, <2>8 DEF b, s
<1>6. NextBuffer(ctx, data) \in Blocks
  <2>1. Rest(ctx, data) = <<>>
    <3>1. Rest(ctx, data) = SubSeq(data, n * BLOCK + 1, n * BLOCK)
      BY <1>2, <1>3, <1>4 DEF Rest
    <3>2. n * BLOCK + 1 \in Int /\ n * BLOCK \in Int /\ n * BLOCK < n * BLOCK + 1
      BY <1>1
    <3>3. QED  BY <3>1, <3>2, SubSeqEmpty
  <2>2. ASSUME NEW i \in 1..BLOCK PROVE data[(1 - 1) * BLOCK + i] \in Byte
    <3>1. BLOCK <= n * BLOCK
      BY <1>1
    <3>2. (1 - 1) * BLOCK + i \in 1..(n * BLOCK)
      BY <1>1, <3>1
    <3>3. QED  BY <3>2
  <2>3. BlockOf(ctx, data, 1) \in Blocks
    BY <1>5, <2>2 DEF Blocks
  <2>4. NextBuffer(ctx, data) = [i \in 1..BLOCK |-> BlockOf(ctx, data, 1)[i]]
    BY <1>1, <1>4, <2>1 DEF NextBuffer
  <2>5. QED  BY <2>3, <2>4 DEF Blocks
<1>7. QED  BY <1>2, <1>4, <1>5, <1>6

-----------------------------------------------------------------------------
DoneBlock == [at : Address, after : State]

LEMMA ZeroContextType == ZeroContext \in Context
<1>1. 0 \in 0..(WORD_LIMIT - 1) /\ 0 \in 0..(LOW_LIMIT - 1) /\ 0 \in 0..(HIGH_LIMIT - 1)
  BY Sha1Assumption
<1>2. QED  BY <1>1, Sha1Assumption DEF ZeroContext, Context, State, Blocks

(* A stream with no block yet is the hash of nothing.                       *)
LEMMA EmptyStream ==
  ASSUME NEW state, NewStream(state), SHA1_context'.state = state
  PROVE  StateIsHash'
  BY DEF NewStream, StateIsHash, Before

LEMMA InitInv == Init => IInv
<1> SUFFICES ASSUME Init PROVE IInv
  OBVIOUS
<1>1. TypeOK
  BY ZeroContextType, ShaAssumption DEF Init, TypeOK, Context, Address
<1>2. SHA1_context.low = 0 * BLOCK /\ SHA1_context.high = 0 /\ SHA1_context.low = 0
  BY Sha1Assumption DEF Init, ZeroContext
<1>3. Aligned
  BY <1>2 DEF Aligned
<1>4. Counted
  <2>1. 0 * BLOCK = (LOW_LIMIT * HIGH_LIMIT) * 0 + (0 + LOW_LIMIT * 0)
    BY Sha1Assumption
  <2>2. QED  BY <1>2, <2>1 DEF Counted, Init
<1>5. StateIsHash
  BY DEF Init, StateIsHash, Before
<1>6. QED  BY <1>1, <1>3, <1>4, <1>5 DEF IInv

(* A sequence of blocks is a hash from a state on: each state is what the   *)
(* transform makes of the one before and of the block.                      *)
After(start, s, k) == IF k = 1 THEN start ELSE s[k - 1].after

Hashes(start, s) ==
  \A k \in DOMAIN s : s[k].after = SHA1_Transform(After(start, s, k), BlockAt(s[k].at))

LastState(start, s) == IF s = <<>> THEN start ELSE s[Len(s)].after

(* The blocks of a command, appended to a stream that is a hash so far.     *)
LEMMA AppendBlocks ==
  ASSUME NEW n \in Nat \ {0}, NEW s \in Seq(DoneBlock), NEW d \in [1..n -> DoneBlock],
         NEW start \in State,
         Hashes(start, s), Hashes(LastState(start, s), d),
         NEW t, t = s \o d
  PROVE  /\ t \in Seq(DoneBlock) /\ Len(t) = Len(s) + n
         /\ t[Len(s) + n] = d[n]
         /\ Hashes(start, t)
<1> DEFINE L == Len(s)
<1>1. L \in Nat /\ DOMAIN s = 1..L /\ (s = <<>> <=> L = 0)
  OBVIOUS
<1>2. d \in Seq(DoneBlock) /\ Len(d) = n
  <2>1. d \in Seq(DoneBlock)
    BY SeqDef
  <2>2. DOMAIN d = 1..n /\ DOMAIN d = 1..Len(d) /\ Len(d) \in Nat
    BY <2>1
  <2>3. QED  BY <2>1, <2>2
<1>3. /\ t \in Seq(DoneBlock) /\ Len(t) = L + n
      /\ \A k \in 1..(L + n) : t[k] = IF k <= L THEN s[k] ELSE d[k - L]
  BY <1>2, ConcatProperties
<1> HIDE DEF L
<1>4. ASSUME NEW k \in 1..(L + n)
      PROVE  t[k].after = SHA1_Transform(After(start, t, k), BlockAt(t[k].at))
  <2>1. CASE k <= L
    <3>1. k \in 1..L /\ t[k] = s[k]
      BY <1>1, <1>3, <2>1
    <3>2. After(start, t, k) = After(start, s, k)
      BY <1>1, <1>3, <2>1 DEF After
    <3>3. s[k].after = SHA1_Transform(After(start, s, k), BlockAt(s[k].at))
      BY <1>1, <3>1 DEF Hashes
    <3>4. QED  BY <3>1, <3>2, <3>3
  <2>2. CASE k = L + 1
    <3>1. t[k] = d[1] /\ 1 \in 1..n
      BY <1>1, <1>3, <2>2
    <3>2. k # 1 => t[k - 1] = s[L] /\ s # <<>>
      BY <1>1, <1>3, <2>2
    <3>3. k = 1 => s = <<>>
      BY <1>1, <2>2
    <3>4. After(start, t, k) = LastState(start, s)
      BY <3>2, <3>3 DEF After, LastState, L
    <3>5. d[1].after = SHA1_Transform(LastState(start, s), BlockAt(d[1].at))
      BY <3>1 DEF Hashes, After
    <3>6. QED  BY <3>1, <3>4, <3>5
  <2>3. CASE L + 1 < k
    <3>1. /\ k - L \in 1..n /\ k - L # 1 /\ k # 1
          /\ t[k] = d[k - L] /\ t[k - 1] = d[(k - L) - 1]
      BY <1>1, <1>3, <2>3
    <3>2. After(start, t, k) = After(LastState(start, s), d, k - L)
      BY <3>1 DEF After
    <3>3. d[k - L].after = SHA1_Transform(After(LastState(start, s), d, k - L),
                                          BlockAt(d[k - L].at))
      BY <3>1 DEF Hashes
    <3>4. QED  BY <3>1, <3>2, <3>3
  <2>4. QED  BY <1>1, <2>1, <2>2, <2>3
<1>5. t[L + n] = d[n]
  BY <1>1, <1>3
<1>6. DOMAIN t = 1..(L + n)
  BY <1>3
<1>7. QED  BY <1>3, <1>4, <1>5, <1>6 DEF L, Hashes

-----------------------------------------------------------------------------
(* A command of n blocks (SHA_WriteRegister, start bit set).                *)
LEMMA HashInv ==
  ASSUME IInv, NEW c \in Control, Hash(c)
  PROVE  IInv'
<1> DEFINE n == c.blocks
           size == n * BLOCK
           ctx == SHA1_context
           data == TempBuf(size)
<1>1. /\ n \in Nat \ {0} /\ n <= MAX_BLOCKS
      /\ BLOCK \in Nat \ {0} /\ LOW_LIMIT \in Nat \ {0} /\ HIGH_LIMIT \in Nat \ {0}
      /\ MAX_BLOCKS \in Nat
  BY Sha1Assumption, ShaAssumption DEF Control
<1>2. size \in 1..(LOW_LIMIT - 1)
  <2>1. n * BLOCK <= MAX_BLOCKS * BLOCK /\ n * BLOCK \in Nat \ {0}
    BY <1>1
  <2>2. QED  BY <1>1, <2>1, ShaAssumption
<1>3. SHA_src_address \in Nat /\ ctx \in Context /\ done \in Seq(DoneBlock)
  BY ShaAssumption DEF IInv, TypeOK, Address, DoneBlock
<1>4. Source(size) \subseteq DOMAIN MemoryBytes
  BY DEF Hash
<1>5. data \in [1..size -> Byte]
  <2>1. ASSUME NEW i \in 1..size PROVE MemoryBytes[SHA_src_address + i - 1] \in Byte
    <3>1. SHA_src_address + i - 1 \in Source(size)
      BY <1>2, <1>3 DEF Source
    <3>2. QED  BY <1>4, <3>1, ShaAssumption
  <2>2. QED  BY <2>1 DEF TempBuf
<1>6. PICK a \in Nat : ctx.low = a * BLOCK
  BY DEF IInv, Aligned
<1>7. /\ Len(data) = size /\ WholeBlocks(ctx, data) = n
      /\ \A k \in 1..n :
           BlockOf(ctx, data, k) = [i \in 1..BLOCK |-> data[(k - 1) * BLOCK + i]]
      /\ NextBuffer(ctx, data) \in Blocks
  <2> HIDE DEF n, ctx, data
  <2>1. QED  BY <1>1, <1>3, <1>5, <1>6, WholeCommand
<1>8. PICK chain \in [1..n -> State] :
        /\ IsChain(chain, ctx, data)
        /\ SHA1_context' = SHA1_Update(ctx, data, chain)
        /\ done' = done \o DoneBlocks(chain)
  BY <1>7 DEF Hash
<1>9. /\ Len(chain) = n /\ chain # <<>> /\ n \in 1..n
      /\ chain[n] \in State
  <2>1. chain \in Seq(State)
    BY <1>1, SeqDef
  <2>2. DOMAIN chain = 1..n /\ DOMAIN chain = 1..Len(chain) /\ Len(chain) \in Nat
    BY <2>1
  <2>3. QED  BY <1>1, <2>1, <2>2
<1>10. /\ SHA1_context'.state = chain[n]
       /\ SHA1_context'.low = NextLow(ctx, size)
       /\ SHA1_context'.high = NextHigh(ctx, size)
       /\ SHA1_context' = [state |-> chain[n], buffer |-> NextBuffer(ctx, data),
                           low |-> NextLow(ctx, size), high |-> NextHigh(ctx, size)]
  <2> HIDE DEF size, data
  <2>1. QED  BY <1>7, <1>8, <1>9 DEF SHA1_Update
<1>11. /\ NextLow(ctx, size) \in 0..(LOW_LIMIT - 1)
       /\ NextHigh(ctx, size) \in 0..(HIGH_LIMIT - 1)
       /\ NextLow(ctx, size) \in {ctx.low + size, ctx.low + size - LOW_LIMIT}
       /\ \E w \in {0, 1} :
            ctx.low + LOW_LIMIT * ctx.high + size =
              (LOW_LIMIT * HIGH_LIMIT) * w
                + NextLow(ctx, size) + LOW_LIMIT * NextHigh(ctx, size)
  BY <1>2, <1>3, CounterAdds
<1>12. SHA1_context' \in Context
  BY <1>7, <1>9, <1>10, <1>11 DEF Context
<1>13. hashed \in Nat /\ hashed' = hashed + n
  BY DEF IInv, TypeOK, Hash
<1>14. Aligned'
  <2>1. CASE SHA1_context'.low = ctx.low + size
    <3>1. SHA1_context'.low = (a + n) * BLOCK /\ a + n \in Nat
      BY <1>1, <1>6, <2>1
    <3>2. QED  BY <3>1 DEF Aligned
  <2>2. CASE SHA1_context'.low = ctx.low + size - LOW_LIMIT
    <3>1. PICK q \in 1..LOW_LIMIT : LOW_LIMIT = q * BLOCK
      BY Sha1Assumption
    <3>2. SHA1_context'.low = (a + n - q) * BLOCK
      BY <1>1, <1>6, <2>2, <3>1
    <3>3. a + n - q \in Nat
      <4>1. SHA1_context'.low >= 0
        BY <1>1, <1>10, <1>11
      <4>2. a + n - q < 0 => (a + n - q) * BLOCK < 0
        BY <1>1, <3>1
      <4>3. QED  BY <1>1, <3>1, <3>2, <4>1, <4>2
    <3>4. QED  BY <3>2, <3>3 DEF Aligned
  <2>3. QED  BY <1>10, <1>11, <2>1, <2>2
<1>15. Counted'
  <2>1. PICK q \in Nat : hashed * BLOCK = (LOW_LIMIT * HIGH_LIMIT) * q
                                            + (ctx.low + LOW_LIMIT * ctx.high)
    BY DEF IInv, Counted
  <2>2. PICK w \in {0, 1} :
          ctx.low + LOW_LIMIT * ctx.high + size =
            (LOW_LIMIT * HIGH_LIMIT) * w
              + NextLow(ctx, size) + LOW_LIMIT * NextHigh(ctx, size)
    BY <1>11
  <2>3. hashed' * BLOCK = hashed * BLOCK + size
    BY <1>1, <1>13
  <2>4. (LOW_LIMIT * HIGH_LIMIT) * (q + w)
          = (LOW_LIMIT * HIGH_LIMIT) * q + (LOW_LIMIT * HIGH_LIMIT) * w
    BY <1>1
  <2>5. /\ ctx.low \in Int /\ LOW_LIMIT * ctx.high \in Int
        /\ size \in Int /\ hashed * BLOCK \in Int
        /\ (LOW_LIMIT * HIGH_LIMIT) * q \in Int /\ (LOW_LIMIT * HIGH_LIMIT) * w \in Int
        /\ NextLow(ctx, size) \in Int /\ LOW_LIMIT * NextHigh(ctx, size) \in Int
    <3>1. ctx.low \in Int /\ ctx.high \in Int /\ q \in Int /\ w \in Int
      BY <1>3 DEF Context
    <3>2. NextLow(ctx, size) \in Int /\ NextHigh(ctx, size) \in Int /\ size \in Int
      BY <1>1, <1>2, <1>11
    <3> HIDE DEF ctx, size
    <3>3. QED  BY <1>1, <1>13, <3>1, <3>2
  <2>6. hashed' * BLOCK = (LOW_LIMIT * HIGH_LIMIT) * (q + w)
          + (NextLow(ctx, size) + LOW_LIMIT * NextHigh(ctx, size))
    <3> DEFINE all == hashed * BLOCK
               x   == (LOW_LIMIT * HIGH_LIMIT) * q
               y   == (LOW_LIMIT * HIGH_LIMIT) * w
               low == ctx.low
               high == LOW_LIMIT * ctx.high
               low2 == NextLow(ctx, size)
               high2 == LOW_LIMIT * NextHigh(ctx, size)
    <3>1. /\ x \in Int /\ y \in Int /\ size \in Int /\ all \in Int
          /\ low \in Int /\ high \in Int /\ low2 \in Int /\ high2 \in Int
      BY <2>5
    <3>2. all = x + (low + high)
      BY <2>1
    <3>3. low + high + size = y + low2 + high2
      BY <2>2
    <3>4. hashed' * BLOCK = all + size
      BY <2>3
    <3>5. (LOW_LIMIT * HIGH_LIMIT) * (q + w) = x + y
      BY <2>4
    <3> HIDE DEF size, all, x, y, low, high, low2, high2
    <3>6. all + size = (x + y) + (low2 + high2)
      BY <3>1, <3>2, <3>3, AddCounts
    <3>7. QED  BY <3>4, <3>5, <3>6 DEF low2, high2
  <2>7. q + w \in Nat
    OBVIOUS
  <2>8. QED  BY <1>10, <2>6, <2>7 DEF Counted
<1> DEFINE D == DoneBlocks(chain)
<1>16. ASSUME NEW k \in 1..n
       PROVE  /\ SHA_src_address + (k - 1) * BLOCK \in Address
              /\ BlockAt(SHA_src_address + (k - 1) * BLOCK) = BlockOf(ctx, data, k)
  <2> DEFINE o == (k - 1) * BLOCK
  <2>1. o \in Nat /\ o + BLOCK <= size
    <3>1. o + BLOCK = k * BLOCK /\ k * BLOCK <= n * BLOCK
      BY <1>1
    <3>2. QED  BY <1>1, <3>1
  <2>2. BlockOf(ctx, data, k) = [i \in 1..BLOCK |-> data[o + i]]
    BY <1>7
  <2> HIDE DEF o, size
  <2>3. SHA_src_address + o \in Source(size)
    BY <1>1, <1>2, <1>3, <2>1 DEF Source
  <2>4. ASSUME NEW i \in 1..BLOCK
        PROVE  data[o + i] = MemoryBytes[SHA_src_address + o + i - 1]
    <3>1. o + i \in 1..size
      BY <1>1, <1>2, <2>1
    <3>2. SHA_src_address + (o + i) - 1 = SHA_src_address + o + i - 1
      BY <1>1, <1>3, <2>1
    <3>3. QED  BY <3>1, <3>2 DEF TempBuf
  <2>5. SHA_src_address + o \in Address
    BY <1>4, <2>3, ShaAssumption
  <2>6. BlockAt(SHA_src_address + o) = BlockOf(ctx, data, k)
    BY <2>2, <2>4 DEF BlockAt
  <2>7. QED  BY <2>5, <2>6 DEF o
<1>17. /\ D \in [1..n -> DoneBlock]
       /\ \A k \in 1..n : /\ D[k].at = SHA_src_address + (k - 1) * BLOCK
                          /\ D[k].after = chain[k]
  BY <1>16 DEF DoneBlocks, DoneBlock
<1>18. ctx.state = LastState(began, done)
  <2>1. ctx.state = Before(Len(done) + 1)
    BY DEF IInv, StateIsHash
  <2>2. Len(done) \in Nat /\ (done = <<>> <=> Len(done) = 0)
    BY <1>3
  <2>3. QED  BY <2>1, <2>2 DEF Before, LastState
<1>19. Hashes(LastState(began, done), D)
  <2>1. ASSUME NEW k \in 1..n
        PROVE  D[k].after = SHA1_Transform(After(ctx.state, D, k), BlockAt(D[k].at))
    <3>1. chain[k] = SHA1_Transform(IF k = 1 THEN ctx.state ELSE chain[k - 1],
                                    BlockOf(ctx, data, k))
      BY <1>8 DEF IsChain
    <3>2. k # 1 => k - 1 \in 1..n
      BY <1>1
    <3> HIDE DEF D, ctx, data
    <3>3. After(ctx.state, D, k) = IF k = 1 THEN ctx.state ELSE chain[k - 1]
      BY <1>17, <3>2 DEF After
    <3>4. QED  BY <1>16, <1>17, <3>1, <3>3
  <2> HIDE DEF D, ctx
  <2>2. DOMAIN D = 1..n
    BY <1>17
  <2>3. QED  BY <1>18, <2>1, <2>2 DEF Hashes
<1>20. /\ done' \in Seq(DoneBlock) /\ Len(done') = Len(done) + n
       /\ done'[Len(done) + n] = D[n]
       /\ Hashes(began, done')
  <2>1. began \in State
    BY DEF IInv, TypeOK
  <2>2. Hashes(began, done)
    BY DEF IInv, StateIsHash, Before, Hashes, After
  <2> DEFINE t == done \o D
  <2>3. done' = t
    BY <1>8
  <2> HIDE DEF D, n
  <2>4. /\ t \in Seq(DoneBlock) /\ Len(t) = Len(done) + n
        /\ t[Len(done) + n] = D[n] /\ Hashes(began, t)
    BY <1>1, <1>3, <1>17, <1>19, <2>1, <2>2, AppendBlocks
  <2> HIDE DEF t
  <2>5. QED  BY <2>3, <2>4
<1>21. StateIsHash'
  <2>1. began' = began
    BY DEF Hash
  <2>2. Len(done) \in Nat
    BY <1>3
  <2>3. SHA1_context'.state = done'[Len(done')].after /\ Len(done') + 1 # 1
        /\ (Len(done') + 1) - 1 = Len(done')
    BY <1>1, <1>9, <1>10, <1>17, <1>20, <2>2
  <2>4. QED  BY <1>20, <2>1, <2>3 DEF StateIsHash, Before, Hashes, After
<1>22. TypeOK'
  <2>1. SHA_src_address' \in Address
    <3>1. \A x \in Nat : x % ADDRESS_LIMIT \in 0..(ADDRESS_LIMIT - 1)
      BY ShaAssumption
    <3>2. SHA_src_address + size \in Nat
      BY <1>2, <1>3
    <3>3. QED  BY <3>1, <3>2 DEF Hash, Advanced, Address
  <2>2. done' \in Seq([at : Address, after : State])
    BY <1>20 DEF DoneBlock
  <2>3. QED  BY <1>1, <1>12, <1>13, <2>1, <2>2 DEF Hash, IInv, TypeOK
<1>23. QED  BY <1>14, <1>15, <1>21, <1>22 DEF IInv

LEMMA StepInv == IInv /\ [Next]_vars => IInv'
<1> SUFFICES ASSUME IInv, [Next]_vars PROVE IInv'
  OBVIOUS
<1>1. ASSUME NEW c \in Written["SHA_CTRL"], Hash(c) PROVE IInv'
  <2>1. c \in Control
    BY ShaAssumption
  <2>2. QED  BY <1>1, <2>1, HashInv
<1>2. ASSUME NEW c \in Written["SHA_CTRL"], HashOutside(c) PROVE IInv'
  BY <1>2 DEF HashOutside, IInv, TypeOK, Aligned, Counted, StateIsHash, Before
<1>3. ASSUME NEW c \in Written["SHA_CTRL"], Reset(c) PROVE IInv'
  <2>1. SHA1_context' = ZeroContext /\ hashed' = 0
    BY <1>3 DEF Reset
  <2>2. ZeroContext.low = 0 /\ ZeroContext.high = 0 /\ ZeroContext.state \in State
    BY ZeroContextType DEF ZeroContext, Context
  <2>3. StateIsHash'
    BY <1>3, <2>1, EmptyStream DEF Reset
  <2>4. Aligned' /\ Counted'
    <3>1. 0 = 0 * BLOCK
          /\ 0 * BLOCK = (LOW_LIMIT * HIGH_LIMIT) * 0 + (0 + LOW_LIMIT * 0)
      BY Sha1Assumption
    <3>2. QED  BY <2>1, <2>2, <3>1 DEF Aligned, Counted
  <2>5. TypeOK'
    BY <1>3, <2>1, <2>2, ZeroContextType DEF Reset, NewStream, IInv, TypeOK
  <2>6. QED  BY <2>3, <2>4, <2>5 DEF IInv
<1>4. ASSUME NEW a \in Written["SHA_SRC"], WriteSRC(a) PROVE IInv'
  BY <1>4, ShaAssumption
     DEF WriteSRC, IInv, TypeOK, Aligned, Counted, StateIsHash, Before
<1>5. ASSUME NEW h \in Written["SHA_H"], WriteH(h[1], h[2]) PROVE IInv'
  <2>1. h[1] \in 0..4 /\ h[2] \in 0..(WORD_LIMIT - 1)
    BY ShaAssumption
  <2>2. SHA1_context \in Context
    BY DEF IInv, TypeOK
  <2> DEFINE state == [SHA1_context.state EXCEPT ![h[1]] = h[2]]
  <2>3. state \in State
    BY <2>1, <2>2 DEF Context, State
  <2>4. SHA1_context' = [SHA1_context EXCEPT !.state = state] /\ NewStream(state)
    BY <1>5, <2>2 DEF WriteH, Context
  <2> HIDE DEF state
  <2>5. /\ SHA1_context' \in Context /\ SHA1_context'.state = state
        /\ SHA1_context'.low = SHA1_context.low /\ SHA1_context'.high = SHA1_context.high
    BY <2>2, <2>3, <2>4 DEF Context
  <2>6. StateIsHash'
    BY <2>4, <2>5, EmptyStream
  <2>7. Aligned' /\ Counted'
    BY <1>5, <2>5 DEF WriteH, IInv, Aligned, Counted
  <2>8. TypeOK'
    BY <1>5, <2>3, <2>4, <2>5 DEF WriteH, NewStream, IInv, TypeOK
  <2>9. QED  BY <2>6, <2>7, <2>8 DEF IInv
<1>6. ASSUME UNCHANGED vars PROVE IInv'
  BY <1>6 DEF vars, engine, IInv, TypeOK, Aligned, Counted, StateIsHash, Before
<1>7. QED  BY <1>1, <1>2, <1>3, <1>4, <1>5, <1>6 DEF Next

LEMMA CountedIsCount == IInv => CountIsBytes
<1> SUFFICES ASSUME IInv PROVE CountIsBytes
  OBVIOUS
<1> DEFINE r == SHA1_context.low + LOW_LIMIT * SHA1_context.high
           p == LOW_LIMIT * HIGH_LIMIT
<1>1. r \in 0..(p - 1) /\ p \in Nat \ {0}
  BY TwoDigits, Sha1Assumption DEF IInv, TypeOK, Context
<1>2. PICK q \in Nat : hashed * BLOCK = p * q + r
  BY DEF IInv, Counted
<1> HIDE DEF r, p
<1>3. (hashed * BLOCK) % p = r
  BY <1>1, <1>2, RemainderOf
<1>4. QED  BY <1>3 DEF CountIsBytes, r, p

THEOREM ShaInvariant == Spec => []IInv
  BY InitInv, StepInv, PTL DEF Spec

(* Every variable of the engine keeps its kind, the counter's words and the *)
(* pointer their width.                                                     *)
THEOREM ShaTypeCorrect == Spec => []TypeOK
  BY ShaInvariant, PTL DEF IInv

(* However a message is cut into commands, the state is the hash of its     *)
(* blocks since the state was last written.                                 *)
THEOREM ShaStateCorrect == Spec => []StateIsHash
  BY ShaInvariant, PTL DEF IInv

(* The two words of the counter are the bytes since the reset, carries      *)
(* included.                                                                *)
THEOREM ShaCountCorrect == Spec => []CountIsBytes
  BY ShaInvariant, CountedIsCount, PTL

=============================================================================
