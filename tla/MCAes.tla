--------------------------------- MODULE MCAes ---------------------------------
(***************************************************************************)
(* The AES engine with words of one bit, so that there are sixteen blocks,  *)
(* and a block cipher on them that is neither linear nor its own inverse.   *)
(***************************************************************************)
EXTENDS AesStream

(* A block as a number.                                                     *)
Number(b) == LET bit(i) == IF b[i] = {} THEN 0 ELSE 1
             IN  bit(0) + 2 * bit(1) + 4 * bit(2) + 8 * bit(3)

OfNumber(n) == CHOOSE b \in Block : Number(b) = n

ScheduleNumber(s) == IF s = NoSchedule THEN 7 ELSE Number(s[1])

(* 5 * 13 is 1 modulo 16.                                                   *)
MCCipher ==
  [s \in Schedule |-> [b \in Block |->
     OfNumber((5 * Number(b) + 3 * ScheduleNumber(s) + 1) % 16)]]

MCInvCipher ==
  [s \in Schedule |-> [b \in Block |->
     OfNumber((13 * (Number(b) + 48 - 3 * ScheduleNumber(s) - 1)) % 16)]]

MCMemory == [a \in 0..(MEM_BLOCKS - 1) |-> OfNumber(a + 1)]

One == {"bit"}

Start(encryption, decrypt, chain, n) ==
  [start |-> TRUE, encryption |-> encryption, decrypt |-> decrypt,
   chain |-> chain, blocks |-> n]

ResetWord == [Start(TRUE, FALSE, FALSE, 1) EXCEPT !.start = FALSE]

Registers == {"AES_CTRL", "AES_KEY", "AES_IV", "AES_SRC", "AES_DEST"}

(* Streams of every mix of commands, and every filling of the FIFOs before   *)
(* and between them.                                                         *)
StreamWords ==
  [r \in Registers |->
     CASE r = "AES_CTRL" -> {Start(TRUE, d, ch, n) : d \in BOOLEAN, ch \in BOOLEAN, n \in 1..2}
                              \cup {Start(FALSE, FALSE, TRUE, 1), ResetWord}
       [] r = "AES_KEY"  -> {One, {}}
       [] r = "AES_IV"   -> {One}
       [] r = "AES_SRC"  -> {0}
       [] OTHER          -> {1}]

=============================================================================
