------------------------------- MODULE ExiGecko -------------------------------
(***************************************************************************)
(* The EXI registers (interface_exi.c): a USB Gecko in channel 1 whose      *)
(* text is gathered into lines for stdout, and the boot vector of the       *)
(* PowerPC.  Offsets are those of registers_exi.h.                          *)
(*                                                                          *)
(* A word on the data register is its command nibble and the eight bits     *)
(* under it; other words are sets of bits.  Each access is one callback.    *)
(***************************************************************************)
EXTENDS Integers, Sequences

CONSTANTS
  BUFFER_SIZE,          \* 0x1000, sizeof gecko_out_buffer
  Written,              \* the words the guest writes, by offset
  Garbage,              \* what may lie behind the text buffer
  MAX_LINE, MAX_LINES   \* bounds on the text sent in a run

ASSUME ExiAssumption ==
  /\ BUFFER_SIZE \in Nat \ {0}
  /\ MAX_LINE \in Nat /\ MAX_LINES \in Nat

EXI_PARAM    == 0
EXI_CONTROL  == 12
EXI_IMM_DATA == 16
EXI_CHANNEL_SIZE    == 20
EXI_BOOT_VECTOR     == 64
EXI_BOOT_VECTOR_END == 128

Byte == 0..255
NewLine == 10
Data == [command : 0..15, byte : Byte]

(* The word right after the boot vector, which the range check of the code   *)
(* lets through to memory behind the array, is not written.                  *)
ASSUME WrittenAssumption ==
  /\ DOMAIN Written \subseteq Nat \ {EXI_BOOT_VECTOR_END}
  /\ \A offset \in DOMAIN Written :
       offset = EXI_CHANNEL_SIZE + EXI_IMM_DATA => Written[offset] \subseteq Data

(* The replies the device leaves in the data register: 0x04000000,          *)
(* 0x04700000 and zero.                                                     *)
Sent       == [command |-> 0, byte |-> 64]
Identified == [command |-> 0, byte |-> 71]
NoReply    == [command |-> 0, byte |-> 0]

VARIABLES
  EXI_PPCBootVector,
  gecko_out_buffer,      \* the bytes in it; its length is gecko_out_read
  gecko_enabled, gecko_exi_data_buf, gecko_last_control,
  printed,               \* the lines on stdout
  lines, line,           \* the text sent: its complete lines, and the rest
  stopped                \* emulation has ended

text  == <<lines, line>>
gecko == <<gecko_out_buffer, gecko_enabled, gecko_exi_data_buf, gecko_last_control,
           printed, text>>
vars  == <<gecko, EXI_PPCBootVector, stopped>>

BootWords == 0..((EXI_BOOT_VECTOR_END - EXI_BOOT_VECTOR) \div 4 - 1)

Init ==
  /\ EXI_PPCBootVector = [n \in BootWords |-> {}]
  /\ gecko_out_buffer = <<>>
  /\ gecko_enabled = FALSE
  /\ gecko_exi_data_buf = NoReply
  /\ gecko_last_control = {}
  /\ printed = <<>>
  /\ lines = <<>> /\ line = <<>>
  /\ stopped = FALSE

-----------------------------------------------------------------------------
(* printf("%s") stops at the first zero byte, and runs on into what is      *)
(* behind the buffer when a full buffer has none.                           *)
BeforeZero(string) ==
  LET zeros == {n \in DOMAIN string : string[n] = 0} IN
  IF zeros = {} THEN string
  ELSE SubSeq(string, 1, (CHOOSE n \in zeros : \A k \in zeros : n <= k) - 1)

Shown(string) ==
  IF Len(string) = BUFFER_SIZE /\ \A n \in DOMAIN string : string[n] # 0
  THEN {string, Append(string, Garbage)}
  ELSE {BeforeZero(string)}

(* Slip: the text is printed and stays.                                     *)
PrintGeckoText ==
  /\ UNCHANGED gecko_out_buffer
  /\ IF gecko_out_buffer = <<>> THEN UNCHANGED printed
     ELSE \E shown \in Shown(gecko_out_buffer) : printed' = Append(printed, shown)

EXI_FlushGeckoText ==
  /\ gecko_out_buffer' = <<>>
  /\ IF gecko_out_buffer = <<>> THEN UNCHANGED printed
     ELSE \E shown \in Shown(gecko_out_buffer) : printed' = Append(printed, shown)

(* The text as it was sent.  Blank lines are not counted.                   *)
EndLine ==
  /\ line' = <<>>
  /\ lines' = IF line = <<>> THEN lines ELSE Append(lines, line)

RecordByte(byte) ==
  IF byte = NewLine THEN EndLine
  ELSE /\ line' = Append(line, byte)
       /\ UNCHANGED lines

MoreText == Len(line) < MAX_LINE /\ Len(lines) < MAX_LINES

(* The slip lets one byte more in.                                          *)
BufferOverfull == Len(gecko_out_buffer) > BUFFER_SIZE
BufferFull     == Len(gecko_out_buffer) >= BUFFER_SIZE

(* Command 0xB: a newline, and any byte that finds the buffer full, prints  *)
(* the line and is not stored.                                              *)
SendByte ==
  LET byte == gecko_exi_data_buf.byte % 128 IN
  /\ gecko_exi_data_buf.command = 11
  /\ MoreText
  /\ RecordByte(gecko_exi_data_buf.byte)
  /\ \/ /\ byte = NewLine \/ BufferFull
        /\ EXI_FlushGeckoText
     \/ /\ byte # NewLine /\ ~BufferFull
        /\ gecko_out_buffer' = Append(gecko_out_buffer, byte)
        /\ UNCHANGED printed
  /\ gecko_exi_data_buf' = Sent

(* Ready, identify, receive, and everything else; nothing is ever received. *)
OtherCommand ==
  /\ gecko_exi_data_buf.command # 11
  /\ gecko_exi_data_buf' =
       CASE gecko_exi_data_buf.command = 12 -> Sent
         [] gecko_exi_data_buf.command = 9  -> Identified
         [] OTHER -> NoReply
  /\ UNCHANGED <<gecko_out_buffer, printed, text>>

WriteCONTROL(word) ==
  /\ gecko_last_control' = word
  /\ SendByte \/ OtherCommand
  /\ UNCHANGED gecko_enabled

WriteIMM_DATA(word) ==
  /\ gecko_exi_data_buf' = word
  /\ UNCHANGED <<gecko_out_buffer, gecko_enabled, gecko_last_control, printed, text>>

(* Bit 7 selects the device in slot B, bits 8 and 9 those that are not      *)
(* there, and the speed in bits 4 to 6 must be 5.                           *)
WritePARAM(word) ==
  /\ gecko_enabled' = (/\ 7 \in word /\ 8 \notin word /\ 9 \notin word
                       /\ word \cap {4, 5, 6} = {4, 6})
  /\ UNCHANGED <<gecko_out_buffer, gecko_exi_data_buf, gecko_last_control, printed, text>>

(* Slip: the channel is not looked at.                                      *)
SelectsInAnyChannel(offset, register) ==
  /\ offset % EXI_CHANNEL_SIZE = register
  /\ register # EXI_PARAM => gecko_enabled

(* A channel register is served in channel 1 only, and all but PARAM only   *)
(* while the device is selected; any other write is reported and dropped.   *)
Selects(offset, register) ==
  /\ offset \div EXI_CHANNEL_SIZE = 1
  /\ offset % EXI_CHANNEL_SIZE = register
  /\ register # EXI_PARAM => gecko_enabled

WriteChannel(offset, word) ==
  \/ Selects(offset, EXI_PARAM)    /\ WritePARAM(word)
  \/ Selects(offset, EXI_IMM_DATA) /\ WriteIMM_DATA(word)
  \/ Selects(offset, EXI_CONTROL)  /\ WriteCONTROL(word)
  \/ /\ \A r \in {EXI_PARAM, EXI_IMM_DATA, EXI_CONTROL} : ~Selects(offset, r)
     /\ UNCHANGED gecko

InBootVector(offset) == EXI_BOOT_VECTOR <= offset /\ offset <= EXI_BOOT_VECTOR_END

BootIndex(offset) == (offset - EXI_BOOT_VECTOR) \div 4

WriteBootVector(offset, word) ==
  EXI_PPCBootVector' = IF InBootVector(offset)
                       THEN [EXI_PPCBootVector EXCEPT ![BootIndex(offset)] = word]
                       ELSE EXI_PPCBootVector

(* The whole handler.  A write to the boot vector does not return: it goes  *)
(* on to be decoded as a write to a channel.                                *)
EXI_WriteRegister(offset, word) ==
  /\ ~stopped
  /\ WriteBootVector(offset, word)
  /\ WriteChannel(offset, word)
  /\ UNCHANGED stopped

(* ARM_print_state flushes the text: on an SWI it does not know, and when   *)
(* emulation has ended.                                                     *)
PrintState ==
  /\ ~stopped
  /\ EXI_FlushGeckoText
  /\ EndLine
  /\ stopped' \in BOOLEAN
  /\ UNCHANGED <<gecko_enabled, gecko_exi_data_buf, gecko_last_control,
                 EXI_PPCBootVector>>

Next ==
  \/ \E offset \in DOMAIN Written : \E word \in Written[offset] :
       EXI_WriteRegister(offset, word)
  \/ PrintState

Spec == Init /\ [][Next]_vars

-----------------------------------------------------------------------------
(* The types, with the buffer never filled past its size.                   *)
TypeOK ==
  /\ DOMAIN EXI_PPCBootVector = BootWords
  /\ gecko_out_buffer \in Seq(0..127)
  /\ Len(gecko_out_buffer) <= BUFFER_SIZE
  /\ gecko_enabled \in BOOLEAN
  /\ gecko_exi_data_buf \in Data
  /\ lines \in Seq(Seq(Byte)) /\ line \in Seq(Byte)
  /\ stopped \in BOOLEAN

(* Text that fits: seven-bit bytes other than zero, in lines shorter than   *)
(* the buffer.                                                              *)
IsPlain(string) ==
  /\ Len(string) < BUFFER_SIZE
  /\ \A n \in DOMAIN string : string[n] \in 1..127

AllPlain == IsPlain(line) /\ \A n \in DOMAIN lines : IsPlain(lines[n])

(* Text of plain lines comes out on stdout as it was sent, line by line and *)
(* in order, whatever other commands, deselections and register dumps come  *)
(* between its bytes; what is not yet printed waits in the buffer.          *)
PlainTextPrinted ==
  AllPlain => printed = lines /\ gecko_out_buffer = line

(* A write to the boot vector, which falls through into the decoding of     *)
(* channels, never reaches the registers of the Gecko.                      *)
BootVectorSparesGecko ==
  [][EXI_PPCBootVector' # EXI_PPCBootVector => UNCHANGED gecko]_vars

=============================================================================
