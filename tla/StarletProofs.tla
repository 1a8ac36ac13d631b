----------------------------- MODULE StarletProofs -----------------------------
(***************************************************************************)
(* The EXI registers, the debug console, the memory interface and the       *)
(* registers that remap memory, alone and in the composition with the CPU:  *)
(* that the text that fits is printed, for every size of the buffers, every *)
(* geometry of memory and every order of remappings, and that every         *)
(* register region is mapped.                                               *)
(*                                                                          *)
(* First, the text of the Gecko in ExiGecko.  The invariant is TypeOK       *)
(* together with PlainTextPrinted itself: text that is plain after a step   *)
(* was plain before it, so nothing has been lost so far, and its line is    *)
(* shorter than the buffer, so the buffer is not full.                      *)
(***************************************************************************)
EXTENDS Starlet, TLAPS

IInv == TypeOK /\ PlainTextPrinted

(* A string of plain bytes is printed as it is.                             *)
LEMMA PlainShown ==
  ASSUME NEW string \in Seq(0..127), IsPlain(string)
  PROVE  Shown(string) = {string}
<1>1. Len(string) # BUFFER_SIZE
  BY ExiAssumption DEF IsPlain
<1>2. {n \in DOMAIN string : string[n] = 0} = {}
  <2>1. \A n \in DOMAIN string : string[n] \in 1..127
    BY DEF IsPlain
  <2>2. \A m \in 1..127 : m # 0
    OBVIOUS
  <2> QED
    BY <2>1, <2>2
<1> QED
  BY <1>1, <1>2 DEF Shown, BeforeZero

(* Flushing keeps the invariant's link between stdout and the lines when    *)
(* the line in the buffer ends with it.                                     *)
LEMMA FlushPrintsLine ==
  ASSUME TypeOK, IsPlain(gecko_out_buffer),
         printed = lines, gecko_out_buffer = line,
         EXI_FlushGeckoText, EndLine
  PROVE  printed' = lines' /\ gecko_out_buffer' = line'
<1>1. gecko_out_buffer \in Seq(0..127)
  BY DEF TypeOK
<1>2. Shown(gecko_out_buffer) = {gecko_out_buffer}
  BY <1>1, PlainShown
<1> QED
  BY <1>2 DEF EXI_FlushGeckoText, EndLine

(* Ending a line and adding to it keep the types of the text.               *)
LEMMA TextTypes ==
  ASSUME TypeOK, NEW byte \in Byte, EndLine \/ RecordByte(byte)
  PROVE  lines' \in Seq(Seq(Byte)) /\ line' \in Seq(Byte)
<1>1. lines \in Seq(Seq(Byte)) /\ line \in Seq(Byte)
  BY DEF TypeOK
<1>2. <<>> \in Seq(Byte) /\ Append(line, byte) \in Seq(Byte)
  BY <1>1
<1>3. Append(lines, line) \in Seq(Seq(Byte))
  BY <1>1
<1>4. CASE EndLine
  BY <1>1, <1>2, <1>3, <1>4 DEF EndLine
<1>5. CASE RecordByte(byte) /\ ~EndLine
  BY <1>1, <1>2, <1>5 DEF RecordByte
<1> QED
  BY <1>4, <1>5

(* When the text is plain after a line end, it was plain before it.         *)
LEMMA EndLineKeepsPlain ==
  ASSUME TypeOK, EndLine, AllPlain'
  PROVE  AllPlain
<1>1. lines \in Seq(Seq(Byte)) /\ line \in Seq(Byte)
  BY DEF TypeOK
<1>2. \A n \in DOMAIN lines' : IsPlain(lines'[n])
  BY DEF AllPlain, IsPlain
<1>3. CASE line = <<>>
  <2>1. IsPlain(line)
    BY <1>3, ExiAssumption DEF IsPlain
  <2>2. lines' = lines
    BY <1>3 DEF EndLine
  <2> QED
    BY <1>2, <2>1, <2>2 DEF AllPlain
<1>4. CASE line # <<>>
  <2>1. lines' = Append(lines, line)
    BY <1>4 DEF EndLine
  <2>2. DOMAIN lines' = 1..(Len(lines) + 1) /\ DOMAIN lines = 1..Len(lines)
    BY <1>1, <2>1
  <2>3. /\ \A n \in DOMAIN lines : lines'[n] = lines[n]
        /\ lines'[Len(lines) + 1] = line
    BY <1>1, <2>1, <2>2
  <2>4. Len(lines) \in Nat
    BY <1>1
  <2>5. IsPlain(line)
    <3>1. Len(lines) + 1 \in DOMAIN lines'
      BY <2>2, <2>4
    <3> QED
      BY <1>2, <2>3, <3>1
  <2>6. \A n \in DOMAIN lines : IsPlain(lines[n])
    <3>1. \A n \in DOMAIN lines : n \in DOMAIN lines'
      BY <2>2, <2>4
    <3> QED
      BY <1>2, <2>3, <3>1
  <2> QED
    BY <2>5, <2>6 DEF AllPlain
<1> QED
  BY <1>3, <1>4

(* When the text is plain after one more byte, it was plain before it and   *)
(* the byte is plain.                                                       *)
LEMMA AppendKeepsPlain ==
  ASSUME TypeOK, NEW byte \in Byte,
         line' = Append(line, byte), lines' = lines, AllPlain'
  PROVE  AllPlain /\ byte \in 1..127
<1>1. IsPlain(Append(line, byte)) /\ \A n \in DOMAIN lines : IsPlain(lines[n])
  BY DEF AllPlain, IsPlain
<1>2. line \in Seq(Byte)
  BY DEF TypeOK
<1>3. /\ Len(Append(line, byte)) = Len(line) + 1
      /\ Append(line, byte)[Len(line) + 1] = byte
      /\ \A n \in 1..Len(line) : Append(line, byte)[n] = line[n]
  BY <1>2
<1>4. DOMAIN Append(line, byte) = 1..(Len(line) + 1) /\ DOMAIN line = 1..Len(line)
  BY <1>2
<1>5. byte \in 1..127
  <2>1. Len(line) + 1 \in DOMAIN Append(line, byte)
    BY <1>2, <1>4
  <2> QED
    BY <2>1, <1>1, <1>3 DEF IsPlain
<1>6. IsPlain(line)
  <2>1. Len(line) < BUFFER_SIZE
    <3>1. Len(line) + 1 < BUFFER_SIZE /\ Len(line) \in Nat
      BY <1>1, <1>2, <1>3 DEF IsPlain
    <3> QED
      BY <3>1, ExiAssumption
  <2>2. \A n \in DOMAIN line : n \in DOMAIN Append(line, byte)
    BY <1>2, <1>4
  <2>3. \A n \in DOMAIN line : line[n] \in 1..127
    BY <2>2, <1>1, <1>3, <1>4 DEF IsPlain
  <2> QED
    BY <2>1, <2>3 DEF IsPlain
<1> QED
  BY <1>1, <1>5, <1>6 DEF AllPlain

-----------------------------------------------------------------------------
LEMMA InitInv == Init => IInv
<1> SUFFICES ASSUME Init PROVE IInv
  OBVIOUS
<1>1. TypeOK
  <2>1. gecko_exi_data_buf \in Data
    BY DEF Init, NoReply, Data, Byte
  <2>2. gecko_out_buffer \in Seq(0..127) /\ Len(gecko_out_buffer) <= BUFFER_SIZE
    BY ExiAssumption DEF Init
  <2>3. lines \in Seq(Seq(Byte)) /\ line \in Seq(Byte)
    BY DEF Init
  <2>4. DOMAIN EXI_PPCBootVector = BootWords
    BY DEF Init
  <2> QED
    BY <2>1, <2>2, <2>3, <2>4 DEF Init, TypeOK
<1>2. PlainTextPrinted
  BY DEF Init, PlainTextPrinted
<1> QED
  BY <1>1, <1>2 DEF IInv

(* A byte that is sent keeps both parts.                                    *)
LEMMA SendByteInv ==
  ASSUME IInv, SendByte
  PROVE  /\ gecko_out_buffer' \in Seq(0..127)
         /\ Len(gecko_out_buffer') <= BUFFER_SIZE
         /\ gecko_exi_data_buf' \in Data
         /\ lines' \in Seq(Seq(Byte)) /\ line' \in Seq(Byte)
         /\ PlainTextPrinted'
<1> DEFINE sent == gecko_exi_data_buf.byte
           byte == sent % 128
<1>1. TypeOK /\ PlainTextPrinted /\ sent \in Byte /\ byte \in 0..127
  <2>1. TypeOK /\ PlainTextPrinted
    BY DEF IInv
  <2>2. sent \in Byte
    BY <2>1 DEF TypeOK, Data
  <2>3. \A n \in Nat : n % 128 \in 0..127
    OBVIOUS
  <2>4. byte \in 0..127
    BY <2>2, <2>3 DEF Byte
  <2> QED
    BY <2>1, <2>2, <2>4
<1>2. /\ RecordByte(sent)
      /\ gecko_exi_data_buf' = Sent
      /\ \/ /\ byte = NewLine \/ Len(gecko_out_buffer) >= BUFFER_SIZE
            /\ EXI_FlushGeckoText
         \/ /\ byte # NewLine /\ Len(gecko_out_buffer) < BUFFER_SIZE
            /\ gecko_out_buffer' = Append(gecko_out_buffer, byte)
            /\ UNCHANGED printed
  <2>1. /\ RecordByte(sent)
        /\ gecko_exi_data_buf' = Sent
        /\ \/ /\ byte = NewLine \/ BufferFull
              /\ EXI_FlushGeckoText
           \/ /\ byte # NewLine /\ ~BufferFull
              /\ gecko_out_buffer' = Append(gecko_out_buffer, byte)
              /\ UNCHANGED printed
    BY DEF SendByte
  <2>2. Len(gecko_out_buffer) \in Nat /\ BUFFER_SIZE \in Nat
    BY <1>1, ExiAssumption DEF TypeOK
  <2>3. ~BufferFull => Len(gecko_out_buffer) < BUFFER_SIZE
    BY <2>2 DEF BufferFull
  <2> QED
    BY <2>1, <2>3 DEF BufferFull
<1>3. lines' \in Seq(Seq(Byte)) /\ line' \in Seq(Byte)
  BY <1>1, <1>2, TextTypes
<1>4. gecko_exi_data_buf' \in Data
  BY <1>2 DEF Sent, Data, Byte
<1>5. gecko_out_buffer' \in Seq(0..127) /\ Len(gecko_out_buffer') <= BUFFER_SIZE
  <2>1. gecko_out_buffer \in Seq(0..127) /\ BUFFER_SIZE \in Nat
    BY <1>1, ExiAssumption DEF TypeOK
  <2>2. CASE EXI_FlushGeckoText
    <3>1. gecko_out_buffer' = <<>>
      BY <2>2 DEF EXI_FlushGeckoText
    <3> QED
      BY <3>1, <2>1
  <2>3. CASE /\ Len(gecko_out_buffer) < BUFFER_SIZE
             /\ gecko_out_buffer' = Append(gecko_out_buffer, byte)
    <3>1. Append(gecko_out_buffer, byte) \in Seq(0..127)
      BY <2>1, <1>1
    <3>2. Len(Append(gecko_out_buffer, byte)) = Len(gecko_out_buffer) + 1
      BY <2>1
    <3>3. Len(gecko_out_buffer) \in Nat
      BY <2>1
    <3> QED
      BY <2>1, <2>3, <3>1, <3>2, <3>3
  <2> QED
    BY <1>2, <2>2, <2>3
<1>6. ASSUME AllPlain' PROVE printed' = lines' /\ gecko_out_buffer' = line'
  <2>1. CASE sent = NewLine
    <3>1. EndLine /\ EXI_FlushGeckoText
      BY <2>1, <1>2 DEF RecordByte, NewLine
    <3>2. AllPlain
      BY <3>1, <1>1, <1>6, EndLineKeepsPlain
    <3>3. printed = lines /\ gecko_out_buffer = line /\ IsPlain(gecko_out_buffer)
      BY <3>2, <1>1 DEF PlainTextPrinted, AllPlain
    <3> QED
      BY <3>1, <3>3, <1>1, FlushPrintsLine
  <2>2. CASE sent # NewLine
    <3>1. line' = Append(line, sent) /\ lines' = lines
      BY <2>2, <1>2 DEF RecordByte
    <3>2. AllPlain /\ sent \in 1..127
      BY <3>1, <1>1, <1>6, AppendKeepsPlain
    <3>3. printed = lines /\ gecko_out_buffer = line
      BY <3>2, <1>1 DEF PlainTextPrinted
    <3>4. Len(gecko_out_buffer) < BUFFER_SIZE
      BY <3>2, <3>3 DEF AllPlain, IsPlain
    <3>5. byte = sent
      BY <3>2
    <3>6. Len(gecko_out_buffer) \in Nat
      BY <1>1 DEF TypeOK
    <3>7. gecko_out_buffer' = Append(gecko_out_buffer, byte) /\ printed' = printed
      BY <3>4, <3>5, <3>6, <2>2, <1>2, ExiAssumption
    <3> QED
      BY <3>1, <3>3, <3>5, <3>7
  <2> QED
    BY <2>1, <2>2
<1> QED
  BY <1>3, <1>4, <1>5, <1>6 DEF PlainTextPrinted

LEMMA NextInv == IInv /\ [Next]_vars => IInv'
<1> SUFFICES ASSUME IInv, [Next]_vars PROVE IInv'
  OBVIOUS
<1>0. TypeOK /\ PlainTextPrinted
  BY DEF IInv
<1>1. CASE PrintState
  <2>1. EXI_FlushGeckoText /\ EndLine
    BY <1>1 DEF PrintState
  <2>2. lines' \in Seq(Seq(Byte)) /\ line' \in Seq(Byte)
    <3>1. 0 \in Byte
      BY DEF Byte
    <3> QED
      BY <3>1, <2>1, <1>0, TextTypes
  <2>3. TypeOK'
    BY <1>0, <1>1, <2>1, <2>2, ExiAssumption DEF PrintState, EXI_FlushGeckoText, TypeOK
  <2>4. ASSUME AllPlain' PROVE printed' = lines' /\ gecko_out_buffer' = line'
    <3>1. AllPlain
      BY <2>1, <2>4, <1>0, EndLineKeepsPlain
    <3>2. printed = lines /\ gecko_out_buffer = line /\ IsPlain(gecko_out_buffer)
      BY <3>1, <1>0 DEF PlainTextPrinted, AllPlain
    <3> QED
      BY <3>2, <2>1, <1>0, FlushPrintsLine
  <2> QED
    BY <2>3, <2>4 DEF IInv, PlainTextPrinted
<1>2. ASSUME NEW offset \in DOMAIN Written, NEW word \in Written[offset],
             EXI_WriteRegister(offset, word)
      PROVE  IInv'
  <2>1. /\ WriteBootVector(offset, word)
        /\ WriteChannel(offset, word)
        /\ stopped' = stopped
    BY <1>2 DEF EXI_WriteRegister
  <2>2. DOMAIN EXI_PPCBootVector' = BootWords /\ stopped' \in BOOLEAN
    BY <2>1, <1>0 DEF WriteBootVector, TypeOK
  <2>3. CASE UNCHANGED gecko
    BY <2>2, <2>3, <1>0
    DEF IInv, TypeOK, PlainTextPrinted, AllPlain, IsPlain, gecko, text
  <2>4. CASE WritePARAM(word)
    BY <2>2, <2>4, <1>0
    DEF IInv, TypeOK, PlainTextPrinted, AllPlain, IsPlain, text, WritePARAM
  <2>5. CASE Selects(offset, EXI_IMM_DATA) /\ WriteIMM_DATA(word)
    <3>1. offset = EXI_CHANNEL_SIZE + EXI_IMM_DATA
      BY <2>5, WrittenAssumption DEF Selects, EXI_CHANNEL_SIZE, EXI_IMM_DATA
    <3>2. word \in Data
      BY <3>1, WrittenAssumption
    <3> QED
      BY <3>2, <2>2, <2>5, <1>0
      DEF IInv, TypeOK, PlainTextPrinted, AllPlain, IsPlain, text, WriteIMM_DATA
  <2>6. CASE WriteCONTROL(word)
    <3>1. CASE SendByte
      <4>1. gecko_enabled' = gecko_enabled
        BY <2>6 DEF WriteCONTROL
      <4> QED
        BY <4>1, <3>1, <2>2, <1>0, SendByteInv DEF IInv, TypeOK
    <3>2. CASE OtherCommand
      <4>1. gecko_exi_data_buf' \in Data
        BY <3>2 DEF OtherCommand, Sent, Identified, NoReply, Data, Byte
      <4> QED
        BY <4>1, <3>2, <2>6, <2>2, <1>0
        DEF IInv, TypeOK, PlainTextPrinted, AllPlain, IsPlain, text, OtherCommand, WriteCONTROL
    <3> QED
      BY <2>6, <3>1, <3>2 DEF WriteCONTROL
  <2> QED
    BY <2>1, <2>3, <2>4, <2>5, <2>6 DEF WriteChannel
<1>3. CASE UNCHANGED vars
  BY <1>0, <1>3 DEF IInv, TypeOK, PlainTextPrinted, AllPlain, IsPlain, vars, gecko, text
<1> QED
  BY <1>1, <1>2, <1>3 DEF Next

(* The invariant holds in every reachable state.                            *)
THEOREM ExiInvariant == Spec => []IInv
<1> QED
  BY InitInv, NextInv, PTL DEF Spec

(* The variables keep their types and the text buffer its size.             *)
THEOREM ExiTypeCorrect == Spec => []TypeOK
<1>1. IInv => TypeOK
  BY DEF IInv
<1> QED
  BY <1>1, ExiInvariant, PTL

(* Plain text is printed line by line as it was sent.                       *)
THEOREM PlainTextCorrect == Spec => []PlainTextPrinted
<1>1. IInv => PlainTextPrinted
  BY DEF IInv
<1> QED
  BY <1>1, ExiInvariant, PTL

(* A write to the boot vector leaves the registers of the Gecko alone.      *)
THEOREM BootVectorCorrect == Spec => BootVectorSparesGecko
<1>1. [Next]_vars => [EXI_PPCBootVector' # EXI_PPCBootVector => UNCHANGED gecko]_vars
  <2> SUFFICES ASSUME [Next]_vars, EXI_PPCBootVector' # EXI_PPCBootVector
               PROVE  UNCHANGED gecko
    BY DEF vars
  <2>1. PICK offset \in DOMAIN Written : \E word \in Written[offset] :
               EXI_WriteRegister(offset, word)
    BY DEF Next, vars, PrintState
  <2>2. PICK word \in Written[offset] : EXI_WriteRegister(offset, word)
    BY <2>1
  <2>3. InBootVector(offset) /\ offset \in Nat
    BY <2>2, WrittenAssumption DEF EXI_WriteRegister, WriteBootVector
  <2>4. offset \div EXI_CHANNEL_SIZE # 1
    BY <2>3 DEF InBootVector, EXI_BOOT_VECTOR, EXI_BOOT_VECTOR_END, EXI_CHANNEL_SIZE
  <2> QED
    BY <2>2, <2>4 DEF EXI_WriteRegister, WriteChannel, Selects
<1> QED
  BY <1>1, PTL DEF Spec, BootVectorSparesGecko

-----------------------------------------------------------------------------
(* The composition.                                                        *)

LEMMA StepImplementsExi == [StarletNext]_all => [Next]_vars
<1> SUFFICES ASSUME [StarletNext]_all PROVE [Next]_vars
  OBVIOUS
<1>1. ASSUME NEW address \in BusAddresses, WriteEXI(address) PROVE Next
  BY <1>1 DEF WriteEXI, Next
<1>2. UnknownSwi \/ EmulationStopped => Next
  BY DEF UnknownSwi, EmulationStopped, Next
<1>3. ASSUME NEW address \in BusAddresses,
             \/ WriteMEMI(address) \/ WriteHW(address)
             \/ WriteDropped(address) \/ InvalidAccess(address)
      PROVE  UNCHANGED vars
  BY <1>3 DEF WriteMEMI, WriteHW, WriteDropped, InvalidAccess, all
<1>4. SetUp \/ DebugSwi \/ StopEmulation \/ Dump => UNCHANGED vars
  BY DEF SetUp, DebugSwi, StopEmulation, Dump
<1>5. UNCHANGED all => UNCHANGED vars
  BY DEF all
<1> QED
  BY <1>1, <1>2, <1>3, <1>4, <1>5 DEF StarletNext

(* The CPU, its SWIs and the end of emulation use the EXI registers only as *)
(* ExiGecko says: every step of the composition is one of its steps or none,*)
(* so what is proved of it holds of the whole.                              *)
THEOREM StarletImplementsExi == StarletSpec => Spec
<1>1. StarletInit => Init
  BY DEF StarletInit
<1> QED
  BY <1>1, StepImplementsExi, PTL DEF StarletSpec, Spec

-----------------------------------------------------------------------------
(* The registers that remap memory.  What HollywoodProofs proves of         *)
(* MEM_ARM_SetSRAM is used here through an instance of it.                  *)
HP == INSTANCE HollywoodProofs WITH Written <- HW_Written

(* The three copies of the memory modules, this module's, that of HW and    *)
(* that of HP, define the same.                                             *)
LEMMA GeometryShared ==
  /\ SRAM_SIZE = HP!SRAM_SIZE /\ HW!SRAM_SIZE = HP!SRAM_SIZE
  /\ \A base, size : Span(base, size) = HP!Span(base, size)
                     /\ HW!Span(base, size) = HP!Span(base, size)
  /\ SramWindow = HP!SramWindow /\ HW!SramWindow = HP!SramWindow
  /\ MirrorWindow = HP!MirrorWindow /\ HW!MirrorWindow = HP!MirrorWindow
  /\ Weird1Window = HP!Weird1Window /\ HW!Weird1Window = HP!Weird1Window
  /\ Weird2Window = HP!Weird2Window /\ HW!Weird2Window = HP!Weird2Window
  /\ Pages = HP!Pages /\ HW!Pages = HP!Pages
  /\ \A n : /\ SramAt(n) = HP!SramAt(n) /\ HW!SramAt(n) = HP!SramAt(n)
            /\ HW!Boot0At(n) = HP!Boot0At(n)
            /\ Mem1At(n) = HP!Mem1At(n) /\ Mem2At(n) = HP!Mem2At(n)
  /\ Unmapped = HP!Unmapped /\ HW!Unmapped = HP!Unmapped
<1>1. SRAM_SIZE = HP!SRAM_SIZE /\ HW!SRAM_SIZE = HP!SRAM_SIZE
  BY DEF SRAM_SIZE, HP!SRAM_SIZE, HW!SRAM_SIZE
<1>2. \A base, size : Span(base, size) = HP!Span(base, size)
                     /\ HW!Span(base, size) = HP!Span(base, size)
  BY DEF Span, HP!Span, HW!Span
<1>3. /\ SramWindow = HP!SramWindow /\ HW!SramWindow = HP!SramWindow
      /\ MirrorWindow = HP!MirrorWindow /\ HW!MirrorWindow = HP!MirrorWindow
      /\ Weird1Window = HP!Weird1Window /\ HW!Weird1Window = HP!Weird1Window
      /\ Weird2Window = HP!Weird2Window /\ HW!Weird2Window = HP!Weird2Window
  BY <1>1, <1>2 DEF SramWindow, HP!SramWindow, HW!SramWindow,
     MirrorWindow, HP!MirrorWindow, HW!MirrorWindow, Weird1Window, HP!Weird1Window,
     HW!Weird1Window, Weird2Window, HP!Weird2Window, HW!Weird2Window
<1>4. Pages = HP!Pages /\ HW!Pages = HP!Pages
  BY <1>3 DEF Pages, HP!Pages, HW!Pages
<1>5. /\ \A n : /\ SramAt(n) = HP!SramAt(n) /\ HW!SramAt(n) = HP!SramAt(n)
                /\ HW!Boot0At(n) = HP!Boot0At(n)
                /\ Mem1At(n) = HP!Mem1At(n) /\ Mem2At(n) = HP!Mem2At(n)
      /\ Unmapped = HP!Unmapped /\ HW!Unmapped = HP!Unmapped
  BY DEF SramAt, HP!SramAt, HW!SramAt, HP!Boot0At, HW!Boot0At, Mem1At, HP!Mem1At,
         Mem2At, HP!Mem2At, Unmapped, HP!Unmapped, HW!Unmapped
<1> QED  BY <1>1, <1>2, <1>3, <1>4, <1>5

LEMMA TranslationShared == \A p : MEM_EmuToHost(p) = HP!MEM_EmuToHost(p)
  BY GeometryShared DEF MEM_EmuToHost, HP!MEM_EmuToHost

LEMMA RemappingShared ==
  /\ HW!MemInit => HP!MemInit
  /\ \A i, b : HW!MEM_ARM_SetSRAM(i, b) => HP!MEM_ARM_SetSRAM(i, b)
<1> USE GeometryShared
<1>1. \A m, base, size : HW!uc_mem_unmap(m, base, size) = HP!uc_mem_unmap(m, base, size)
  BY DEF HW!uc_mem_unmap, HP!uc_mem_unmap
<1>2. \A m, base, size, host :
        HW!uc_mem_map_ptr(m, base, size, host) = HP!uc_mem_map_ptr(m, base, size, host)
  <2>1. \A host, n : HW!Advance(host, n) = HP!Advance(host, n)
    BY DEF HW!Advance, HP!Advance
  <2> QED  BY <2>1 DEF HW!uc_mem_map_ptr, HP!uc_mem_map_ptr
<1>3. \A m : HW!UnmapWindows(m) = HP!UnmapWindows(m)
  BY <1>1 DEF HW!UnmapWindows, HP!UnmapWindows
<1>4. \A m, i, b : HW!Remap(m, i, b) = HP!Remap(m, i, b)
  <2>1. \A m, s, w, v : HW!MapWindows(m, s, w, v) = HP!MapWindows(m, s, w, v)
    BY <1>2 DEF HW!MapWindows, HP!MapWindows
  <2>2. \A m : HW!MapSwapped(m) = HP!MapSwapped(m)
    BY <1>2 DEF HW!MapSwapped, HP!MapSwapped
  <2> QED  BY <2>1, <2>2 DEF HW!Remap, HP!Remap
<1>5. \A i, b : HW!SramState(i, b) = HP!SramState(i, b)
  BY DEF HW!SramState, HP!SramState
<1>6. HW!NothingMapped = HP!NothingMapped
  BY DEF HW!NothingMapped, HP!NothingMapped
<1> QED
  BY <1>3, <1>4, <1>5, <1>6 DEF HW!MemInit, HP!MemInit, HW!MEM_ARM_SetSRAM, HP!MEM_ARM_SetSRAM

LEMMA LayoutShared == \A i, b : HW!Layout(i, b) = HP!Layout(i, b)
<1> USE GeometryShared
<1>1. \A i, b, n : /\ HW!InSramWindow(i, b, n) = HP!InSramWindow(i, b, n)
                   /\ HW!InWeird1(i, b, n) = HP!InWeird1(i, b, n)
                   /\ HW!InWeird2(i, b, n) = HP!InWeird2(i, b, n)
  BY DEF HW!InSramWindow, HP!InSramWindow, HW!InWeird1, HP!InWeird1, HW!InWeird2, HP!InWeird2
<1>2. \A i, b, p : HW!Shown(i, b, p) = HP!Shown(i, b, p)
  BY <1>1 DEF HW!Shown, HP!Shown
<1> QED  BY <1>2 DEF HW!Layout, HP!Layout

LEMMA StateShared == \A i, b : HW!SramState(i, b) = HP!SramState(i, b)
  BY DEF HW!SramState, HP!SramState

(* What HollywoodProofs assumes of its constants is assumed of Starlet's.   *)
LEMMA HollywoodAssumed ==
  HW_Written \in [HP!HandledRegisters \cup HP!CachedRegisters -> SUBSET HP!Word]
<1>1. HW!Word = HP!Word
  <2>1. HW!Bit = HP!Bit  BY DEF HW!Bit, HP!Bit
  <2> QED BY <2>1 DEF HW!Word, HP!Word
<1> QED
  BY <1>1, HollywoodAssumption
     DEF HW!HandledRegisters, HP!HandledRegisters, HW!CachedRegisters, HP!CachedRegisters

(* The map is the layout the two registers ask for.                         *)
RegistersAsked ==
  /\ HW_boot0_State \in BOOLEAN
  /\ HW!MapMatchesRegisters

LEMMA MapInit == HW!Init => RegistersAsked
<1> SUFFICES ASSUME HW!Init PROVE RegistersAsked
  OBVIOUS
<1>1. HP!MemInit
  BY RemappingShared DEF HW!Init
<1>2. mem = HP!Layout(FALSE, TRUE) /\ MEM_ARM_SRAMState = HP!SramState(FALSE, TRUE)
  BY <1>1, HP!MemInitBuildsLayout, HollywoodAssumed, HollywoodAssumption, ImageAssumption,
     GeometryAssumption, GeometryShared
<1>3. HW_boot0_State = TRUE /\ HW!iouen = FALSE
  BY DEF HW!Init, HW!iouen
<1> QED
  BY <1>2, <1>3, LayoutShared, StateShared DEF RegistersAsked, HW!MapMatchesRegisters

(* A remapping builds the layout for the registers it leaves behind.        *)
LEMMA MapChanged ==
  ASSUME RegistersAsked, HW_boot0_State' \in BOOLEAN,
         HW!MEM_ARM_SetSRAM(HW!iouen', HW_boot0_State')
  PROVE  RegistersAsked'
<1> DEFINE i == HW!iouen
<1>1. i \in BOOLEAN /\ i' \in BOOLEAN
  BY DEF HW!iouen
<1>2. HP!MEM_ARM_SetSRAM(i', HW_boot0_State')
  BY RemappingShared
<1>3. mem = HP!Layout(i, HW_boot0_State)
  BY LayoutShared DEF RegistersAsked, HW!MapMatchesRegisters
<1>4. HW_boot0_State \in BOOLEAN
  BY DEF RegistersAsked
<1> HIDE DEF i
<1>5. /\ mem' = HP!Layout(i', HW_boot0_State')
      /\ MEM_ARM_SRAMState' = HP!SramState(i', HW_boot0_State')
  BY <1>1, <1>2, <1>3, <1>4, HP!SetSRAMChangesLayout, HollywoodAssumed, HollywoodAssumption,
     ImageAssumption, GeometryAssumption, GeometryShared
<1> QED
  BY <1>5, LayoutShared, StateShared DEF RegistersAsked, HW!MapMatchesRegisters, i

(* A step of anything but the two registers leaves Hollywood alone.         *)
LEMMA OthersKeepHollywood ==
  ASSUME [StarletNext]_all
  PROVE  \/ \E address \in BusAddresses : WriteHW(address)
         \/ UNCHANGED hollywood
<1>1. ASSUME NEW address \in BusAddresses,
             \/ WriteEXI(address) \/ WriteMEMI(address)
             \/ WriteDropped(address) \/ InvalidAccess(address)
      PROVE  UNCHANGED hollywood
  BY <1>1 DEF WriteEXI, WriteMEMI, WriteDropped, InvalidAccess, all
<1>2. \/ SetUp \/ DebugSwi \/ UnknownSwi \/ StopEmulation \/ EmulationStopped \/ Dump
      \/ UNCHANGED all
      => UNCHANGED hollywood
  BY DEF SetUp, DebugSwi, UnknownSwi, StopEmulation, EmulationStopped, Dump, all
<1> QED
  BY <1>1, <1>2 DEF StarletNext

(* The two registers keep the invariant.                                    *)
LEMMA StepKeepsMap == RegistersAsked /\ [StarletNext]_all => RegistersAsked'
<1> SUFFICES ASSUME RegistersAsked, [StarletNext]_all PROVE RegistersAsked'
  OBVIOUS
<1>1. ASSUME NEW address \in BusAddresses, WriteHW(address) PROVE RegistersAsked'
  <2>1. CASE \E value \in HW_Written["HW_SRNPROT"] : HW!WriteSRNPROT(value)
    <3>1. PICK value \in HW_Written["HW_SRNPROT"] : HW!WriteSRNPROT(value)
      BY <2>1
    <3>2. HW!iouen' = (5 \in value) /\ HW_boot0_State' = HW_boot0_State
      BY <3>1 DEF HW!WriteSRNPROT, HW!iouen
    <3>3. HW!MEM_ARM_SetSRAM(HW!iouen', HW_boot0_State')
      BY <3>1, <3>2 DEF HW!WriteSRNPROT
    <3> QED  BY <3>2, <3>3, MapChanged DEF RegistersAsked
  <2>2. CASE \E value \in HW_Written["HW_BOOT0"] : HW!WriteBOOT0(value)
    <3>1. PICK value \in HW_Written["HW_BOOT0"] : HW!WriteBOOT0(value)
      BY <2>2
    <3>2. HW!iouen' = (5 \in HW_SRNPROT_State) /\ HW_boot0_State' = (12 \notin value)
      BY <3>1 DEF HW!WriteBOOT0, HW!iouen
    <3>3. HW!MEM_ARM_SetSRAM(HW!iouen', HW_boot0_State')
      BY <3>1, <3>2 DEF HW!WriteBOOT0
    <3> QED  BY <3>2, <3>3, MapChanged
  <2> QED  BY <1>1, <2>1, <2>2 DEF WriteHW
<1>2. ASSUME UNCHANGED hollywood PROVE RegistersAsked'
  BY <1>2 DEF hollywood, memVars, RegistersAsked, HW!MapMatchesRegisters, HW!iouen
<1> QED
  BY <1>1, <1>2, OthersKeepHollywood

(* The map is the asked-for layout in every reachable state.                *)
THEOREM MapInvariant == StarletSpec => []RegistersAsked
<1>1. StarletInit => RegistersAsked
  BY MapInit DEF StarletInit
<1> QED
  BY <1>1, StepKeepsMap, PTL DEF StarletSpec

(* The map is the one SRNPROT and BOOT0 ask for while the guest talks to    *)
(* every other device in between.                                           *)
THEOREM StarletMap == StarletSpec => []HW!MapMatchesRegisters
<1>1. RegistersAsked => HW!MapMatchesRegisters
  BY DEF RegistersAsked
<1> QED
  BY <1>1, MapInvariant, PTL

(* Every step of the composition is a step of the Hollywood registers or    *)
(* leaves them alone: the bus drives them only as Hollywood says.           *)
THEOREM StarletImplementsHollywood == StarletSpec => HW!Spec
<1>1. StarletInit => HW!Init
  BY DEF StarletInit
<1>2. [StarletNext]_all => [HW!Next]_(HW!vars)
  <2> SUFFICES ASSUME [StarletNext]_all PROVE [HW!Next]_(HW!vars)
    OBVIOUS
  <2>1. ASSUME NEW address \in BusAddresses, WriteHW(address) PROVE HW!Next
    BY <2>1 DEF WriteHW, HW!Next, HW!GuestWrite
  <2>2. ASSUME UNCHANGED hollywood PROVE UNCHANGED HW!vars
    BY <2>2 DEF hollywood, memVars, keyVars, HW!vars, HW!memVars, HW!keyVars, HW!gpioVars
  <2> QED  BY <2>1, <2>2, OthersKeepHollywood
<1> QED
  BY <1>1, <1>2, PTL DEF StarletSpec, HW!Spec

-----------------------------------------------------------------------------
(* The debug console.                                                       *)
ConsoleStep ==
  \/ \E string \in Strings, at \in Origins : DebugOutput(string, at)
  \/ UNCHANGED console

LEMMA StepIsConsoleStep == [StarletNext]_all => ConsoleStep
<1> SUFFICES ASSUME [StarletNext]_all PROVE ConsoleStep
  OBVIOUS
<1>1. DebugSwi => ConsoleStep
  BY DEF DebugSwi, ConsoleStep
<1>2. ASSUME NEW address \in BusAddresses,
             \/ WriteEXI(address) \/ WriteMEMI(address) \/ WriteHW(address)
             \/ WriteDropped(address) \/ InvalidAccess(address)
      PROVE  UNCHANGED console
  BY <1>2 DEF WriteEXI, WriteMEMI, WriteHW, WriteDropped, InvalidAccess, all
<1>3. SetUp \/ UnknownSwi \/ StopEmulation \/ EmulationStopped \/ Dump => UNCHANGED console
  BY DEF SetUp, UnknownSwi, StopEmulation, EmulationStopped, Dump
<1>4. UNCHANGED all => UNCHANGED console
  BY DEF all
<1> QED
  BY <1>1, <1>2, <1>3, <1>4 DEF StarletNext, ConsoleStep

LEMMA FirstCharsType ==
  ASSUME NEW string \in Seq(Char), NEW n \in Nat
  PROVE  /\ FirstChars(string, n) \in Seq(Char)
         /\ Len(FirstChars(string, n)) <= n
         /\ Len(string) <= n => FirstChars(string, n) = string
<1> DEFINE m == IF Len(string) < n THEN Len(string) ELSE n
<1>1. m \in 0..Len(string) /\ m <= n /\ (Len(string) <= n => m = Len(string))
  OBVIOUS
<1>2. SubSeq(string, 1, m) \in Seq(Char) /\ Len(SubSeq(string, 1, m)) = m
  BY <1>1
<1>3. SubSeq(string, 1, Len(string)) = string
  OBVIOUS
<1> QED
  BY <1>1, <1>2, <1>3 DEF FirstChars

LEMMA ReceivedType ==
  ASSUME NEW string \in Seq(Char), NEW at, NEW r \in Received(string, at)
  PROVE  r \in Seq(Char)
<1>1. Fetched(string, at) \subseteq Seq(Char)
  <2>1. FirstChars(string, FETCH_SIZE) \in Seq(Char)
    BY ConsoleAssumption, FirstCharsType
  <2>2. Append(FirstChars(string, FETCH_SIZE), Behind) \in Seq(Char)
    BY <2>1, ConsoleAssumption
  <2>3. <<>> \in Seq(Char)
    OBVIOUS
  <2>4. \A s \in Fetched(string, at) :
          s \in {<<>>, string, FirstChars(string, FETCH_SIZE),
                   Append(FirstChars(string, FETCH_SIZE), Behind)}
    BY DEF Fetched
  <2> QED  BY <2>1, <2>2, <2>3, <2>4, Zenon
<1>2. Strings \subseteq Seq(Char)
  BY ConsoleAssumption
<1> QED
  BY <1>1, <1>2 DEF Received

(* The pages of n bytes start with that of the first and go up from there.  *)
LEMMA PagesFrom ==
  ASSUME NEW at \in Origins, NEW n \in Nat \ {0}
  PROVE  /\ at.page \in Nat /\ at.page \in PagesOf(at, n)
         /\ \A p \in PagesOf(at, n) : p \in Nat /\ p - at.page \in Nat
<1>1. at.page \in Nat /\ at.offset \in Nat /\ PAGE \in Nat \ {0}
  BY ConsoleAssumption
<1>2. at.offset + n - 1 \in Nat
  BY <1>1
<1>3. \A a \in Nat, b \in Nat \ {0} : a \div b \in Nat
  OBVIOUS
<1>4. (at.offset + n - 1) \div PAGE \in Nat
  BY <1>1, <1>2, <1>3
<1> QED
  BY <1>1, <1>4 DEF PagesOf

(* Where the translation of a guest page leads.                             *)
LEMMA Translated ==
  /\ \A p \in Span(MEM1_BASE, MEM1_SIZE) :
       MEM_EmuToHost(p) = Mem1At(p - MEM1_BASE) /\ p \notin Pages
  /\ \A p \in Span(MEM2_BASE, MEM2_SIZE) :
       MEM_EmuToHost(p) = Mem2At(p - MEM2_BASE) /\ p \notin Pages
  /\ \A p \in Weird1Window \cup Weird2Window : MEM_EmuToHost(p) = Unmapped
  /\ \A p \in SramWindow : MEM_EmuToHost(p) = SramAt(p - SRAM_BASE)
  /\ \A p \in MirrorWindow : MEM_EmuToHost(p) = SramAt(p - SRAM_MIRROR)
<1> DEFINE Mem1Span == Span(MEM1_BASE, MEM1_SIZE)
           Mem2Span == Span(MEM2_BASE, MEM2_SIZE)
<1>1. /\ \A p \in Mem1Span : p \notin Pages
      /\ \A p \in Mem2Span : p \notin Pages /\ p \notin Mem1Span
      /\ \A p \in Weird1Window \cup Weird2Window :
           /\ p \notin SramWindow /\ p \notin MirrorWindow
           /\ p \notin Mem1Span /\ p \notin Mem2Span
      /\ \A p \in MirrorWindow : p \notin SramWindow
  BY GeometryAssumption
     DEF Span, SramWindow, MirrorWindow, Weird1Window, Weird2Window, Pages, SRAM_SIZE
<1>2. SramWindow \subseteq Pages /\ MirrorWindow \subseteq Pages
  BY DEF Pages
<1> QED
  BY <1>1, <1>2, Zenon DEF MEM_EmuToHost

(* What the map shows the CPU where the code can read.                      *)
LEMMA MapShows ==
  ASSUME RegistersAsked
  PROVE  /\ MEM_ARM_SRAMState \in {0, 2} =>
              \A p \in SramWindow \cup MirrorWindow : mem[p] = MEM_EmuToHost(p)
         /\ \A p \in Weird1Window \cup Weird2Window : mem[p] # Unmapped
<1> DEFINE i == HW!iouen
<1>1. i \in BOOLEAN /\ HW_boot0_State \in BOOLEAN
  BY DEF HW!iouen, RegistersAsked
<1>2. mem = HP!Layout(i, HW_boot0_State) /\ MEM_ARM_SRAMState = HP!SramState(i, HW_boot0_State)
  BY LayoutShared, StateShared DEF RegistersAsked, HW!MapMatchesRegisters
<1> HIDE DEF i
<1>3. MEM_ARM_SRAMState \in {0, 2} => i = FALSE
  BY <1>1, <1>2 DEF HP!SramState
<1>4. ASSUME i = FALSE, NEW p \in SramWindow \cup MirrorWindow
      PROVE  mem[p] = MEM_EmuToHost(p)
  BY <1>1, <1>2, <1>4, HP!LayoutTranslated, HollywoodAssumed, HollywoodAssumption,
     ImageAssumption, GeometryAssumption, GeometryShared, TranslationShared
<1>5. ASSUME NEW p \in Weird1Window \cup Weird2Window PROVE mem[p] # Unmapped
  <2>1. p \in HP!Pages
    BY GeometryShared DEF Pages
  <2>2. p \notin HP!Gap(SRAM_BASE) \cup HP!Gap(SRAM_MIRROR)
    BY GeometryAssumption DEF HP!Gap, Weird1Window, Weird2Window, Span, SRAM_SIZE
  <2>3. HP!Shown(i, HW_boot0_State, p) # HP!Unmapped
    BY <1>1, <2>1, <2>2, HP!ShownPages, HollywoodAssumed, HollywoodAssumption,
       ImageAssumption, GeometryAssumption, GeometryShared
  <2> QED  BY <1>2, <2>1, <2>3, GeometryShared DEF HP!Layout
<1> QED
  BY <1>3, <1>4, <1>5

(* Where the code can read, it reads what was handed over.                  *)
LEMMA ReadableReceived ==
  ASSUME RegistersAsked, NEW string \in Seq(Char), NEW at \in Origins,
         Readable(string, at), NEW r \in Received(string, at)
  PROVE  r = string
<1> DEFINE pages == PagesOf(at, Len(string) + 1)
<1>1. /\ at.page \in Nat /\ at.page \in pages
      /\ \A p \in pages : p \in Nat /\ p - at.page \in Nat
  <2>1. Len(string) + 1 \in Nat \ {0}
    OBVIOUS
  <2> QED  BY <2>1, PagesFrom
<1>2. /\ {SRAM_BASE, SRAM_MIRROR, MEM1_BASE, MEM2_BASE} \subseteq Nat
      /\ \A n : /\ SramAt(n) # Unmapped /\ Mem1At(n) # Unmapped /\ Mem2At(n) # Unmapped
      /\ \A k, n : /\ Advance(SramAt(k), n) = SramAt(k + n)
                   /\ Advance(Mem1At(k), n) = Mem1At(k + n)
                   /\ Advance(Mem2At(k), n) = Mem2At(k + n)
  BY GeometryAssumption DEF SramAt, Mem1At, Mem2At, Unmapped, Advance
<1>3. \A p \in pages, base \in Nat : (at.page - base) + (p - at.page) = p - base
  BY <1>1
<1>4. SameBytes(string, at) /\ MEM_EmuToHost(at.page) # Unmapped => r = string
  BY DEF Received
<1> HIDE DEF pages
<1>5. CASE pages \subseteq Span(MEM1_BASE, MEM1_SIZE)
  <2>1. \A p \in pages : CpuSees(p) = Mem1At(p - MEM1_BASE)
    BY <1>5, Translated DEF CpuSees
  <2>2. MEM_EmuToHost(at.page) = Mem1At(at.page - MEM1_BASE)
    BY <1>1, <1>5, Translated
  <2> QED  BY <1>2, <1>3, <1>4, <2>1, <2>2 DEF SameBytes, pages
<1>6. CASE pages \subseteq Span(MEM2_BASE, MEM2_SIZE)
  <2>1. \A p \in pages : CpuSees(p) = Mem2At(p - MEM2_BASE)
    BY <1>6, Translated DEF CpuSees
  <2>2. MEM_EmuToHost(at.page) = Mem2At(at.page - MEM2_BASE)
    BY <1>1, <1>6, Translated
  <2> QED  BY <1>2, <1>3, <1>4, <2>1, <2>2 DEF SameBytes, pages
<1>7. CASE MEM_ARM_SRAMState \in {0, 2} /\ pages \subseteq SramWindow
  <2>1. \A p \in pages : CpuSees(p) = SramAt(p - SRAM_BASE)
    BY <1>7, MapShows, Translated DEF CpuSees, Pages
  <2>2. MEM_EmuToHost(at.page) = SramAt(at.page - SRAM_BASE)
    BY <1>1, <1>7, Translated
  <2> QED  BY <1>2, <1>3, <1>4, <2>1, <2>2 DEF SameBytes, pages
<1>8. CASE MEM_ARM_SRAMState \in {0, 2} /\ pages \subseteq MirrorWindow
  <2>1. \A p \in pages : CpuSees(p) = SramAt(p - SRAM_MIRROR)
    BY <1>8, MapShows, Translated DEF CpuSees, Pages
  <2>2. MEM_EmuToHost(at.page) = SramAt(at.page - SRAM_MIRROR)
    BY <1>1, <1>8, Translated
  <2> QED  BY <1>2, <1>3, <1>4, <2>1, <2>2 DEF SameBytes, pages
<1>9. CASE /\ PagesOf(at, FETCH_SIZE) \subseteq Weird1Window \cup Weird2Window
           /\ Len(string) < FETCH_SIZE
  <2>1. MEM_EmuToHost(at.page) = Unmapped
    BY <1>9, PagesFrom, Translated, ConsoleAssumption
  <2>2. Visible(PagesOf(at, FETCH_SIZE))
    BY <1>9, MapShows DEF Visible, CpuSees, Pages
  <2> QED  BY <1>9, <2>1, <2>2 DEF Received, Fetched
<1> QED
  BY <1>5, <1>6, <1>7, <1>8, <1>9 DEF Readable, pages

(* A string there is room for is gathered as it is.                         *)
LEMMA RoomGathers ==
  ASSUME RegistersAsked, ConsoleTypeOK, debug_out_buffer = pending,
         NEW string \in Seq(Char), NEW at \in Origins,
         RoomFor(string, at), NEW r \in Received(string, at)
  PROVE  Gathered(r) = pending \o string
<1>1. r = string
  BY ReadableReceived DEF RoomFor
<1>2. pending \o string \in Seq(Char) /\ Len(pending \o string) <= DEBUG_SIZE - 1
  BY ConsoleAssumption DEF ConsoleTypeOK, RoomFor
<1>3. (IF keepsPrefix THEN debug_out_buffer ELSE <<>>) = pending
  BY DEF RoomFor
<1>4. DEBUG_SIZE - 1 \in Nat
  BY ConsoleAssumption
<1>5. FirstChars(pending \o string, DEBUG_SIZE - 1) = pending \o string
  BY <1>2, <1>4, FirstCharsType
<1> QED
  BY <1>1, <1>3, <1>5 DEF Gathered

ConsoleInv == ConsoleTypeOK /\ DebugTextPrinted

LEMMA DebugOutputTypes ==
  ASSUME ConsoleTypeOK, NEW string \in Strings, NEW at \in Origins,
         DebugOutput(string, at)
  PROVE  ConsoleTypeOK'
<1>1. string \in Seq(Char) /\ EndOfLine \in Char
  BY ConsoleAssumption
<1>2. PICK r \in Received(string, at) : Gather(Gathered(r))
  BY DEF DebugOutput
<1> DEFINE joined == Gathered(r)
<1>3. joined \in Seq(Char) /\ Len(joined) <= DEBUG_SIZE - 1
  <2>1. r \in Seq(Char)
    BY <1>1, <1>2, ReceivedType
  <2>2. (IF keepsPrefix THEN debug_out_buffer ELSE <<>>) \o r \in Seq(Char)
    BY <2>1 DEF ConsoleTypeOK
  <2>3. DEBUG_SIZE - 1 \in Nat
    BY ConsoleAssumption
  <2> QED  BY <2>2, <2>3, FirstCharsType DEF Gathered
<1> HIDE DEF joined
<1>4. /\ debug_out_buffer' \in Seq(Char)
      /\ Len(debug_out_buffer') <= DEBUG_SIZE - 1
      /\ ~EndsLine(debug_out_buffer')
      /\ debugOut' \in Seq(Char)
  <2>1. CASE EndsLine(joined) /\ Show(joined)
    BY <1>3, <2>1, ConsoleAssumption DEF Show, EndsLine, ConsoleTypeOK
  <2>2. CASE joined = <<>> /\ ShowNothing
    <3>1. /\ <<>> \in Seq(Char) /\ Len(<<>>) <= DEBUG_SIZE - 1 /\ ~EndsLine(<<>>)
          /\ Append(debugOut, EndOfLine) \in Seq(Char)
      BY <1>1, ConsoleAssumption DEF EndsLine, ConsoleTypeOK
    <3> QED  BY <2>2, <3>1 DEF ShowNothing, ConsoleTypeOK
  <2>3. CASE ~EndsLine(joined) /\ debug_out_buffer' = joined /\ UNCHANGED debugOut
    BY <1>3, <2>3 DEF ConsoleTypeOK
  <2> QED  BY <1>2, <2>1, <2>2, <2>3 DEF Gather, joined
<1>5. ended' \in Seq(Char) /\ pending' \in Seq(Char) /\ whole' \in BOOLEAN
  <2>1. pending \o string \in Seq(Char) /\ ended \in Seq(Char)
    BY <1>1 DEF ConsoleTypeOK
  <2>2. ended \o (pending \o string) \in Seq(Char)
    BY <2>1
  <2>3. RecordString(string, at)
    BY DEF DebugOutput
  <2>4. whole' \in BOOLEAN
    BY <2>3 DEF RecordString
  <2>5. ended' \in Seq(Char) /\ pending' \in Seq(Char)
    <3>1. CASE ended' = ended \o (pending \o string) /\ pending' = <<>>
      BY <2>2, <3>1
    <3>2. CASE pending' = pending \o string /\ UNCHANGED ended
      BY <2>1, <3>2
    <3>3. CASE ended' = <<>> /\ pending' = <<>>
      BY <3>3
    <3> QED  BY <2>3, <3>1, <3>2, <3>3 DEF RecordString
  <2> QED  BY <2>4, <2>5
<1> QED
  BY <1>4, <1>5 DEF ConsoleTypeOK, DebugOutput

LEMMA DebugOutputPrints ==
  ASSUME RegistersAsked, ConsoleInv, NEW string \in Strings, NEW at \in Origins,
         DebugOutput(string, at), whole'
  PROVE  debugOut' = ended' /\ debug_out_buffer' = pending'
<1>1. string \in Seq(Char)
  BY ConsoleAssumption
<1>2. whole /\ RoomFor(string, at)
  BY DEF DebugOutput, RecordString
<1>3. debugOut = ended /\ debug_out_buffer = pending /\ ConsoleTypeOK
  BY <1>2 DEF ConsoleInv, DebugTextPrinted
<1> DEFINE joined == pending \o string
<1>4. Gather(joined)
  BY <1>1, <1>2, <1>3, RoomGathers DEF DebugOutput
<1>5. joined # <<>>
  BY <1>2 DEF RoomFor
<1>6. RecordString(string, at)
  BY DEF DebugOutput
<1>7. CASE EndsLine(joined)
  BY <1>3, <1>4, <1>5, <1>6, <1>7 DEF Gather, Show, RecordString
<1>8. CASE ~EndsLine(joined)
  BY <1>3, <1>4, <1>5, <1>6, <1>8 DEF Gather, RecordString
<1> QED
  BY <1>7, <1>8

LEMMA ConsoleStepInv == RegistersAsked /\ ConsoleInv /\ ConsoleStep => ConsoleInv'
<1> SUFFICES ASSUME RegistersAsked, ConsoleInv, ConsoleStep PROVE ConsoleInv'
  OBVIOUS
<1>1. ASSUME NEW string \in Strings, NEW at \in Origins, DebugOutput(string, at)
      PROVE  ConsoleInv'
  BY <1>1, DebugOutputTypes, DebugOutputPrints DEF ConsoleInv, DebugTextPrinted
<1>2. CASE UNCHANGED console
  BY <1>2 DEF console, ConsoleInv, ConsoleTypeOK, DebugTextPrinted, EndsLine
<1> QED
  BY <1>1, <1>2 DEF ConsoleStep

THEOREM ConsoleInvariant == StarletSpec => []ConsoleInv
<1>1. StarletInit => ConsoleInv
  BY ConsoleAssumption
     DEF StarletInit, ConsoleInit, ConsoleInv, ConsoleTypeOK, DebugTextPrinted, EndsLine
<1> QED
  BY <1>1, MapInvariant, StepIsConsoleStep, ConsoleStepInv, PTL DEF StarletSpec

(* What IOS hands over comes out character by character, for any pieces,    *)
(* lines and places there is room for, whatever is remapped in between.     *)
THEOREM DebugTextCorrect == StarletSpec => []DebugTextPrinted
<1>1. ConsoleInv => DebugTextPrinted
  BY DEF ConsoleInv
<1> QED
  BY <1>1, ConsoleInvariant, PTL

LEMMA FullStaysFull ==
  ASSUME ConsoleTypeOK, keepsPrefix, Len(debug_out_buffer) = DEBUG_SIZE - 1,
         NEW r \in Seq(Char)
  PROVE  Gathered(r) = debug_out_buffer
<1>1. debug_out_buffer \in Seq(Char) /\ Len(debug_out_buffer) \in Nat
  BY DEF ConsoleTypeOK
<1>2. Len(debug_out_buffer \o r) >= Len(debug_out_buffer)
  BY <1>1
<1>3. SubSeq(debug_out_buffer \o r, 1, Len(debug_out_buffer)) = debug_out_buffer
  BY <1>1
<1> QED
  BY <1>1, <1>2, <1>3 DEF Gathered, FirstChars

(* A buffer filled without a newline at its end is never printed, whatever  *)
(* the guest hands over after it.                                           *)
THEOREM JamCorrect == StarletSpec => JamIsForever
<1> DEFINE Jammed == keepsPrefix /\ Len(debug_out_buffer) = DEBUG_SIZE - 1
           Silent == UNCHANGED <<debug_out_buffer, debugOut>>
<1>1. ConsoleTypeOK /\ ConsoleStep /\ Jammed => Silent
  <2> SUFFICES ASSUME ConsoleTypeOK, ConsoleStep, Jammed PROVE Silent
    OBVIOUS
  <2>1. ASSUME NEW string \in Strings, NEW at \in Origins, DebugOutput(string, at)
        PROVE  Silent
    <3>1. PICK r \in Received(string, at) : Gather(Gathered(r))
      BY <2>1 DEF DebugOutput
    <3>2. string \in Seq(Char)
      BY ConsoleAssumption
    <3>3. r \in Seq(Char)
      BY <3>1, <3>2, ReceivedType
    <3>4. Gather(debug_out_buffer)
      BY <3>1, <3>3, FullStaysFull
    <3>5. debug_out_buffer # <<>> /\ ~EndsLine(debug_out_buffer)
      BY ConsoleAssumption DEF ConsoleTypeOK
    <3> QED  BY <3>4, <3>5 DEF Gather
  <2>2. CASE UNCHANGED console
    BY <2>2 DEF console
  <2> QED  BY <2>1, <2>2 DEF ConsoleStep
<1>2. ConsoleInv /\ [StarletNext]_all => [Jammed => Silent]_console
  BY <1>1, StepIsConsoleStep DEF ConsoleInv
<1> QED
  BY <1>2, ConsoleInvariant, PTL DEF StarletSpec, JamIsForever

-----------------------------------------------------------------------------
(* What is proved of the EXI registers alone holds in the composition: text *)
(* that fits comes out as it was sent.                                      *)
THEOREM StarletPlainText == StarletSpec => []PlainTextPrinted
  BY StarletImplementsExi, PlainTextCorrect, PTL

(* A write to the boot vector does not reach the Gecko by any address of    *)
(* the bus.                                                                 *)
THEOREM StarletBootVector == StarletSpec => BootVectorSparesGecko
  BY StarletImplementsExi, BootVectorCorrect, PTL

OwnOK ==
  /\ cpu \in {"setup", "running", "stopping", "ended", "failed", "crashed"}
  /\ dumps \in 0..DUMPS
  /\ flushreq \in 0..(2^16 - 1) /\ asked \in 0..(2^16 - 1)
  /\ stopped <=> cpu \in {"ended", "crashed"}

LEMMA OwnStep == TypeOK /\ OwnOK /\ [StarletNext]_all => OwnOK'
<1> SUFFICES ASSUME TypeOK, OwnOK, [StarletNext]_all PROVE OwnOK'
  OBVIOUS
<1>1. ASSUME NEW address \in BusAddresses, WriteEXI(address) PROVE OwnOK'
  BY <1>1 DEF WriteEXI, EXI_WriteRegister, OwnOK
<1>2. ASSUME NEW address \in BusAddresses, WriteMEMI(address) PROVE OwnOK'
  <2>1. flushreq' \in 0..(2^16 - 1) /\ asked' \in 0..(2^16 - 1)
    BY <1>2, StarletAssumption DEF WriteMEMI, MEMI_WriteRegister, OwnOK
  <2> QED  BY <1>2, <2>1 DEF WriteMEMI, OwnOK, vars
<1>3. ASSUME NEW address \in BusAddresses, WriteDropped(address) \/ WriteHW(address)
      PROVE  OwnOK'
  BY <1>3 DEF WriteDropped, WriteHW, all, vars, own, OwnOK
<1>4. ASSUME NEW address \in BusAddresses, InvalidAccess(address) PROVE OwnOK'
  BY <1>4 DEF InvalidAccess, Running, vars, OwnOK
<1>5. SetUp => OwnOK'
  BY DEF SetUp, vars, OwnOK
<1>6. DebugSwi => OwnOK'
  BY DEF DebugSwi, vars, own, OwnOK
<1>7. UnknownSwi => OwnOK'
  BY DEF UnknownSwi, Running, own, OwnOK
<1>8. StopEmulation => OwnOK'
  BY DEF StopEmulation, Running, vars, OwnOK
<1>9. EmulationStopped => OwnOK'
  BY DEF EmulationStopped, OwnOK
<1>10. Dump => OwnOK'
  BY DEF Dump, DUMPS, vars, OwnOK
<1>11. UNCHANGED all => OwnOK'
  BY DEF all, vars, own, OwnOK
<1> QED
  BY <1>1, <1>2, <1>3, <1>4, <1>5, <1>6, <1>7, <1>8, <1>9, <1>10, <1>11 DEF StarletNext

(* The variables keep their types, the debug buffer has room for its zero,  *)
(* and the Gecko has had its last flush exactly when emulation has ended.   *)
THEOREM StarletTypeCorrect == StarletSpec => []StarletTypeOK
<1>1. StarletInit => OwnOK
  BY DEF StarletInit, Init, OwnOK, DUMPS
<1>2. StarletSpec => []TypeOK
  BY StarletImplementsExi, ExiTypeCorrect, PTL
<1>3. StarletSpec => []OwnOK
  BY <1>1, <1>2, OwnStep, PTL DEF StarletSpec
<1>4. TypeOK /\ OwnOK /\ ConsoleInv => StarletTypeOK
  BY DEF OwnOK, ConsoleInv, StarletTypeOK
<1> QED
  BY <1>2, <1>3, <1>4, ConsoleInvariant, PTL

-----------------------------------------------------------------------------
(* The register map and the memory interface.                               *)
(* The ten regions are of whole pages and none touches another.             *)
LEMMA RegionsApart ==
  /\ Len(Regions) = 10
  /\ \A n \in 1..10 : Regions[n].base % UC_PAGE = 0 /\ Regions[n].size % UC_PAGE = 0
  /\ \A m, n \in 1..10 : m # n => ~Touches(Regions[m], Regions[n])
<1> USE DEF Regions, Region, ALIGN_SIZE, UC_PAGE, Ahb, REG_HW, REG_AES, REG_SHA, REG_NAND,
            REG_EHCI, REG_EXI, REG_WTF, REG_WTF_SZ, REG_MEMI
<1>1. Len(Regions) = 10
  OBVIOUS
<1>2. \A n \in 1..10 : Regions[n].base % UC_PAGE = 0 /\ Regions[n].size % UC_PAGE = 0
  OBVIOUS
<1>3. \A m, n \in 1..10 : m # n => ~Touches(Regions[m], Regions[n])
  BY DEF Touches
<1> QED
  BY <1>1, <1>2, <1>3

(* Each call of ARM_Main finds its region aligned and clear of those before *)
(* it: no region is refused.                                                *)
LEMMA NextIsMapped ==
  ASSUME NEW n \in 1..10
  PROVE  uc_mmio_map({Regions[m] : m \in 1..(n - 1)}, Regions[n]) = {Regions[m] : m \in 1..n}
<1>1. \A m \in 1..(n - 1) : ~Touches(Regions[n], Regions[m])
  <2> TAKE m \in 1..(n - 1)
  <2> m \in 1..10 /\ m # n
    OBVIOUS
  <2> QED  BY RegionsApart
<1>2. {Regions[m] : m \in 1..(n - 1)} \cup {Regions[n]} = {Regions[m] : m \in 1..n}
  <2>1. \A m : m \in 1..n <=> m \in 1..(n - 1) \/ m = n
    OBVIOUS
  <2> QED  BY <2>1
<1> QED
  BY <1>1, <1>2, RegionsApart DEF uc_mmio_map

(* The recursion has a solution, the prefixes of the calls.                 *)
LEMMA MappedDefined ==
  MappedAfter = [n \in 0..10 |->
                   IF n = 0 THEN {} ELSE uc_mmio_map(MappedAfter[n - 1], Regions[n])]
<1> DEFINE Def(g) == [n \in 0..10 |-> IF n = 0 THEN {} ELSE uc_mmio_map(g[n - 1], Regions[n])]
           prefixes == [n \in 0..10 |-> {Regions[m] : m \in 1..n}]
<1>1. ASSUME NEW n \in 0..10
      PROVE  prefixes[n] = IF n = 0 THEN {} ELSE uc_mmio_map(prefixes[n - 1], Regions[n])
  <2>1. CASE n = 0
    BY <2>1
  <2>2. CASE n # 0
    <3>1. n \in 1..10 /\ n - 1 \in 0..10
      BY <2>2
    <3>2. prefixes[n] = {Regions[m] : m \in 1..n}
      OBVIOUS
    <3>3. prefixes[n - 1] = {Regions[m] : m \in 1..(n - 1)}
      BY <3>1
    <3> HIDE DEF prefixes
    <3> QED  BY <2>2, <3>1, <3>2, <3>3, NextIsMapped
  <2> QED  BY <2>1, <2>2
<1>2. prefixes = Def(prefixes)
  <2> HIDE DEF prefixes
  <2>1. prefixes = [n \in 0..10 |-> prefixes[n]]
    BY DEF prefixes
  <2>2. [n \in 0..10 |-> prefixes[n]] = Def(prefixes)
    BY <1>1
  <2> QED  BY <2>1, <2>2
<1> HIDE DEF prefixes
<1>3. MappedAfter = CHOOSE g : g = Def(g)
  BY RegionsApart DEF MappedAfter
<1> QED
  BY <1>2, <1>3

(* Every region that ARM_Main maps is mapped.                               *)
THEOREM EveryRegionMapped == Mapped = {Regions[n] : n \in 1..Len(Regions)}
<1> DEFINE Prefix(n) == {Regions[m] : m \in 1..n}
<1>1. MappedAfter[0] = Prefix(0)
  <2>1. MappedAfter[0] = {}
    BY MappedDefined
  <2> QED  BY <2>1
<1>2. ASSUME NEW n \in 1..10, MappedAfter[n - 1] = Prefix(n - 1)
      PROVE  MappedAfter[n] = Prefix(n)
  <2>1. n \in 0..10 /\ n # 0
    OBVIOUS
  <2>2. MappedAfter[n] = uc_mmio_map(MappedAfter[n - 1], Regions[n])
    BY <2>1, MappedDefined
  <2> QED  BY <1>2, <2>2, NextIsMapped
<1> HIDE DEF Prefix
<1>3. MappedAfter[5] = Prefix(5)
  BY <1>1, <1>2
<1>4. MappedAfter[10] = Prefix(10)
  BY <1>2, <1>3
<1> QED
  BY <1>4, RegionsApart DEF Mapped, Prefix

(* The region that the memory interface and the controller share.           *)
MemiRegion == Region("MEMI", Ahb(REG_MEMI), \h80)

(* It is the tenth, of one page.                                            *)
LEMMA MemiRegionValue ==
  /\ MemiRegion.device = "MEMI" /\ MemiRegion = Regions[10]
  /\ MemiRegion.base = Ahb(REG_MEMI) /\ MemiRegion.size = UC_PAGE
  BY DEF MemiRegion, Regions, Region, ALIGN_SIZE, UC_PAGE

(* An address in the region of the memory interface is answered by it.      *)
LEMMA OnlyInMemi ==
  ASSUME NEW address \in Nat, Within(address, MemiRegion)
  PROVE  At(address) = [device |-> "MEMI", offset |-> address - MemiRegion.base]
<1>1. MemiRegion \in Mapped
  BY MemiRegionValue, EveryRegionMapped, RegionsApart
<1>2. ASSUME NEW r \in Mapped, Within(address, r) PROVE r = MemiRegion
  <2>1. PICK n \in 1..10 : r = Regions[n]
    BY EveryRegionMapped, RegionsApart
  <2>2. r.base \in Nat /\ r.size \in Nat /\ MemiRegion.base \in Nat /\ MemiRegion.size \in Nat
    BY <2>1, MemiRegionValue DEF Regions, Region, ALIGN_SIZE, UC_PAGE, Ahb, REG_HW, REG_AES,
       REG_SHA, REG_NAND, REG_EHCI, REG_EXI, REG_WTF, REG_WTF_SZ, REG_MEMI
  <2>3. Touches(r, MemiRegion)
    BY <1>2, <2>2 DEF Within, Touches
  <2> QED  BY <2>1, <2>3, RegionsApart, MemiRegionValue
<1>3. (CHOOSE r \in Mapped : Within(address, r)) = MemiRegion
  BY <1>1, <1>2
<1> QED
  BY <1>1, <1>3, MemiRegionValue DEF At

(* The two flush registers are the ones of the memory interface at 0x228    *)
(* and 0x22a.                                                               *)
LEMMA FlushRegisters ==
  /\ At(FlushRequest) = [device |-> "MEMI", offset |-> \h228]
  /\ At(FlushAck) = [device |-> "MEMI", offset |-> \h22a]
<1> DEFINE base == MemiRegion.base
<1>1. base = Ahb(REG_MEMI) /\ MemiRegion.size = \h400
  BY MemiRegionValue DEF UC_PAGE
<1>2. FlushRequest = base + \h228 /\ FlushAck = base + \h22a /\ base \in Nat
  BY <1>1 DEF FlushRequest, FlushAck, Ahb, REG_MEMC, REG_MEMI, MEM_AHMFLUSH, MEM_AHMFLUSH_ACK
<1>3. Within(FlushRequest, MemiRegion) /\ Within(FlushAck, MemiRegion)
  BY <1>1, <1>2 DEF Within
<1> HIDE DEF base
<1>4. FlushRequest - base = \h228 /\ FlushAck - base = \h22a
  BY <1>2
<1> QED
  BY <1>2, <1>3, <1>4, OnlyInMemi DEF base

(* No other address that the interface answers for is taken for a request.  *)
LEMMA OnlyRequestAsks ==
  ASSUME NEW address \in Nat, At(address).device = "MEMI"
  PROVE  McOffset(At(address).offset) = MEM_AHMFLUSH <=> address = FlushRequest
<1> DEFINE base == MemiRegion.base
           r == CHOOSE r \in Mapped : Within(address, r)
<1>1. (\E q \in Mapped : Within(address, q)) /\ r.device = "MEMI"
  BY DEF At
<1>2. r \in Mapped /\ Within(address, r)
  BY <1>1
<1>3. r = MemiRegion
  <2>1. PICK n \in 1..10 : r = Regions[n]
    BY <1>2, EveryRegionMapped, RegionsApart
  <2>2. Regions[n].device = "MEMI" => n = 10
    BY DEF Regions, Region
  <2> QED  BY <1>1, <2>1, <2>2, MemiRegionValue
<1>4. At(address).offset = address - base
  BY <1>2, <1>3, OnlyInMemi
<1>5. base \in Nat /\ FlushRequest = base + \h228
  BY MemiRegionValue
     DEF FlushRequest, Ahb, REG_MEMC, REG_MEMI, MEM_AHMFLUSH
<1> HIDE DEF base
<1>6. McOffset(address - base) = MEM_AHMFLUSH <=> address - base = \h228
  BY <1>5 DEF McOffset, MEM_AHMFLUSH, REG_MEMC, REG_MEMI
<1> QED
  BY <1>4, <1>5, <1>6

(* A read of the acknowledge register gives the request.                    *)
LEMMA AckReads == GuestReads(FlushAck) = flushreq
<1>1. McOffset(\h22a) = MEM_AHMFLUSH_ACK
  BY DEF McOffset, MEM_AHMFLUSH_ACK, REG_MEMC, REG_MEMI
<1> QED
  <2>1. At(FlushAck).device = "MEMI" /\ At(FlushAck).offset = \h22a
    BY FlushRegisters
  <2>2. GuestReads(FlushAck) = MEMI_ReadRegister(At(FlushAck).offset)
    BY <2>1, Zenon DEF GuestReads
  <2> QED  BY <1>1, <2>1, <2>2 DEF MEMI_ReadRegister

(* The request that is kept is the one asked for last.                      *)
FlushInv == flushreq = asked

(* Every step keeps it so.                                                  *)
LEMMA FlushStep == FlushInv /\ [StarletNext]_all => FlushInv'
<1> USE DEF FlushInv
<1> SUFFICES ASSUME FlushInv, [StarletNext]_all PROVE flushreq' = asked'
  OBVIOUS
<1>1. ASSUME NEW address \in BusAddresses, WriteMEMI(address) PROVE flushreq' = asked'
  <2>1. address \in Nat /\ At(address).device = "MEMI"
    BY <1>1, StarletAssumption DEF WriteMEMI, Bus
  <2>2. PICK value \in FlushValues :
          /\ MEMI_WriteRegister(At(address).offset, value)
          /\ asked' = IF address = FlushRequest THEN value ELSE asked
    BY <1>1 DEF WriteMEMI, Bus
  <2> QED  BY <2>1, <2>2, OnlyRequestAsks DEF MEMI_WriteRegister
<1>2. ASSUME NEW address \in BusAddresses,
             \/ WriteEXI(address) \/ WriteHW(address)
             \/ WriteDropped(address) \/ InvalidAccess(address)
      PROVE  UNCHANGED <<flushreq, asked>>
  BY <1>2 DEF WriteEXI, WriteHW, WriteDropped, InvalidAccess, all, own
<1>3. \/ SetUp \/ DebugSwi \/ UnknownSwi \/ StopEmulation \/ EmulationStopped \/ Dump
      \/ UNCHANGED all
      => UNCHANGED <<flushreq, asked>>
  BY DEF SetUp, DebugSwi, UnknownSwi, StopEmulation, EmulationStopped, Dump, all, own
<1> QED
  BY <1>1, <1>2, <1>3 DEF StarletNext

(* A guest that asks the memory controller for a flush reads its request    *)
(* back, whatever it writes to any other address.                           *)
THEOREM FlushCorrect == StarletSpec => []FlushAcknowledged
<1>1. StarletInit => FlushInv
  BY DEF StarletInit, FlushInv
<1>2. FlushInv => FlushAcknowledged
  BY AckReads DEF FlushInv, FlushAcknowledged
<1> QED
  BY <1>1, <1>2, FlushStep, PTL DEF StarletSpec

=============================================================================
