------------------------------- MODULE MCStarlet -------------------------------
(***************************************************************************)
(* A Starlet with a Gecko buffer of two bytes and a debug buffer of three,  *)
(* fetching two characters, and pages of two characters: one of MEM1, two   *)
(* of SRAM A and one of SRAM B, two of each of the fffe and ffff windows.   *)
(***************************************************************************)
EXTENDS Starlet

Letter == 97

Command(n, byte) == [command |-> n, byte |-> byte]

ParamOffset   == EXI_CHANNEL_SIZE + EXI_PARAM
ControlOffset == EXI_CHANNEL_SIZE + EXI_CONTROL
DataOffset    == EXI_CHANNEL_SIZE + EXI_IMM_DATA

(* The word of the boot vector whose offset names a control register in a   *)
(* channel that does not exist.                                              *)
BootOffset == 3 * EXI_CHANNEL_SIZE + EXI_CONTROL

MCWritten ==
  [offset \in {ParamOffset, ControlOffset, DataOffset, BootOffset} |->
     CASE offset = ParamOffset   -> {{4, 6, 7}}
       [] offset = ControlOffset -> {{}}
       [] offset = DataOffset    -> {Command(11, NewLine), Command(11, Letter)}
       [] offset = BootOffset    -> {{7}}]

(* The Gecko by both of its addresses, the flush registers, the remapping   *)
(* registers of Hollywood by one address each, EHCI, and the memory         *)
(* controller without the AHB bit, where no register is mapped.             *)
MCBusAddresses ==
  {REG_EXI + ParamOffset, REG_EXI + DataOffset,
   Ahb(REG_EXI) + ControlOffset, Ahb(REG_EXI) + BootOffset,
   FlushRequest, FlushAck, Ahb(REG_HW) + HW_SRNPROT, REG_HW + HW_BOOT0,
   REG_EHCI, REG_MEMC + MEM_AHMFLUSH}

(* Words with the bits that remap, on and off.                              *)
MCHollywoodWords ==
  [r \in {"HW_SRNPROT", "HW_BOOT0", "HW_SPARE0", "HW_OTPCMD", "HW_GPIO_ENABLE",
           "HW_GPIO_DIR", "HW_GPIO_OUT", "HW_GPIO_INTFLAG", "HW_AIPPROT", "HW_OTHER"} |->
     CASE r = "HW_SRNPROT" -> {{}, {5}}
       [] r = "HW_BOOT0"   -> {{}, {12}}
       [] OTHER            -> {{}}]

MCStrings ==
  {<<>>, <<"a">>, <<"newline">>, <<"a", "newline">>, <<"newline", "a">>}

Origin(page, offset) == [page |-> page, offset |-> offset]

(* MEM1; the lower page of SRAM A; the upper one, from which a string       *)
(* crosses into SRAM B; the fffe window, from which it crosses into the     *)
(* ffff window; and the end of the ffff window, which a fetch runs out of.  *)
MCOrigins ==
  {Origin(MEM1_BASE, 0), Origin(SRAM_BASE, 0), Origin(SRAM_BASE + 1, 1),
   Origin(WEIRD1_BASE + 1, 1), Origin(WEIRD2_BASE + 1, 1)}

=============================================================================
