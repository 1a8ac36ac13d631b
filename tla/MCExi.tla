--------------------------------- MODULE MCExi ---------------------------------
(***************************************************************************)
(* The EXI registers with a text buffer of three bytes.                     *)
(***************************************************************************)
EXTENDS ExiGecko, SequencesExt

Letter == 97

Command(n, byte) == [command |-> n, byte |-> byte]

Selected   == {4, 6, 7}

ParamOffset   == EXI_CHANNEL_SIZE + EXI_PARAM
ControlOffset == EXI_CHANNEL_SIZE + EXI_CONTROL
DataOffset    == EXI_CHANNEL_SIZE + EXI_IMM_DATA

(* The word of the boot vector whose offset names a control register in a   *)
(* channel that does not exist.                                              *)
BootOffset == 3 * EXI_CHANNEL_SIZE + EXI_CONTROL

Offsets == {EXI_CONTROL, ParamOffset, ControlOffset, DataOffset, BootOffset}

TextWords ==
  [offset \in Offsets |->
     CASE offset = ParamOffset   -> {Selected, {4, 6, 7, 8}}
       [] offset = ControlOffset -> {{0, 4}}
       [] offset = DataOffset    -> {Command(11, b) : b \in {NewLine, Letter, Letter + 1}}
                                      \cup {Command(n, 0) : n \in {9, 12}}
       [] offset = EXI_CONTROL   -> {{}}
       [] OTHER                  -> {{7}}]

-----------------------------------------------------------------------------
(* Every byte that the device has answered as sent is on stdout or waiting  *)
(* in the buffer, for text of any length without zero bytes.                *)
SentBytesKept ==
  FlattenSeq(printed) \o gecko_out_buffer = FlattenSeq(lines) \o line

=============================================================================
