------------------------------ MODULE SramLayout ------------------------------
(***************************************************************************)
(* The four layouts of the SRAM windows, as the comments and maps of        *)
(* MEM_ARM_SetSRAM describe them: what each page of a window shows for each *)
(* setting of the two mapping controls.                                     *)
(***************************************************************************)
EXTENDS MemoryGeometry

(* The 0d40 and fff0 windows, page by page; then fffe; then ffff.           *)
InSramWindow(i, b, offset) ==
  CASE ~i     -> SramAt(offset)
    [] i /\ b -> Boot0At(offset)
    [] i /\ ~b /\ offset < SRAM_B_SIZE  -> SramAt(SRAM_A_SIZE + offset)
    [] i /\ ~b /\ offset >= SRAM_A_SIZE -> SramAt(offset - SRAM_A_SIZE)
    [] OTHER  -> Unmapped

InWeird1(i, b, offset) ==
  CASE ~i      -> SramAt(offset)
    [] i /\ b  -> Boot0At(offset)
    [] i /\ ~b -> SramAt(SRAM_A_SIZE + offset)

InWeird2(i, b, offset) ==
  CASE i        -> SramAt(offset)
    [] ~i /\ b  -> Boot0At(offset)
    [] ~i /\ ~b -> SramAt(WEIRD_SIZE + offset)

Shown(i, b, p) ==
  CASE p \in SramWindow   -> InSramWindow(i, b, p - SRAM_BASE)
    [] p \in MirrorWindow -> InSramWindow(i, b, p - SRAM_MIRROR)
    [] p \in Weird1Window -> InWeird1(i, b, p - WEIRD1_BASE)
    [] p \in Weird2Window -> InWeird2(i, b, p - WEIRD2_BASE)

Layout(i, b) == [p \in Pages |-> Shown(i, b, p)]

(* An address space: what is behind each page of the windows.              *)
AddressSpace == [Pages -> HostPage]

=============================================================================
