------------------------------ MODULE MemoryMap ------------------------------
(***************************************************************************)
(* The memory subsystem (util_memory.c, include/memory.h): which host       *)
(* buffer the emulated CPU sees behind each guest page of the four SRAM     *)
(* windows, and which host buffer a device reaches by the same address.     *)
(*                                                                          *)
(* The state of Unicorn's memory list is a function from the pages of the   *)
(* windows to what is mapped there.  A call that fails changes nothing, and *)
(* the program never looks at its result.                                   *)
(***************************************************************************)
EXTENDS MemoryGeometry

VARIABLES
  mem,                \* what Unicorn has mapped at each page
  MEM_ARM_SRAMState

memVars == <<mem, MEM_ARM_SRAMState>>

-----------------------------------------------------------------------------
(* Unicorn unmaps a range only when the whole of it is mapped, and maps one *)
(* only when no page of it is.                                              *)

uc_mem_unmap(m, base, size) ==
  IF \E p \in Span(base, size) : m[p] = Unmapped
  THEN m
  ELSE [p \in Pages |-> IF p \in Span(base, size) THEN Unmapped ELSE m[p]]

(* The host page n pages on from host.                                      *)
Advance(host, n) ==
  [buf |-> host.buf, page |-> host.page + n, writable |-> host.writable]

uc_mem_map_ptr(m, base, size, host) ==
  IF \E p \in Span(base, size) : m[p] # Unmapped
  THEN m
  ELSE [p \in Pages |-> IF p \in Span(base, size)
                        THEN Advance(host, p - base)
                        ELSE m[p]]

(* Slip: the unmaps for the layout with SRAM B at the bottom are forgotten. *)
UnmapWholeWindows(m) ==
  LET weird == uc_mem_unmap(uc_mem_unmap(m, WEIRD1_BASE, WEIRD_SIZE),
                            WEIRD2_BASE, WEIRD_SIZE)
  IN  uc_mem_unmap(uc_mem_unmap(weird, SRAM_BASE, SRAM_SIZE), SRAM_MIRROR, SRAM_SIZE)

(* The eight unmaps that MEM_ARM_SetSRAM starts with, in their order.       *)
UnmapWindows(m) ==
  LET weird == uc_mem_unmap(uc_mem_unmap(m, WEIRD1_BASE, WEIRD_SIZE),
                            WEIRD2_BASE, WEIRD_SIZE)
      whole == uc_mem_unmap(uc_mem_unmap(weird, SRAM_BASE, SRAM_SIZE),
                            SRAM_MIRROR, SRAM_SIZE)
      lower == uc_mem_unmap(uc_mem_unmap(whole, SRAM_BASE, SRAM_B_SIZE),
                            SRAM_MIRROR, SRAM_B_SIZE)
  IN  uc_mem_unmap(uc_mem_unmap(lower, SRAM_BASE + SRAM_A_SIZE, SRAM_B_SIZE),
                   SRAM_MIRROR + SRAM_A_SIZE, SRAM_B_SIZE)

(* Both SRAM windows onto one place, then fffe and ffff onto theirs.        *)
MapWindows(m, sram, weird1, weird2) ==
  LET normal == uc_mem_map_ptr(uc_mem_map_ptr(m, SRAM_BASE, SRAM_SIZE, sram),
                               SRAM_MIRROR, SRAM_SIZE, sram)
  IN  uc_mem_map_ptr(uc_mem_map_ptr(normal, WEIRD1_BASE, WEIRD_SIZE, weird1),
                     WEIRD2_BASE, WEIRD_SIZE, weird2)

(* Slip: the mirror keeps SRAM A at its bottom.                             *)
MapSwappedOnce(m) ==
  LET lower == uc_mem_map_ptr(
                 uc_mem_map_ptr(m, SRAM_BASE, SRAM_B_SIZE, SramAt(SRAM_A_SIZE)),
                 SRAM_MIRROR, SRAM_B_SIZE, SramAt(0))
      upper == uc_mem_map_ptr(
                 uc_mem_map_ptr(lower, SRAM_BASE + SRAM_A_SIZE, SRAM_B_SIZE, SramAt(0)),
                 SRAM_MIRROR + SRAM_A_SIZE, SRAM_B_SIZE, SramAt(SRAM_A_SIZE))
  IN  uc_mem_map_ptr(
        uc_mem_map_ptr(upper, WEIRD1_BASE, WEIRD_SIZE, SramAt(SRAM_A_SIZE)),
        WEIRD2_BASE, WEIRD_SIZE, SramAt(0))

(* Slip: the ffff window shows SRAM B, like the fffe window.                *)
MapSwappedHigh(m) ==
  LET lower == uc_mem_map_ptr(
                 uc_mem_map_ptr(m, SRAM_BASE, SRAM_B_SIZE, SramAt(SRAM_A_SIZE)),
                 SRAM_MIRROR, SRAM_B_SIZE, SramAt(SRAM_A_SIZE))
      upper == uc_mem_map_ptr(
                 uc_mem_map_ptr(lower, SRAM_BASE + SRAM_A_SIZE, SRAM_B_SIZE, SramAt(0)),
                 SRAM_MIRROR + SRAM_A_SIZE, SRAM_B_SIZE, SramAt(0))
  IN  uc_mem_map_ptr(
        uc_mem_map_ptr(upper, WEIRD1_BASE, WEIRD_SIZE, SramAt(SRAM_A_SIZE)),
        WEIRD2_BASE, WEIRD_SIZE, SramAt(SRAM_A_SIZE))

(* The layout with SRAM B at the bottom of the SRAM windows.                *)
MapSwapped(m) ==
  LET lower == uc_mem_map_ptr(
                 uc_mem_map_ptr(m, SRAM_BASE, SRAM_B_SIZE, SramAt(SRAM_A_SIZE)),
                 SRAM_MIRROR, SRAM_B_SIZE, SramAt(SRAM_A_SIZE))
      upper == uc_mem_map_ptr(
                 uc_mem_map_ptr(lower, SRAM_BASE + SRAM_A_SIZE, SRAM_B_SIZE, SramAt(0)),
                 SRAM_MIRROR + SRAM_A_SIZE, SRAM_B_SIZE, SramAt(0))
  IN  uc_mem_map_ptr(
        uc_mem_map_ptr(upper, WEIRD1_BASE, WEIRD_SIZE, SramAt(SRAM_A_SIZE)),
        WEIRD2_BASE, WEIRD_SIZE, SramAt(0))

(* Slip: both windows show the start of SRAM once the boot ROM is gone.     *)
RemapLow(m, iouen, boot0) ==
  CASE boot0  /\ ~iouen -> MapWindows(m, SramAt(0), SramAt(0), Boot0At(0))
    [] boot0  /\ iouen  -> MapWindows(m, Boot0At(0), Boot0At(0), SramAt(0))
    [] ~boot0 /\ ~iouen -> MapWindows(m, SramAt(0), SramAt(0), SramAt(0))
    [] ~boot0 /\ iouen  -> MapSwapped(m)

(* What the maps of MEM_ARM_SetSRAM make of an address space.  The third    *)
(* argument of the function, mmu, is FALSE in every call of the program, so *)
(* its branch is left out.                                                  *)
Remap(m, iouen, boot0) ==
  CASE boot0  /\ ~iouen -> MapWindows(m, SramAt(0), SramAt(0), Boot0At(0))
    [] boot0  /\ iouen  -> MapWindows(m, Boot0At(0), Boot0At(0), SramAt(0))
    [] ~boot0 /\ ~iouen -> MapWindows(m, SramAt(0), SramAt(0), SramAt(WEIRD_SIZE))
    [] ~boot0 /\ iouen  -> MapSwapped(m)

SramState(iouen, boot0) ==
  IF boot0 THEN IF iouen THEN 1 ELSE 0
           ELSE IF iouen THEN 4 ELSE 2

MEM_ARM_SetSRAM(iouen, boot0) ==
  /\ mem' = Remap(UnmapWindows(mem), iouen, boot0)
  /\ MEM_ARM_SRAMState' = SramState(iouen, boot0)

(* Unicorn starts with nothing mapped; ARM_Main then asks for iouen off and *)
(* boot0 on, before it maps anything else.                                  *)
NothingMapped == [p \in Pages |-> Unmapped]

MemInit ==
  /\ mem = Remap(UnmapWindows(NothingMapped), FALSE, TRUE)
  /\ MEM_ARM_SRAMState = SramState(FALSE, TRUE)

-----------------------------------------------------------------------------
(* The host page a device (NAND, AES, SHA) or the debug call reaches by a   *)
(* guest page; Unmapped is the NULL pointer.                                *)
MEM_EmuToHost(emu) ==
  CASE emu \in SramWindow   -> SramAt(emu - SRAM_BASE)
    [] emu \in MirrorWindow -> SramAt(emu - SRAM_MIRROR)
    [] emu \in Span(MEM1_BASE, MEM1_SIZE) -> Mem1At(emu - MEM1_BASE)
    [] emu \in Span(MEM2_BASE, MEM2_SIZE) -> Mem2At(emu - MEM2_BASE)
    [] OTHER -> Unmapped

=============================================================================
