--------------------------- MODULE MemoryGeometry ---------------------------
(***************************************************************************)
(* The address map of include/memory.h, counted in 4 KiB pages, and the     *)
(* host pages that can stand behind a guest page.                           *)
(***************************************************************************)
EXTENDS Integers

CONSTANTS
  SRAM_BASE, SRAM_MIRROR,     \* first pages of the two SRAM windows
  WEIRD1_BASE, WEIRD2_BASE,   \* first pages of the fffe and ffff windows
  SRAM_A_SIZE, SRAM_B_SIZE,   \* the two halves of SRAM
  WEIRD_SIZE, BOOT0_SIZE,
  MEM1_BASE, MEM1_SIZE, MEM2_BASE, MEM2_SIZE

SRAM_SIZE == SRAM_A_SIZE + SRAM_B_SIZE

Span(base, size) == base .. (base + size - 1)

SramWindow   == Span(SRAM_BASE, SRAM_SIZE)
MirrorWindow == Span(SRAM_MIRROR, SRAM_SIZE)
Weird1Window == Span(WEIRD1_BASE, WEIRD_SIZE)
Weird2Window == Span(WEIRD2_BASE, WEIRD_SIZE)

Pages == SramWindow \cup MirrorWindow \cup Weird1Window \cup Weird2Window

(* The address map of the console keeps its regions apart, in this order,   *)
(* SRAM B is not larger than SRAM A, and SRAM A than the fffe window.       *)
ASSUME GeometryAssumption ==
  /\ {SRAM_BASE, SRAM_MIRROR, WEIRD1_BASE, WEIRD2_BASE, MEM1_BASE, MEM2_BASE}
       \subseteq Nat
  /\ {SRAM_A_SIZE, SRAM_B_SIZE, WEIRD_SIZE, BOOT0_SIZE, MEM1_SIZE, MEM2_SIZE}
       \subseteq Nat \ {0}
  /\ SRAM_B_SIZE <= SRAM_A_SIZE /\ SRAM_A_SIZE <= WEIRD_SIZE
  /\ MEM1_BASE + MEM1_SIZE <= SRAM_BASE
  /\ SRAM_BASE + SRAM_SIZE <= MEM2_BASE
  /\ MEM2_BASE + MEM2_SIZE <= SRAM_MIRROR
  /\ SRAM_MIRROR + SRAM_SIZE <= WEIRD1_BASE
  /\ WEIRD1_BASE + WEIRD_SIZE <= WEIRD2_BASE

(* A place in a host buffer, with the protection it is mapped with.         *)
HostPage == [buf : {"SRAM", "BOOT0", "MEM1", "MEM2", "none"},
             page : Nat, writable : BOOLEAN]

SramAt(n)  == [buf |-> "SRAM",  page |-> n, writable |-> TRUE]
Boot0At(n) == [buf |-> "BOOT0", page |-> n, writable |-> FALSE]
Mem1At(n)  == [buf |-> "MEM1",  page |-> n, writable |-> TRUE]
Mem2At(n)  == [buf |-> "MEM2",  page |-> n, writable |-> TRUE]
Unmapped   == [buf |-> "none",  page |-> 0, writable |-> FALSE]

=============================================================================
