------------------------------ MODULE RegisterMap ------------------------------
(***************************************************************************)
(* The register regions that ARM_Main maps (cpu_starlet.c, registers.h),    *)
(* and the handlers that keep next to nothing: the memory interface         *)
(* (interface_memory.c), EHCI (interface_ehci.c) and the AHB registers.     *)
(***************************************************************************)
EXTENDS Integers, Sequences

REG_HW      == \h0d000000
REG_NAND    == \h0d010000
REG_AES     == \h0d020000
REG_SHA     == \h0d030000
REG_EHCI    == \h0d040000
REG_EXI     == \h0d006800
REG_WTF     == \h0d0b0000
REG_WTF_SZ  == \h4000
REG_MEMI    == \h0d0b4000
REG_MEMC    == \h0d0b4200

MEM_AHMFLUSH     == \h28
MEM_AHMFLUSH_ACK == \h2a

(* REG_AHBMASK is a bit that none of the bases has.                         *)
Ahb(base) == base + \h00800000

(* Unicorn maps whole pages, of 0x400 bytes on this CPU.                    *)
UC_PAGE == \h400

ALIGN_SIZE(size) ==
  IF size % UC_PAGE = 0 THEN size ELSE size + (UC_PAGE - (size % UC_PAGE))

Region(device, base, size) ==
  [device |-> device, base |-> base, size |-> ALIGN_SIZE(size)]

Touches(r, s) == r.base < s.base + s.size /\ s.base < r.base + r.size

(* A region that is not of whole pages, or touches one that is mapped, is   *)
(* refused; ARM_Main does not look at the result.                           *)
uc_mmio_map(mapped, region) ==
  IF /\ region.base % UC_PAGE = 0 /\ region.size % UC_PAGE = 0
     /\ \A other \in mapped : ~Touches(region, other)
  THEN mapped \cup {region}
  ELSE mapped

(* The calls of ARM_Main, in their order.                                   *)
Regions == <<
  Region("HW",   Ahb(REG_HW),   \h400),
  Region("HW",   REG_HW,        \h400),
  Region("AES",  REG_AES,       \h14),
  Region("SHA",  REG_SHA,       \h1c),
  Region("NAND", REG_NAND,      \h1c),
  Region("EHCI", REG_EHCI,      \h100),
  Region("EXI",  Ahb(REG_EXI),  \h80),
  Region("EXI",  REG_EXI,       \h80),
  Region("WTF",  Ahb(REG_WTF),  REG_WTF_SZ),
  Region("MEMI", Ahb(REG_MEMI), \h80) >>

(* What is mapped after the first n of them.                                *)
MappedAfter[n \in 0..Len(Regions)] ==
  IF n = 0 THEN {} ELSE uc_mmio_map(MappedAfter[n - 1], Regions[n])

Mapped == MappedAfter[Len(Regions)]

Within(address, region) == region.base <= address /\ address < region.base + region.size

(* Who answers for an address, and at which of its offsets.                 *)
At(address) ==
  IF \E r \in Mapped : Within(address, r)
  THEN LET r == CHOOSE r \in Mapped : Within(address, r)
       IN  [device |-> r.device, offset |-> address - r.base]
  ELSE [device |-> "none", offset |-> 0]

-----------------------------------------------------------------------------
VARIABLE flushreq

(* Slip: offsets are taken as they come.                                    *)
McOffsetPlain(offset) == offset

(* The memory controller lies within the pages of the memory interface; no  *)
(* register of the interface itself is kept.                                *)
McOffset(offset) ==
  IF offset > REG_MEMC - REG_MEMI THEN offset - (REG_MEMC - REG_MEMI) ELSE 0

MEMI_ReadRegister(offset) ==
  IF McOffset(offset) = MEM_AHMFLUSH_ACK THEN flushreq ELSE 0

(* The registers of the controller are 16 bits wide, and so are the values. *)
MEMI_WriteRegister(offset, value) ==
  flushreq' = IF McOffset(offset) = MEM_AHMFLUSH THEN value ELSE flushreq

EHCI_ReadRegister(offset) == 0
ARM_WTFRead(offset) == 0

=============================================================================
