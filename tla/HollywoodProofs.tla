---------------------------- MODULE HollywoodProofs ----------------------------
(***************************************************************************)
(* The invariants of the Hollywood registers, for every geometry of the     *)
(* windows, every set of OTP images and whatever words the guest writes.    *)
(*                                                                          *)
(* First, that MEM_ARM_SetSRAM builds the layout it is asked for, whatever  *)
(* layout it finds.  Two facts are enough: the eight unmaps clear every     *)
(* layout, and the maps build every layout in a cleared address space.      *)
(***************************************************************************)
EXTENDS Hollywood, TLAPS

(* The four windows are apart from each other.                              *)
LEMMA WindowsDisjoint ==
  /\ SramWindow \cap MirrorWindow = {}
  /\ SramWindow \cap Weird1Window = {}
  /\ SramWindow \cap Weird2Window = {}
  /\ MirrorWindow \cap Weird1Window = {}
  /\ MirrorWindow \cap Weird2Window = {}
  /\ Weird1Window \cap Weird2Window = {}
  BY GeometryAssumption
     DEF SramWindow, MirrorWindow, Weird1Window, Weird2Window, Span, SRAM_SIZE

(* A page of a host buffer is a host page, and never the same as Unmapped.  *)
LEMMA HostPages ==
  /\ Unmapped \in HostPage
  /\ \A n \in Nat : /\ SramAt(n) \in HostPage  /\ SramAt(n) # Unmapped
                    /\ Boot0At(n) \in HostPage /\ Boot0At(n) # Unmapped
  BY DEF HostPage, SramAt, Boot0At, Unmapped

(* Unmapping a range that is mapped from end to end clears it and nothing   *)
(* else (uc_mem_unmap).                                                     *)
LEMMA UnmapWhole ==
  ASSUME NEW m \in AddressSpace, NEW base \in Nat, NEW size \in Nat,
         \A p \in Span(base, size) : m[p] # Unmapped
  PROVE  /\ uc_mem_unmap(m, base, size) \in AddressSpace
         /\ \A p \in Pages : uc_mem_unmap(m, base, size)[p]
                               = IF p \in Span(base, size) THEN Unmapped ELSE m[p]
  BY HostPages DEF uc_mem_unmap, AddressSpace

(* Unmapping a range with a hole in it does nothing.                        *)
LEMMA UnmapHole ==
  ASSUME NEW m, NEW base, NEW size, NEW p \in Span(base, size), m[p] = Unmapped
  PROVE  uc_mem_unmap(m, base, size) = m
  BY DEF uc_mem_unmap

(* Either way the call leaves an address space behind.                      *)
LEMMA UnmapType ==
  ASSUME NEW m \in AddressSpace, NEW base \in Nat, NEW size \in Nat
  PROVE  uc_mem_unmap(m, base, size) \in AddressSpace
  BY HostPages DEF uc_mem_unmap, AddressSpace

(* Mapping a free range puts the host buffer there, page by page, and       *)
(* leaves the rest alone (uc_mem_map_ptr).                                  *)
LEMMA MapFree ==
  ASSUME NEW m \in AddressSpace, NEW base \in Nat, NEW size \in Nat,
         NEW host \in HostPage,
         \A p \in Span(base, size) : m[p] = Unmapped
  PROVE  /\ uc_mem_map_ptr(m, base, size, host) \in AddressSpace
         /\ \A p \in Pages : uc_mem_map_ptr(m, base, size, host)[p]
                               = IF p \in Span(base, size)
                                 THEN Advance(host, p - base) ELSE m[p]
<1>1. \A n \in Nat : Advance(host, n) \in HostPage
  BY DEF HostPage, Advance
<1>2. \A p \in Span(base, size) : p - base \in Nat
  BY DEF Span
<1>3. QED
  BY <1>1, <1>2 DEF uc_mem_map_ptr, AddressSpace

(* The page n pages on from page k of a buffer is its page k + n.           *)
LEMMA AdvanceInBuffer ==
  \A k, n \in Nat : /\ Advance(SramAt(k), n) = SramAt(k + n)
                    /\ Advance(Boot0At(k), n) = Boot0At(k + n)
  BY DEF Advance, SramAt, Boot0At

-----------------------------------------------------------------------------
(* Nothing but the part of the SRAM windows between B and A may be left     *)
(* without memory, and only with SRAM B at the bottom of them.              *)
Gap(base) == (base + SRAM_B_SIZE)..(base + SRAM_A_SIZE - 1)

LEMMA ShownSram ==
  ASSUME NEW i \in BOOLEAN, NEW b \in BOOLEAN
  PROVE  /\ \A p \in SramWindow   : Shown(i, b, p) = InSramWindow(i, b, p - SRAM_BASE)
         /\ \A p \in MirrorWindow : Shown(i, b, p) = InSramWindow(i, b, p - SRAM_MIRROR)
         /\ \A p \in Weird1Window : Shown(i, b, p) = InWeird1(i, b, p - WEIRD1_BASE)
         /\ \A p \in Weird2Window : Shown(i, b, p) = InWeird2(i, b, p - WEIRD2_BASE)
  BY WindowsDisjoint DEF Shown

LEMMA InSramWindowGap ==
  ASSUME NEW i \in BOOLEAN, NEW b \in BOOLEAN, NEW n \in 0..(SRAM_SIZE - 1)
  PROVE  /\ InSramWindow(i, b, n) \in HostPage
         /\ (InSramWindow(i, b, n) = Unmapped)
              <=> i /\ ~b /\ n \in SRAM_B_SIZE..(SRAM_A_SIZE - 1)
  BY HostPages, GeometryAssumption DEF InSramWindow, SRAM_SIZE

LEMMA ShownPages ==
  ASSUME NEW i \in BOOLEAN, NEW b \in BOOLEAN, NEW p \in Pages
  PROVE  /\ Shown(i, b, p) \in HostPage
         /\ (Shown(i, b, p) = Unmapped) <=>
              i /\ ~b /\ p \in Gap(SRAM_BASE) \cup Gap(SRAM_MIRROR)
<1>1. CASE p \in SramWindow
  <2>1. p - SRAM_BASE \in 0..(SRAM_SIZE - 1)
    BY <1>1, GeometryAssumption DEF SramWindow, Span, SRAM_SIZE
  <2>2. /\ p \notin Gap(SRAM_MIRROR)
        /\ p \in Gap(SRAM_BASE) <=> p - SRAM_BASE \in SRAM_B_SIZE..(SRAM_A_SIZE - 1)
    BY <1>1, GeometryAssumption DEF SramWindow, Span, Gap, SRAM_SIZE
  <2>3. QED  BY <1>1, <2>1, <2>2, ShownSram, InSramWindowGap
<1>2. CASE p \in MirrorWindow
  <2>1. p - SRAM_MIRROR \in 0..(SRAM_SIZE - 1)
    BY <1>2, GeometryAssumption DEF MirrorWindow, Span, SRAM_SIZE
  <2>2. /\ p \notin Gap(SRAM_BASE)
        /\ p \in Gap(SRAM_MIRROR) <=> p - SRAM_MIRROR \in SRAM_B_SIZE..(SRAM_A_SIZE - 1)
    BY <1>2, GeometryAssumption DEF MirrorWindow, Span, Gap, SRAM_SIZE
  <2>3. QED  BY <1>2, <2>1, <2>2, ShownSram, InSramWindowGap
<1>3. CASE p \in Weird1Window
  <2>1. /\ p - WEIRD1_BASE \in Nat /\ SRAM_A_SIZE + (p - WEIRD1_BASE) \in Nat
        /\ p \notin Gap(SRAM_BASE) \cup Gap(SRAM_MIRROR)
    BY <1>3, GeometryAssumption DEF Weird1Window, Span, Gap, SRAM_SIZE
  <2>2. QED  BY <1>3, <2>1, ShownSram, HostPages DEF InWeird1
<1>4. CASE p \in Weird2Window
  <2>1. /\ p - WEIRD2_BASE \in Nat /\ WEIRD_SIZE + (p - WEIRD2_BASE) \in Nat
        /\ p \notin Gap(SRAM_BASE) \cup Gap(SRAM_MIRROR)
    BY <1>4, GeometryAssumption DEF Weird2Window, Span, Gap, SRAM_SIZE
  <2>2. QED  BY <1>4, <2>1, ShownSram, HostPages DEF InWeird2
<1>5. QED  BY <1>1, <1>2, <1>3, <1>4 DEF Pages

LEMMA LayoutType ==
  ASSUME NEW i \in BOOLEAN, NEW b \in BOOLEAN
  PROVE  Layout(i, b) \in AddressSpace
  BY ShownPages DEF Layout, AddressSpace

-----------------------------------------------------------------------------
(* Whatever layout is in place, the eight unmaps of MEM_ARM_SetSRAM leave   *)
(* nothing mapped, although some of them fail: the last four on a layout    *)
(* without a gap, the third and fourth on one with a gap.                   *)
LEMMA UnmapClearsFull ==
  ASSUME NEW m \in AddressSpace, \A p \in Pages : m[p] # Unmapped
  PROVE  UnmapWindows(m) = NothingMapped
<1> DEFINE m1 == uc_mem_unmap(m, WEIRD1_BASE, WEIRD_SIZE)
           m2 == uc_mem_unmap(m1, WEIRD2_BASE, WEIRD_SIZE)
           m3 == uc_mem_unmap(m2, SRAM_BASE, SRAM_SIZE)
           m4 == uc_mem_unmap(m3, SRAM_MIRROR, SRAM_SIZE)
           m5 == uc_mem_unmap(m4, SRAM_BASE, SRAM_B_SIZE)
           m6 == uc_mem_unmap(m5, SRAM_MIRROR, SRAM_B_SIZE)
           m7 == uc_mem_unmap(m6, SRAM_BASE + SRAM_A_SIZE, SRAM_B_SIZE)
           m8 == uc_mem_unmap(m7, SRAM_MIRROR + SRAM_A_SIZE, SRAM_B_SIZE)
<1>1. UnmapWindows(m) = m8
  BY DEF UnmapWindows
<1>2. SRAM_SIZE \in Nat
  BY GeometryAssumption DEF SRAM_SIZE
<1>3. /\ m1 \in AddressSpace
      /\ \A p \in Pages : m1[p] = IF p \in Weird1Window THEN Unmapped ELSE m[p]
  BY UnmapWhole, GeometryAssumption DEF Pages, Weird1Window
<1>4. /\ m2 \in AddressSpace
      /\ \A p \in Pages : m2[p] = IF p \in Weird2Window THEN Unmapped ELSE m1[p]
  <2> HIDE DEF m1
  <2>1. \A p \in Weird2Window : m1[p] # Unmapped
    BY <1>3, WindowsDisjoint DEF Pages
  <2>2. QED  BY <1>3, <2>1, UnmapWhole, GeometryAssumption DEF Weird2Window
<1>5. /\ m3 \in AddressSpace
      /\ \A p \in Pages : m3[p] = IF p \in SramWindow THEN Unmapped ELSE m2[p]
  <2> HIDE DEF m1, m2
  <2>1. \A p \in SramWindow : m2[p] # Unmapped
    BY <1>3, <1>4, WindowsDisjoint DEF Pages
  <2>2. QED  BY <1>2, <1>4, <2>1, UnmapWhole, GeometryAssumption DEF SramWindow
<1>6. /\ m4 \in AddressSpace
      /\ \A p \in Pages : m4[p] = IF p \in MirrorWindow THEN Unmapped ELSE m3[p]
  <2> HIDE DEF m1, m2, m3
  <2>1. \A p \in MirrorWindow : m3[p] # Unmapped
    BY <1>3, <1>4, <1>5, WindowsDisjoint DEF Pages
  <2>2. QED  BY <1>2, <1>5, <2>1, UnmapWhole, GeometryAssumption DEF MirrorWindow
<1> HIDE DEF m1, m2, m3, m4
<1>7. \A p \in Pages : m4[p] = Unmapped
  BY <1>3, <1>4, <1>5, <1>6 DEF Pages
<1>8. /\ SRAM_BASE \in Span(SRAM_BASE, SRAM_B_SIZE) \cap Pages
      /\ SRAM_MIRROR \in Span(SRAM_MIRROR, SRAM_B_SIZE) \cap Pages
      /\ SRAM_BASE + SRAM_A_SIZE \in Span(SRAM_BASE + SRAM_A_SIZE, SRAM_B_SIZE) \cap Pages
      /\ SRAM_MIRROR + SRAM_A_SIZE \in Span(SRAM_MIRROR + SRAM_A_SIZE, SRAM_B_SIZE) \cap Pages
  BY GeometryAssumption DEF Pages, Span, SramWindow, MirrorWindow, SRAM_SIZE
<1>9. m5 = m4   BY <1>7, <1>8, UnmapHole
<1>10. m6 = m4  BY <1>7, <1>8, <1>9, UnmapHole
<1>11. m7 = m4  BY <1>7, <1>8, <1>10, UnmapHole
<1>12. m8 = m4  BY <1>7, <1>8, <1>11, UnmapHole
<1>13. QED  BY <1>1, <1>6, <1>7, <1>12 DEF NothingMapped, AddressSpace

LEMMA UnmapClearsGap ==
  ASSUME NEW m \in AddressSpace, SRAM_B_SIZE < SRAM_A_SIZE,
         \A p \in Pages : (m[p] = Unmapped) <=> p \in Gap(SRAM_BASE) \cup Gap(SRAM_MIRROR)
  PROVE  UnmapWindows(m) = NothingMapped
<1> DEFINE LowSram    == Span(SRAM_BASE, SRAM_B_SIZE)
           LowMirror  == Span(SRAM_MIRROR, SRAM_B_SIZE)
           HighSram   == Span(SRAM_BASE + SRAM_A_SIZE, SRAM_B_SIZE)
           HighMirror == Span(SRAM_MIRROR + SRAM_A_SIZE, SRAM_B_SIZE)
           m1 == uc_mem_unmap(m, WEIRD1_BASE, WEIRD_SIZE)
           m2 == uc_mem_unmap(m1, WEIRD2_BASE, WEIRD_SIZE)
           m3 == uc_mem_unmap(m2, SRAM_BASE, SRAM_SIZE)
           m4 == uc_mem_unmap(m3, SRAM_MIRROR, SRAM_SIZE)
           m5 == uc_mem_unmap(m4, SRAM_BASE, SRAM_B_SIZE)
           m6 == uc_mem_unmap(m5, SRAM_MIRROR, SRAM_B_SIZE)
           m7 == uc_mem_unmap(m6, SRAM_BASE + SRAM_A_SIZE, SRAM_B_SIZE)
           m8 == uc_mem_unmap(m7, SRAM_MIRROR + SRAM_A_SIZE, SRAM_B_SIZE)
<1>1. UnmapWindows(m) = m8
  BY DEF UnmapWindows
<1>2. /\ \A p \in Weird1Window \cup Weird2Window : p \notin Gap(SRAM_BASE) \cup Gap(SRAM_MIRROR)
      /\ SRAM_BASE + SRAM_B_SIZE \in Span(SRAM_BASE, SRAM_SIZE) \cap Gap(SRAM_BASE)
      /\ SRAM_MIRROR + SRAM_B_SIZE \in Span(SRAM_MIRROR, SRAM_SIZE) \cap Gap(SRAM_MIRROR)
      /\ SRAM_BASE + SRAM_B_SIZE \in Pages \ (Weird1Window \cup Weird2Window)
      /\ SRAM_MIRROR + SRAM_B_SIZE \in Pages \ (Weird1Window \cup Weird2Window)
  BY GeometryAssumption DEF Gap, Span, SRAM_SIZE, Pages, SramWindow, MirrorWindow,
                            Weird1Window, Weird2Window
<1>3. /\ m1 \in AddressSpace
      /\ \A p \in Pages : m1[p] = IF p \in Weird1Window THEN Unmapped ELSE m[p]
  BY <1>2, UnmapWhole, GeometryAssumption DEF Pages, Weird1Window
<1>4. /\ m2 \in AddressSpace
      /\ \A p \in Pages : m2[p] = IF p \in Weird2Window THEN Unmapped ELSE m1[p]
  <2> HIDE DEF m1
  <2>1. \A p \in Weird2Window : m1[p] # Unmapped
    BY <1>2, <1>3, WindowsDisjoint DEF Pages
  <2>2. QED  BY <1>3, <2>1, UnmapWhole, GeometryAssumption DEF Weird2Window
<1> HIDE DEF m1, m2
<1>5. m3 = m2  BY <1>2, <1>3, <1>4, UnmapHole
<1>6. m4 = m2  BY <1>2, <1>3, <1>4, <1>5, UnmapHole
<1> HIDE DEF m3, m4
<1>7. /\ SramWindow \subseteq LowSram \cup HighSram \cup Gap(SRAM_BASE)
      /\ MirrorWindow \subseteq LowMirror \cup HighMirror \cup Gap(SRAM_MIRROR)
      /\ LowSram \cup HighSram \subseteq SramWindow \ Gap(SRAM_BASE)
      /\ LowMirror \cup HighMirror \subseteq MirrorWindow \ Gap(SRAM_MIRROR)
      /\ LowSram \cap HighSram = {} /\ LowMirror \cap HighMirror = {}
      /\ SramWindow \cap Gap(SRAM_MIRROR) = {} /\ MirrorWindow \cap Gap(SRAM_BASE) = {}
  BY GeometryAssumption DEF Span, Gap, SramWindow, MirrorWindow, SRAM_SIZE
<1>8. /\ m5 \in AddressSpace
      /\ \A p \in Pages : m5[p] = IF p \in LowSram THEN Unmapped ELSE m2[p]
  <2>1. \A p \in LowSram : m4[p] # Unmapped
    BY <1>3, <1>4, <1>6, <1>7, WindowsDisjoint DEF Pages
  <2>2. QED  BY <1>4, <1>6, <2>1, UnmapWhole, GeometryAssumption
<1> HIDE DEF m5
<1>9. /\ m6 \in AddressSpace
      /\ \A p \in Pages : m6[p] = IF p \in LowMirror THEN Unmapped ELSE m5[p]
  <2>1. \A p \in LowMirror : m5[p] # Unmapped
    BY <1>3, <1>4, <1>7, <1>8, WindowsDisjoint DEF Pages
  <2>2. QED  BY <1>8, <2>1, UnmapWhole, GeometryAssumption
<1> HIDE DEF m6
<1>10. /\ m7 \in AddressSpace
       /\ \A p \in Pages : m7[p] = IF p \in HighSram THEN Unmapped ELSE m6[p]
  <2>1. \A p \in HighSram : m6[p] # Unmapped
    BY <1>3, <1>4, <1>7, <1>8, <1>9, WindowsDisjoint DEF Pages
  <2>2. SRAM_BASE + SRAM_A_SIZE \in Nat /\ SRAM_B_SIZE \in Nat
    BY GeometryAssumption
  <2>3. QED  BY <1>9, <2>1, <2>2, UnmapWhole
<1> HIDE DEF m7
<1>11. /\ m8 \in AddressSpace
       /\ \A p \in Pages : m8[p] = IF p \in HighMirror THEN Unmapped ELSE m7[p]
  <2>1. \A p \in HighMirror : m7[p] # Unmapped
    BY <1>3, <1>4, <1>7, <1>8, <1>9, <1>10, WindowsDisjoint DEF Pages
  <2>2. SRAM_MIRROR + SRAM_A_SIZE \in Nat /\ SRAM_B_SIZE \in Nat
    BY GeometryAssumption
  <2>3. QED  BY <1>10, <2>1, <2>2, UnmapWhole
<1> HIDE DEF m8, LowSram, LowMirror, HighSram, HighMirror
<1>12. \A p \in Pages : m8[p] = Unmapped
  BY <1>3, <1>4, <1>7, <1>8, <1>9, <1>10, <1>11 DEF Pages
<1>13. QED  BY <1>1, <1>11, <1>12 DEF NothingMapped, AddressSpace

LEMMA UnmapClears ==
  ASSUME NEW i \in BOOLEAN, NEW b \in BOOLEAN
  PROVE  UnmapWindows(Layout(i, b)) = NothingMapped
<1>1. Layout(i, b) \in AddressSpace
  BY LayoutType
<1>2. \A p \in Pages : (Layout(i, b)[p] = Unmapped) <=>
        i /\ ~b /\ p \in Gap(SRAM_BASE) \cup Gap(SRAM_MIRROR)
  BY ShownPages DEF Layout
<1>3. CASE i /\ ~b /\ SRAM_B_SIZE < SRAM_A_SIZE
  BY <1>1, <1>2, <1>3, UnmapClearsGap
<1>4. CASE ~(i /\ ~b /\ SRAM_B_SIZE < SRAM_A_SIZE)
  <2>1. i /\ ~b => Gap(SRAM_BASE) = {} /\ Gap(SRAM_MIRROR) = {}
    BY <1>4, GeometryAssumption DEF Gap
  <2>2. QED  BY <1>1, <1>2, <2>1, UnmapClearsFull
<1>5. QED  BY <1>3, <1>4

(* Nor do they map anything where nothing was mapped.                       *)
LEMMA UnmapNothing == UnmapWindows(NothingMapped) = NothingMapped
<1>1. \A base, size : (\E p \in Span(base, size) : p \in Pages) =>
        uc_mem_unmap(NothingMapped, base, size) = NothingMapped
  BY DEF uc_mem_unmap, NothingMapped
<1>2. /\ SRAM_BASE \in Span(SRAM_BASE, SRAM_B_SIZE) \cap Span(SRAM_BASE, SRAM_SIZE) \cap Pages
      /\ SRAM_MIRROR \in Span(SRAM_MIRROR, SRAM_B_SIZE) \cap Span(SRAM_MIRROR, SRAM_SIZE) \cap Pages
      /\ SRAM_BASE + SRAM_A_SIZE \in Span(SRAM_BASE + SRAM_A_SIZE, SRAM_B_SIZE) \cap Pages
      /\ SRAM_MIRROR + SRAM_A_SIZE \in Span(SRAM_MIRROR + SRAM_A_SIZE, SRAM_B_SIZE) \cap Pages
      /\ WEIRD1_BASE \in Span(WEIRD1_BASE, WEIRD_SIZE) \cap Pages
      /\ WEIRD2_BASE \in Span(WEIRD2_BASE, WEIRD_SIZE) \cap Pages
  BY GeometryAssumption DEF Pages, Span, SramWindow, MirrorWindow, Weird1Window,
                            Weird2Window, SRAM_SIZE
<1>3. QED  BY <1>1, <1>2 DEF UnmapWindows

-----------------------------------------------------------------------------
(* On nothing mapped, no map of a layout fails, and together they build it. *)
LEMMA MapWindowsBuilds ==
  ASSUME NEW sram \in HostPage, NEW weird1 \in HostPage, NEW weird2 \in HostPage
  PROVE  LET m == MapWindows(NothingMapped, sram, weird1, weird2)
         IN  /\ m \in AddressSpace
             /\ \A p \in SramWindow   : m[p] = Advance(sram, p - SRAM_BASE)
             /\ \A p \in MirrorWindow : m[p] = Advance(sram, p - SRAM_MIRROR)
             /\ \A p \in Weird1Window : m[p] = Advance(weird1, p - WEIRD1_BASE)
             /\ \A p \in Weird2Window : m[p] = Advance(weird2, p - WEIRD2_BASE)
<1> DEFINE m0 == NothingMapped
           m1 == uc_mem_map_ptr(m0, SRAM_BASE, SRAM_SIZE, sram)
           m2 == uc_mem_map_ptr(m1, SRAM_MIRROR, SRAM_SIZE, sram)
           m3 == uc_mem_map_ptr(m2, WEIRD1_BASE, WEIRD_SIZE, weird1)
           m4 == uc_mem_map_ptr(m3, WEIRD2_BASE, WEIRD_SIZE, weird2)
<1>1. MapWindows(NothingMapped, sram, weird1, weird2) = m4
  BY DEF MapWindows
<1>2. /\ m0 \in AddressSpace /\ \A p \in Pages : m0[p] = Unmapped
      /\ {SRAM_BASE, SRAM_MIRROR, WEIRD1_BASE, WEIRD2_BASE, SRAM_SIZE, WEIRD_SIZE} \subseteq Nat
  BY HostPages, GeometryAssumption DEF AddressSpace, NothingMapped, SRAM_SIZE
<1> HIDE DEF m0
<1>3. /\ m1 \in AddressSpace
      /\ \A p \in Pages : m1[p] = IF p \in SramWindow THEN Advance(sram, p - SRAM_BASE) ELSE m0[p]
  BY <1>2, MapFree DEF Pages, SramWindow
<1> HIDE DEF m1
<1>4. /\ m2 \in AddressSpace
      /\ \A p \in Pages : m2[p] = IF p \in MirrorWindow THEN Advance(sram, p - SRAM_MIRROR) ELSE m1[p]
  <2>1. \A p \in MirrorWindow : m1[p] = Unmapped
    BY <1>2, <1>3, WindowsDisjoint DEF Pages
  <2>2. QED  BY <1>2, <1>3, <2>1, MapFree DEF MirrorWindow
<1> HIDE DEF m2
<1>5. /\ m3 \in AddressSpace
      /\ \A p \in Pages : m3[p] = IF p \in Weird1Window THEN Advance(weird1, p - WEIRD1_BASE) ELSE m2[p]
  <2>1. \A p \in Weird1Window : m2[p] = Unmapped
    BY <1>2, <1>3, <1>4, WindowsDisjoint DEF Pages
  <2>2. QED  BY <1>2, <1>4, <2>1, MapFree DEF Weird1Window
<1> HIDE DEF m3
<1>6. /\ m4 \in AddressSpace
      /\ \A p \in Pages : m4[p] = IF p \in Weird2Window THEN Advance(weird2, p - WEIRD2_BASE) ELSE m3[p]
  <2>1. \A p \in Weird2Window : m3[p] = Unmapped
    BY <1>2, <1>3, <1>4, <1>5, WindowsDisjoint DEF Pages
  <2>2. QED  BY <1>2, <1>5, <2>1, MapFree DEF Weird2Window
<1> HIDE DEF m4
<1>7. QED  BY <1>1, <1>3, <1>4, <1>5, <1>6, WindowsDisjoint DEF Pages

LEMMA MapSwappedBuilds ==
  LET m == MapSwapped(NothingMapped)
  IN  /\ m \in AddressSpace
      /\ \A p \in SramWindow   : m[p] = InSramWindow(TRUE, FALSE, p - SRAM_BASE)
      /\ \A p \in MirrorWindow : m[p] = InSramWindow(TRUE, FALSE, p - SRAM_MIRROR)
      /\ \A p \in Weird1Window : m[p] = SramAt(SRAM_A_SIZE + (p - WEIRD1_BASE))
      /\ \A p \in Weird2Window : m[p] = SramAt(p - WEIRD2_BASE)
<1> DEFINE LowSram    == Span(SRAM_BASE, SRAM_B_SIZE)
           LowMirror  == Span(SRAM_MIRROR, SRAM_B_SIZE)
           HighSram   == Span(SRAM_BASE + SRAM_A_SIZE, SRAM_B_SIZE)
           HighMirror == Span(SRAM_MIRROR + SRAM_A_SIZE, SRAM_B_SIZE)
           low  == SramAt(SRAM_A_SIZE)
           high == SramAt(0)
           m0 == NothingMapped
           m1 == uc_mem_map_ptr(m0, SRAM_BASE, SRAM_B_SIZE, low)
           m2 == uc_mem_map_ptr(m1, SRAM_MIRROR, SRAM_B_SIZE, low)
           m3 == uc_mem_map_ptr(m2, SRAM_BASE + SRAM_A_SIZE, SRAM_B_SIZE, high)
           m4 == uc_mem_map_ptr(m3, SRAM_MIRROR + SRAM_A_SIZE, SRAM_B_SIZE, high)
           m5 == uc_mem_map_ptr(m4, WEIRD1_BASE, WEIRD_SIZE, low)
           m6 == uc_mem_map_ptr(m5, WEIRD2_BASE, WEIRD_SIZE, high)
<1>1. MapSwapped(NothingMapped) = m6
  BY DEF MapSwapped
<1>2. /\ m0 \in AddressSpace /\ \A p \in Pages : m0[p] = Unmapped
      /\ {SRAM_BASE, SRAM_MIRROR, WEIRD1_BASE, WEIRD2_BASE, SRAM_B_SIZE, WEIRD_SIZE,
          SRAM_BASE + SRAM_A_SIZE, SRAM_MIRROR + SRAM_A_SIZE} \subseteq Nat
  BY HostPages, GeometryAssumption DEF AddressSpace, NothingMapped, SRAM_SIZE
<1>3. low \in HostPage /\ high \in HostPage
  BY HostPages, GeometryAssumption
<1>4. /\ LowSram \cup HighSram \subseteq SramWindow
      /\ LowMirror \cup HighMirror \subseteq MirrorWindow
      /\ LowSram \cap HighSram = {} /\ LowMirror \cap HighMirror = {}
  BY GeometryAssumption DEF Span, SramWindow, MirrorWindow, SRAM_SIZE
<1> HIDE DEF m0, low, high
<1>5. /\ m1 \in AddressSpace
      /\ \A p \in Pages : m1[p] = IF p \in LowSram THEN Advance(low, p - SRAM_BASE) ELSE m0[p]
  <2>1. \A p \in LowSram : m0[p] = Unmapped
    BY <1>2, <1>4 DEF Pages
  <2>2. QED  BY <1>2, <1>3, <2>1, MapFree
<1> HIDE DEF m1
<1>6. /\ m2 \in AddressSpace
      /\ \A p \in Pages : m2[p] = IF p \in LowMirror THEN Advance(low, p - SRAM_MIRROR) ELSE m1[p]
  <2>1. \A p \in LowMirror : m1[p] = Unmapped
    BY <1>2, <1>4, <1>5, WindowsDisjoint DEF Pages
  <2>2. QED  BY <1>2, <1>3, <1>5, <2>1, MapFree
<1> HIDE DEF m2
<1>7. /\ m3 \in AddressSpace
      /\ \A p \in Pages : m3[p] = IF p \in HighSram THEN Advance(high, p - (SRAM_BASE + SRAM_A_SIZE)) ELSE m2[p]
  <2>1. \A p \in HighSram : m2[p] = Unmapped
    BY <1>2, <1>4, <1>5, <1>6, WindowsDisjoint DEF Pages
  <2>2. QED  BY <1>2, <1>3, <1>6, <2>1, MapFree
<1> HIDE DEF m3
<1>8. /\ m4 \in AddressSpace
      /\ \A p \in Pages : m4[p] = IF p \in HighMirror THEN Advance(high, p - (SRAM_MIRROR + SRAM_A_SIZE)) ELSE m3[p]
  <2>1. \A p \in HighMirror : m3[p] = Unmapped
    BY <1>2, <1>4, <1>5, <1>6, <1>7, WindowsDisjoint DEF Pages
  <2>2. QED  BY <1>2, <1>3, <1>7, <2>1, MapFree
<1> HIDE DEF m4
<1>9. /\ m5 \in AddressSpace
      /\ \A p \in Pages : m5[p] = IF p \in Weird1Window THEN Advance(low, p - WEIRD1_BASE) ELSE m4[p]
  <2>1. \A p \in Weird1Window : m4[p] = Unmapped
    BY <1>2, <1>4, <1>5, <1>6, <1>7, <1>8, WindowsDisjoint DEF Pages
  <2>2. QED  BY <1>2, <1>3, <1>8, <2>1, MapFree DEF Weird1Window
<1> HIDE DEF m5
<1>10. /\ m6 \in AddressSpace
       /\ \A p \in Pages : m6[p] = IF p \in Weird2Window THEN Advance(high, p - WEIRD2_BASE) ELSE m5[p]
  <2>1. \A p \in Weird2Window : m5[p] = Unmapped
    BY <1>2, <1>4, <1>5, <1>6, <1>7, <1>8, <1>9, WindowsDisjoint DEF Pages
  <2>2. QED  BY <1>2, <1>3, <1>9, <2>1, MapFree DEF Weird2Window
<1> HIDE DEF m6
<1>11. \A p \in SramWindow : m6[p] = InSramWindow(TRUE, FALSE, p - SRAM_BASE)
  <2> SUFFICES ASSUME NEW p \in SramWindow
               PROVE  m6[p] = InSramWindow(TRUE, FALSE, p - SRAM_BASE)
    OBVIOUS
  <2> DEFINE n == p - SRAM_BASE
  <2>1. /\ n \in Nat
        /\ p \in LowSram <=> n < SRAM_B_SIZE
        /\ p \in HighSram <=> n >= SRAM_A_SIZE
        /\ p - (SRAM_BASE + SRAM_A_SIZE) = n - SRAM_A_SIZE
    BY GeometryAssumption DEF Span, SramWindow, SRAM_SIZE
  <2>2. m6[p] = CASE p \in LowSram -> Advance(low, n)
                  [] p \in HighSram -> Advance(high, n - SRAM_A_SIZE)
                  [] OTHER -> Unmapped
    BY <1>2, <1>4, <1>5, <1>6, <1>7, <1>8, <1>9, <1>10, <2>1, WindowsDisjoint DEF Pages
  <2> HIDE DEF n
  <2>3. Advance(low, n) = SramAt(SRAM_A_SIZE + n)
    BY <2>1, AdvanceInBuffer, GeometryAssumption DEF low
  <2>4. ASSUME p \in HighSram
        PROVE  Advance(high, n - SRAM_A_SIZE) = SramAt(n - SRAM_A_SIZE)
    <3>1. n - SRAM_A_SIZE \in Nat /\ 0 + (n - SRAM_A_SIZE) = n - SRAM_A_SIZE
      BY <2>1, <2>4, GeometryAssumption
    <3>2. QED  BY <3>1, AdvanceInBuffer DEF high
  <2>5. QED  BY <2>1, <2>2, <2>3, <2>4, <1>4, GeometryAssumption DEF InSramWindow, n
<1>12. \A p \in MirrorWindow : m6[p] = InSramWindow(TRUE, FALSE, p - SRAM_MIRROR)
  <2> SUFFICES ASSUME NEW p \in MirrorWindow
               PROVE  m6[p] = InSramWindow(TRUE, FALSE, p - SRAM_MIRROR)
    OBVIOUS
  <2> DEFINE n == p - SRAM_MIRROR
  <2>1. /\ n \in Nat
        /\ p \in LowMirror <=> n < SRAM_B_SIZE
        /\ p \in HighMirror <=> n >= SRAM_A_SIZE
        /\ p - (SRAM_MIRROR + SRAM_A_SIZE) = n - SRAM_A_SIZE
    BY GeometryAssumption DEF Span, MirrorWindow, SRAM_SIZE
  <2>2. m6[p] = CASE p \in LowMirror -> Advance(low, n)
                  [] p \in HighMirror -> Advance(high, n - SRAM_A_SIZE)
                  [] OTHER -> Unmapped
    BY <1>2, <1>4, <1>5, <1>6, <1>7, <1>8, <1>9, <1>10, <2>1, WindowsDisjoint DEF Pages
  <2> HIDE DEF n
  <2>3. Advance(low, n) = SramAt(SRAM_A_SIZE + n)
    BY <2>1, AdvanceInBuffer, GeometryAssumption DEF low
  <2>4. ASSUME p \in HighMirror
        PROVE  Advance(high, n - SRAM_A_SIZE) = SramAt(n - SRAM_A_SIZE)
    <3>1. n - SRAM_A_SIZE \in Nat /\ 0 + (n - SRAM_A_SIZE) = n - SRAM_A_SIZE
      BY <2>1, <2>4, GeometryAssumption
    <3>2. QED  BY <3>1, AdvanceInBuffer DEF high
  <2>5. QED  BY <2>1, <2>2, <2>3, <2>4, <1>4, GeometryAssumption DEF InSramWindow, n
<1>13. \A p \in Weird1Window : m6[p] = SramAt(SRAM_A_SIZE + (p - WEIRD1_BASE))
  <2>1. \A p \in Weird1Window : p - WEIRD1_BASE \in Nat
    BY GeometryAssumption DEF Weird1Window, Span
  <2>2. QED
    BY <1>9, <1>10, <2>1, AdvanceInBuffer, WindowsDisjoint, GeometryAssumption DEF Pages, low
<1>14. \A p \in Weird2Window : m6[p] = SramAt(p - WEIRD2_BASE)
  <2>1. \A p \in Weird2Window : p - WEIRD2_BASE \in Nat /\ 0 + (p - WEIRD2_BASE) = p - WEIRD2_BASE
    BY GeometryAssumption DEF Weird2Window, Span
  <2>2. QED
    BY <1>10, <2>1, AdvanceInBuffer DEF Pages, high
<1>15. QED  BY <1>1, <1>10, <1>11, <1>12, <1>13, <1>14

LEMMA RemapBuilds ==
  ASSUME NEW i \in BOOLEAN, NEW b \in BOOLEAN
  PROVE  Remap(NothingMapped, i, b) = Layout(i, b)
<1> DEFINE m == Remap(NothingMapped, i, b)
<1>1. /\ \A p \in SramWindow   : p - SRAM_BASE \in Nat
      /\ \A p \in MirrorWindow : p - SRAM_MIRROR \in Nat
      /\ \A p \in Weird1Window : p - WEIRD1_BASE \in Nat
      /\ \A p \in Weird2Window : p - WEIRD2_BASE \in Nat
      /\ WEIRD_SIZE \in Nat
  BY GeometryAssumption DEF Span, SramWindow, MirrorWindow, Weird1Window, Weird2Window
<1>2. \A n \in Nat : /\ Advance(SramAt(0), n) = SramAt(n)
                     /\ Advance(Boot0At(0), n) = Boot0At(n)
                     /\ Advance(SramAt(WEIRD_SIZE), n) = SramAt(WEIRD_SIZE + n)
  <2>1. \A n \in Nat : 0 + n = n
    OBVIOUS
  <2>2. QED  BY <1>1, <2>1, AdvanceInBuffer
<1>3. SramAt(0) \in HostPage /\ Boot0At(0) \in HostPage /\ SramAt(WEIRD_SIZE) \in HostPage
  BY <1>1, HostPages
<1>4. /\ m \in AddressSpace
      /\ \A p \in SramWindow   : m[p] = InSramWindow(i, b, p - SRAM_BASE)
      /\ \A p \in MirrorWindow : m[p] = InSramWindow(i, b, p - SRAM_MIRROR)
      /\ \A p \in Weird1Window : m[p] = InWeird1(i, b, p - WEIRD1_BASE)
      /\ \A p \in Weird2Window : m[p] = InWeird2(i, b, p - WEIRD2_BASE)
  <2>1. CASE b /\ ~i
    <3>1. m = MapWindows(NothingMapped, SramAt(0), SramAt(0), Boot0At(0))
      BY <2>1 DEF Remap
    <3> HIDE DEF m
    <3>2. QED
      BY <1>1, <1>2, <1>3, <2>1, <3>1, MapWindowsBuilds DEF InSramWindow, InWeird1, InWeird2
  <2>2. CASE b /\ i
    <3>1. m = MapWindows(NothingMapped, Boot0At(0), Boot0At(0), SramAt(0))
      BY <2>2 DEF Remap
    <3> HIDE DEF m
    <3>2. QED
      BY <1>1, <1>2, <1>3, <2>2, <3>1, MapWindowsBuilds DEF InSramWindow, InWeird1, InWeird2
  <2>3. CASE ~b /\ ~i
    <3>1. m = MapWindows(NothingMapped, SramAt(0), SramAt(0), SramAt(WEIRD_SIZE))
      BY <2>3 DEF Remap
    <3> HIDE DEF m
    <3>2. QED
      BY <1>1, <1>2, <1>3, <2>3, <3>1, MapWindowsBuilds DEF InSramWindow, InWeird1, InWeird2
  <2>4. CASE ~b /\ i
    <3>1. m = MapSwapped(NothingMapped)
      BY <2>4 DEF Remap
    <3>2. i = TRUE /\ b = FALSE
      BY <2>4
    <3> HIDE DEF m
    <3>3. QED
      BY <3>1, <3>2, MapSwappedBuilds DEF InWeird1, InWeird2
  <2>5. QED  BY <2>1, <2>2, <2>3, <2>4
<1> HIDE DEF m
<1>5. \A p \in Pages : m[p] = Shown(i, b, p)
  BY <1>4, ShownSram DEF Pages
<1>6. QED  BY <1>4, <1>5 DEF Layout, AddressSpace, m

(* MEM_ARM_SetSRAM turns the layout of any controls into that of any other  *)
(* ones, and the first call of ARM_Main builds the layout it asks for.      *)
THEOREM SetSRAMChangesLayout ==
  ASSUME NEW i \in BOOLEAN, NEW b \in BOOLEAN, NEW oldI \in BOOLEAN, NEW oldB \in BOOLEAN,
         mem = Layout(oldI, oldB), MEM_ARM_SetSRAM(i, b)
  PROVE  mem' = Layout(i, b) /\ MEM_ARM_SRAMState' = SramState(i, b)
  BY UnmapClears, RemapBuilds DEF MEM_ARM_SetSRAM

THEOREM MemInitBuildsLayout ==
  MemInit => mem = Layout(FALSE, TRUE) /\ MEM_ARM_SRAMState = SramState(FALSE, TRUE)
  BY UnmapNothing, RemapBuilds DEF MemInit

-----------------------------------------------------------------------------
(* The registers.                                                          *)

(* What swapping does to the place of a bit.                                *)
Mirror(b) ==
  IF b < 8 THEN b + 24 ELSE IF b < 16 THEN b + 8 ELSE IF b < 24 THEN b - 8 ELSE b - 24

LEMMA SwapMovesBits ==
  ASSUME NEW w \in Word, NEW b \in Bit
  PROVE  Mirror(b) \in Bit /\ (b \in SWAP_32(w) <=> Mirror(b) \in w)
  BY DEF SWAP_32, Mirror, Word, Bit, Byte, Shl, Shr

(* A word that is swapped for the bus and swapped again by the guest is the *)
(* word the program keeps (SWAP_32 in every register handler).              *)
THEOREM SwapTwice ==
  ASSUME NEW w \in Word
  PROVE  SWAP_32(w) \in Word /\ SWAP_32(SWAP_32(w)) = w
<1>1. SWAP_32(w) \in Word
  BY DEF SWAP_32, Word, Bit, Shl, Shr
<1>2. SWAP_32(SWAP_32(w)) \in Word
  BY <1>1 DEF SWAP_32, Word, Bit, Shl, Shr
<1>3. \A b \in Bit : Mirror(b) \in Bit /\ Mirror(Mirror(b)) = b
  BY DEF Bit, Mirror
<1>4. \A b \in Bit : b \in SWAP_32(SWAP_32(w)) <=> b \in w
  BY <1>1, <1>3, SwapMovesBits
<1>5. QED  BY <1>1, <1>2, <1>4 DEF Word

-----------------------------------------------------------------------------
(* BOOT0's cache entry is written by BOOT0 and by SPARE0.  The values that  *)
(* SPARE0 plants do not have bit 12, so the bit can only come from a write  *)
(* that took the boot ROM away.                                             *)
CacheAgrees == 12 \in HW_Register_Cache["HW_BOOT0"] => ~HW_boot0_State

(* An OTP is imported exactly when there is one to read words from.         *)
OtpAgrees ==
  /\ HW_OTPImported <=> HW_CurrentOTP # NoImage
  /\ HW_OTP_Data.image \in {NoImage, HW_CurrentOTP}

IInv == TypeOK /\ MapMatchesRegisters /\ CacheAgrees /\ OtpAgrees

LEMMA ImagesNotNone == NoImage \notin OtpImages /\ NoImage \notin SeepromImages
  BY ImageAssumption

LEMMA WrittenWords ==
  /\ Written["HW_SRNPROT"] \subseteq Word   /\ Written["HW_BOOT0"] \subseteq Word
  /\ Written["HW_SPARE0"] \subseteq Word    /\ Written["HW_OTPCMD"] \subseteq Word
  /\ Written["HW_GPIO_ENABLE"] \subseteq Word /\ Written["HW_GPIO_DIR"] \subseteq Word
  /\ Written["HW_GPIO_OUT"] \subseteq Word  /\ Written["HW_GPIO_INTFLAG"] \subseteq Word
  /\ Written["HW_AIPPROT"] \subseteq Word   /\ Written["HW_OTHER"] \subseteq Word
  BY RegisterAssumption DEF HandledRegisters, CachedRegisters

LEMMA InitInvariant == Init => IInv
<1> SUFFICES ASSUME Init PROVE IInv
  OBVIOUS
<1>1. mem = Layout(FALSE, TRUE) /\ MEM_ARM_SRAMState = SramState(FALSE, TRUE)
  BY MemInitBuildsLayout DEF Init
<1>2. iouen = FALSE /\ HW_boot0_State = TRUE
  BY DEF Init, iouen
<1>3. MapMatchesRegisters
  BY <1>1, <1>2 DEF MapMatchesRegisters
<1>4. mem \in AddressSpace /\ MEM_ARM_SRAMState \in {0, 1, 2, 4}
  BY <1>1, LayoutType DEF SramState
<1>5. /\ HW_CurrentOTP \in OtpImages \cup {NoImage}
      /\ HW_CurrentSEEPROM \in SeepromImages \cup {NoImage}
      /\ HW_OTPImported \in BOOLEAN /\ HW_SEEPROMImported \in BOOLEAN
      /\ HW_SRNPROT_State \in Word /\ HW_boot0_State \in BOOLEAN
      /\ HW_OTP_Data \in OtpReading \cup {NoCommand}
      /\ HW_State_GPIO_En \in Word /\ HW_State_GPIO_Dir \in Word
      /\ HW_State_GPIO_IntFlag \in Word /\ HW_State_GPIO \in Word
      /\ HW_State_AIPPROT \in Word
      /\ HW_Register_Cache \in [CachedRegisters -> Word]
  BY DEF Init, Word
<1>6. HW_State_Timer \in 0..(TIMER_LIMIT - 1)
  BY RegisterAssumption DEF Init
<1>7. CacheAgrees
  BY DEF Init, CacheAgrees, CachedRegisters
<1>8. OtpAgrees
  BY DEF Init, OtpAgrees, NoCommand
<1>9. QED  BY <1>3, <1>4, <1>5, <1>6, <1>7, <1>8 DEF IInv, TypeOK

(* A step that leaves the mapping and its controls alone keeps the map.     *)
LEMMA MapKept ==
  ASSUME MapMatchesRegisters, UNCHANGED <<memVars, HW_SRNPROT_State, HW_boot0_State>>
  PROVE  MapMatchesRegisters'
  BY DEF MapMatchesRegisters, memVars, iouen

(* A remapping step installs the layout of the controls it leaves behind.   *)
LEMMA MapChanged ==
  ASSUME MapMatchesRegisters, HW_boot0_State \in BOOLEAN, HW_boot0_State' \in BOOLEAN,
         MEM_ARM_SetSRAM(iouen', HW_boot0_State')
  PROVE  /\ MapMatchesRegisters'
         /\ mem' \in AddressSpace /\ MEM_ARM_SRAMState' \in {0, 1, 2, 4}
<1>1. iouen \in BOOLEAN /\ iouen' \in BOOLEAN
  BY DEF iouen
<1>2. /\ mem' = Layout(iouen', HW_boot0_State')
      /\ MEM_ARM_SRAMState' = SramState(iouen', HW_boot0_State')
  BY <1>1, SetSRAMChangesLayout DEF MapMatchesRegisters
<1>3. QED  BY <1>1, <1>2, LayoutType DEF MapMatchesRegisters, SramState

LEMMA StepInvariant == IInv /\ [Next]_vars => IInv'
<1> SUFFICES ASSUME IInv, [Next]_vars PROVE IInv'
  OBVIOUS
<1> USE DEF IInv
<1>1. ASSUME NEW v \in Written["HW_SRNPROT"], WriteSRNPROT(v) PROVE IInv'
  <2>1. iouen' = (5 \in v) /\ HW_boot0_State' = HW_boot0_State
    BY <1>1 DEF WriteSRNPROT, iouen
  <2>2. MapMatchesRegisters' /\ mem' \in AddressSpace /\ MEM_ARM_SRAMState' \in {0, 1, 2, 4}
    BY <1>1, <2>1, MapChanged DEF WriteSRNPROT, TypeOK
  <2>3. TypeOK' /\ CacheAgrees' /\ OtpAgrees'
    BY <1>1, <2>2, WrittenWords
       DEF WriteSRNPROT, TypeOK, CacheAgrees, OtpAgrees, keyVars, gpioVars
  <2>4. QED  BY <2>2, <2>3
<1>2. ASSUME NEW v \in Written["HW_BOOT0"], WriteBOOT0(v) PROVE IInv'
  <2>1. HW_boot0_State' = (12 \notin v) /\ iouen' = (5 \in HW_SRNPROT_State)
    BY <1>2 DEF WriteBOOT0, iouen
  <2>2. MapMatchesRegisters' /\ mem' \in AddressSpace /\ MEM_ARM_SRAMState' \in {0, 1, 2, 4}
    BY <1>2, <2>1, MapChanged DEF WriteBOOT0, TypeOK
  <2>3. v \in Word
    BY WrittenWords
  <2>4. HW_Register_Cache' \in [CachedRegisters -> Word] /\ CacheAgrees'
    BY <1>2, <2>1, <2>3 DEF WriteBOOT0, TypeOK, CacheAgrees, CachedRegisters
  <2>5. TypeOK' /\ OtpAgrees'
    BY <1>2, <2>1, <2>2, <2>4 DEF WriteBOOT0, TypeOK, OtpAgrees, keyVars, gpioVars
  <2>6. QED  BY <2>2, <2>4, <2>5
<1>3. ASSUME NEW v \in Written["HW_SPARE0"], WriteSPARE0(v) PROVE IInv'
  <2>1. MapMatchesRegisters'
    BY <1>3, MapKept DEF WriteSPARE0
  <2>2. v \in Word /\ {} \in Word /\ {0, 3} \in Word /\ 12 \notin {} /\ 12 \notin {0, 3}
    BY WrittenWords DEF Word, Bit
  <2>3. HW_Register_Cache' \in [CachedRegisters -> Word] /\ CacheAgrees'
    BY <1>3, <2>2 DEF WriteSPARE0, TypeOK, CacheAgrees, CachedRegisters
  <2>4. TypeOK' /\ OtpAgrees'
    BY <1>3, <2>3 DEF WriteSPARE0, TypeOK, OtpAgrees, memVars, keyVars, gpioVars
  <2>5. QED  BY <2>1, <2>3, <2>4
<1>4. ASSUME NEW v \in Written["HW_OTPCMD"], WriteOTPCMD(v) PROVE IInv'
  <2>1. MapMatchesRegisters'
    BY <1>4, MapKept DEF WriteOTPCMD
  <2>2. HW_OTP_Data' \in OtpReading /\ OtpAgrees'
    BY <1>4 DEF WriteOTPCMD, TypeOK, OtpAgrees, OtpReading, OtpWord, keyVars
  <2>3. TypeOK' /\ CacheAgrees'
    BY <1>4, <2>2 DEF WriteOTPCMD, TypeOK, CacheAgrees, memVars, keyVars, gpioVars
  <2>4. QED  BY <2>1, <2>2, <2>3
<1>5. ASSUME NEW v \in Word,
             \/ WriteGPIO_ENABLE(v) \/ WriteGPIO_DIR(v)
             \/ WriteGPIO_OUT(v) \/ WriteGPIO_INTFLAG(v)
      PROVE  IInv'
  <2>1. GpioUnchanged
    BY <1>5 DEF WriteGPIO_ENABLE, WriteGPIO_DIR, WriteGPIO_OUT, WriteGPIO_INTFLAG
  <2>2. MapMatchesRegisters'
    BY <2>1, MapKept DEF GpioUnchanged
  <2>3. /\ HW_State_GPIO_En' \in Word /\ HW_State_GPIO_Dir' \in Word
        /\ HW_State_GPIO_IntFlag' \in Word /\ HW_State_GPIO' \in Word
    BY <1>5 DEF WriteGPIO_ENABLE, WriteGPIO_DIR, WriteGPIO_OUT, WriteGPIO_INTFLAG,
                TypeOK, Word
  <2>4. TypeOK' /\ CacheAgrees' /\ OtpAgrees'
    BY <2>1, <2>3 DEF GpioUnchanged, TypeOK, CacheAgrees, OtpAgrees, memVars, keyVars
  <2>5. QED  BY <2>2, <2>4
<1>6. ASSUME NEW v \in Written["HW_AIPPROT"], WriteAIPPROT(v) PROVE IInv'
  <2>1. MapMatchesRegisters'
    BY <1>6, MapKept DEF WriteAIPPROT
  <2>2. TypeOK' /\ CacheAgrees' /\ OtpAgrees'
    BY <1>6, WrittenWords
       DEF WriteAIPPROT, TypeOK, CacheAgrees, OtpAgrees, memVars, keyVars, gpioVars
  <2>3. QED  BY <2>1, <2>2
<1>7. ASSUME NEW v \in Written["HW_OTHER"], WriteOther(v) PROVE IInv'
  <2>1. MapMatchesRegisters'
    BY <1>7, MapKept DEF WriteOther
  <2>2. HW_Register_Cache' \in [CachedRegisters -> Word] /\ CacheAgrees'
    BY <1>7, WrittenWords DEF WriteOther, TypeOK, CacheAgrees, CachedRegisters
  <2>3. TypeOK' /\ OtpAgrees'
    BY <1>7, <2>2 DEF WriteOther, TypeOK, OtpAgrees, memVars, keyVars, gpioVars
  <2>4. QED  BY <2>1, <2>2, <2>3
<1>8. ASSUME HW_IncrementTimer PROVE IInv'
  <2>1. MapMatchesRegisters'
    BY <1>8, MapKept DEF HW_IncrementTimer
  <2>2. HW_State_Timer' \in 0..(TIMER_LIMIT - 1)
    BY <1>8, RegisterAssumption DEF HW_IncrementTimer, TypeOK
  <2>3. TypeOK' /\ CacheAgrees' /\ OtpAgrees'
    BY <1>8, <2>2
       DEF HW_IncrementTimer, TypeOK, CacheAgrees, OtpAgrees, memVars, keyVars, gpioVars
  <2>4. QED  BY <2>1, <2>3
<1>9. ASSUME NEW otp \in OtpImages, NEW seeprom \in SeepromImages, ImportNandKeys(otp, seeprom)
      PROVE  IInv'
  <2>1. MapMatchesRegisters'
    BY <1>9, MapKept DEF ImportNandKeys
  <2>2. /\ HW_CurrentOTP' \in OtpImages \cup {NoImage}
        /\ HW_CurrentSEEPROM' \in SeepromImages \cup {NoImage}
        /\ HW_OTPImported' \in BOOLEAN /\ HW_SEEPROMImported' \in BOOLEAN
    BY <1>9 DEF ImportNandKeys, HW_ImportKeys, ImportsOTP, ImportsSEEPROM, TypeOK
  <2>3. OtpAgrees'
    BY <1>9, ImagesNotNone
       DEF ImportNandKeys, HW_ImportKeys, ImportsOTP, OtpAgrees, TypeOK
  <2>4. TypeOK' /\ CacheAgrees'
    BY <1>9, <2>2 DEF ImportNandKeys, TypeOK, CacheAgrees, memVars, gpioVars
  <2>5. QED  BY <2>1, <2>3, <2>4
<1>10. ASSUME UNCHANGED vars PROVE IInv'
  <2>1. MapMatchesRegisters'
    BY <1>10, MapKept DEF vars
  <2>2. TypeOK' /\ CacheAgrees' /\ OtpAgrees'
    BY <1>10 DEF vars, TypeOK, CacheAgrees, OtpAgrees, memVars, keyVars, gpioVars
  <2>3. QED  BY <2>1, <2>2
<1>11. QED
  BY <1>1, <1>2, <1>3, <1>4, <1>5, <1>6, <1>7, <1>8, <1>9, <1>10, WrittenWords
     DEF Next, GuestWrite

THEOREM Invariant == Spec => []IInv
  BY InitInvariant, StepInvariant, PTL DEF Spec

-----------------------------------------------------------------------------
(* Every variable keeps the kind of value its C type and use allow.         *)
THEOREM TypeCorrect == Spec => []TypeOK
  BY Invariant, PTL DEF IInv

(* Whatever the guest writes and in whatever order, the map that Unicorn    *)
(* holds is the layout that SRNPROT and BOOT0 ask for (HW_WriteRegister,    *)
(* MEM_ARM_SetSRAM).                                                        *)
THEOREM MapCorrect == Spec => []MapMatchesRegisters
  BY Invariant, PTL DEF IInv

(* What is read from the OTP port is of the OTP that stays installed, or    *)
(* was read before there was one (HW_ImportKeys, HW_OTPCMD).                *)
THEOREM OtpReadingCorrect == Spec => []OtpReadingStaysValid
  BY Invariant, PTL DEF IInv, OtpAgrees, OtpReadingStaysValid

(* MEM_EmuToHost translates the SRAM windows by the distance from their     *)
(* bases.                                                                   *)
LEMMA SramTranslated ==
  /\ \A p \in SramWindow   : MEM_EmuToHost(p) = SramAt(p - SRAM_BASE)
  /\ \A p \in MirrorWindow : MEM_EmuToHost(p) = SramAt(p - SRAM_MIRROR)
<1>1. ASSUME NEW p \in SramWindow PROVE MEM_EmuToHost(p) = SramAt(p - SRAM_BASE)
  <2>1. /\ p \notin MirrorWindow
        /\ p \notin Span(MEM1_BASE, MEM1_SIZE) /\ p \notin Span(MEM2_BASE, MEM2_SIZE)
    BY GeometryAssumption DEF SramWindow, MirrorWindow, Span, SRAM_SIZE
  <2>2. QED  BY <2>1 DEF MEM_EmuToHost
<1>2. ASSUME NEW p \in MirrorWindow PROVE MEM_EmuToHost(p) = SramAt(p - SRAM_MIRROR)
  <2>1. /\ p \notin SramWindow
        /\ p \notin Span(MEM1_BASE, MEM1_SIZE) /\ p \notin Span(MEM2_BASE, MEM2_SIZE)
    BY GeometryAssumption DEF SramWindow, MirrorWindow, Span, SRAM_SIZE
  <2>2. QED  BY <2>1 DEF MEM_EmuToHost
<1>3. QED  BY <1>1, <1>2

(* That is what the layouts with iouen off show.                            *)
LEMMA LayoutTranslated ==
  ASSUME NEW b \in BOOLEAN, NEW p \in SramWindow \cup MirrorWindow
  PROVE  Layout(FALSE, b)[p] = MEM_EmuToHost(p)
<1>1. Layout(FALSE, b)[p] = Shown(FALSE, b, p)
  BY DEF Layout, Pages
<1>2. \A n : InSramWindow(FALSE, b, n) = SramAt(n)
  BY DEF InSramWindow
<1>3. QED  BY <1>1, <1>2, ShownSram, SramTranslated

(* With iouen off, the devices and the CPU agree on the SRAM windows        *)
(* (MEM_EmuToHost, MEM_ARM_SetSRAM).                                        *)
THEOREM DevicesAgree == Spec => []DeviceSeesWhatCpuSees
<1>1. IInv => DeviceSeesWhatCpuSees
  <2> SUFFICES ASSUME IInv, ~iouen PROVE DeviceSeesWhatCpuSees
    BY DEF DeviceSeesWhatCpuSees
  <2>1. mem = Layout(FALSE, HW_boot0_State) /\ HW_boot0_State \in BOOLEAN
    <3>1. iouen = FALSE
      BY DEF iouen
    <3>2. QED  BY <3>1 DEF IInv, MapMatchesRegisters, TypeOK
  <2>2. QED  BY <2>1, LayoutTranslated DEF DeviceSeesWhatCpuSees
<1>2. QED  BY <1>1, Invariant, PTL

(* Without the boot ROM every page of SRAM is in the fffe and ffff windows. *)
LEMMA SramInWeirdWindows ==
  ASSUME NEW i \in BOOLEAN, NEW k \in 0..(SRAM_SIZE - 1)
  PROVE  \E q \in Weird1Window \cup Weird2Window : Layout(i, FALSE)[q] = SramAt(k)
<1> USE GeometryAssumption DEF SRAM_SIZE
<1>1. /\ \A q \in Weird1Window : Layout(i, FALSE)[q] = InWeird1(i, FALSE, q - WEIRD1_BASE)
      /\ \A q \in Weird2Window : Layout(i, FALSE)[q] = InWeird2(i, FALSE, q - WEIRD2_BASE)
  BY ShownSram DEF Layout, Pages
<1>2. /\ \A n \in 0..(WEIRD_SIZE - 1) : WEIRD1_BASE + n \in Weird1Window
                                       /\ WEIRD2_BASE + n \in Weird2Window
      /\ \A n \in Nat : (WEIRD1_BASE + n) - WEIRD1_BASE = n
                       /\ (WEIRD2_BASE + n) - WEIRD2_BASE = n
  BY DEF Weird1Window, Weird2Window, Span
<1>3. \A n \in 0..(WEIRD_SIZE - 1) :
        /\ Layout(i, FALSE)[WEIRD1_BASE + n] = InWeird1(i, FALSE, n)
        /\ Layout(i, FALSE)[WEIRD2_BASE + n] = InWeird2(i, FALSE, n)
  <2> TAKE n \in 0..(WEIRD_SIZE - 1)
  <2>1. /\ WEIRD1_BASE + n \in Weird1Window /\ (WEIRD1_BASE + n) - WEIRD1_BASE = n
        /\ WEIRD2_BASE + n \in Weird2Window /\ (WEIRD2_BASE + n) - WEIRD2_BASE = n
    BY <1>2
  <2>2. QED  BY <1>1, <2>1
<1>4. CASE i /\ k < SRAM_A_SIZE
  <2>1. k \in 0..(WEIRD_SIZE - 1)
    BY <1>4
  <2>2. Layout(i, FALSE)[WEIRD2_BASE + k] = SramAt(k)
    BY <2>1, <1>3, <1>4 DEF InWeird2
  <2>3. QED  BY <2>1, <2>2, <1>2
<1>5. CASE i /\ k >= SRAM_A_SIZE
  <2>1. k - SRAM_A_SIZE \in 0..(WEIRD_SIZE - 1) /\ SRAM_A_SIZE + (k - SRAM_A_SIZE) = k
    BY <1>5
  <2>2. Layout(i, FALSE)[WEIRD1_BASE + (k - SRAM_A_SIZE)] = SramAt(k)
    BY <2>1, <1>3, <1>5 DEF InWeird1
  <2>3. QED  BY <2>1, <2>2, <1>2
<1>6. CASE ~i /\ k < WEIRD_SIZE
  <2>1. k \in 0..(WEIRD_SIZE - 1)
    BY <1>6
  <2>2. Layout(i, FALSE)[WEIRD1_BASE + k] = SramAt(k)
    BY <2>1, <1>3, <1>6 DEF InWeird1
  <2>3. QED  BY <2>1, <2>2, <1>2
<1>7. CASE ~i /\ k >= WEIRD_SIZE
  <2>1. k - WEIRD_SIZE \in 0..(WEIRD_SIZE - 1) /\ WEIRD_SIZE + (k - WEIRD_SIZE) = k
    BY <1>7
  <2>2. Layout(i, FALSE)[WEIRD2_BASE + (k - WEIRD_SIZE)] = SramAt(k)
    BY <2>1, <1>3, <1>7 DEF InWeird2
  <2>3. QED  BY <2>1, <2>2, <1>2
<1>8. (k < SRAM_A_SIZE \/ k >= SRAM_A_SIZE) /\ (k < WEIRD_SIZE \/ k >= WEIRD_SIZE)
  OBVIOUS
<1>9. QED  BY <1>4, <1>5, <1>6, <1>7, <1>8, Zenon

(* Once the boot ROM is gone, the page a device works on is in one of the   *)
(* windows that show the whole of SRAM (MEM_EmuToHost, MEM_ARM_SetSRAM).    *)
THEOREM SramVisible == Spec => []WholeSramVisible
<1>1. IInv => WholeSramVisible
  <2> SUFFICES ASSUME IInv, ~HW_boot0_State, NEW p \in SramWindow
               PROVE  \E q \in Weird1Window \cup Weird2Window : mem[q] = MEM_EmuToHost(p)
    BY DEF WholeSramVisible
  <2>1. mem = Layout(iouen, FALSE) /\ iouen \in BOOLEAN
    <3>1. HW_boot0_State = FALSE
      BY DEF IInv, TypeOK
    <3>2. iouen \in BOOLEAN
      BY DEF iouen
    <3>3. QED  BY <3>1, <3>2 DEF IInv, MapMatchesRegisters
  <2>2. p - SRAM_BASE \in 0..(SRAM_SIZE - 1)
    BY GeometryAssumption DEF SramWindow, Span, SRAM_SIZE
  <2>3. QED  BY <2>1, <2>2, SramInWeirdWindows, SramTranslated
<1>2. QED  BY <1>1, Invariant, PTL

(* Between two layouts that differ in the boot ROM only.                    *)
LEMMA BootLeavesInPlace ==
  ASSUME NEW i \in BOOLEAN, NEW b \in BOOLEAN, NEW c \in BOOLEAN,
         NEW p \in IF i THEN Weird2Window
                   ELSE SramWindow \cup MirrorWindow \cup Weird1Window
  PROVE  Layout(i, b)[p] = Layout(i, c)[p]
<1>1. p \in Pages
  BY DEF Pages
<1>2. Layout(i, b)[p] = Shown(i, b, p) /\ Layout(i, c)[p] = Shown(i, c, p)
  BY <1>1 DEF Layout
<1>3. CASE i
  BY <1>2, <1>3, ShownSram DEF InWeird2
<1>4. CASE ~i
  <2>1. \A n : /\ InSramWindow(i, b, n) = SramAt(n) /\ InSramWindow(i, c, n) = SramAt(n)
               /\ InWeird1(i, b, n) = SramAt(n) /\ InWeird1(i, c, n) = SramAt(n)
    BY <1>4 DEF InSramWindow, InWeird1
  <2>2. QED  BY <1>2, <1>4, <2>1, ShownSram
<1>5. QED  BY <1>3, <1>4

(* Code that turns the boot ROM on or off goes on in the page it runs in.   *)
THEOREM CodeStays == Spec => CodeStaysInPlace
<1> DEFINE Kept == IF iouen THEN Weird2Window
                   ELSE SramWindow \cup MirrorWindow \cup Weird1Window
           Stays == HW_boot0_State' # HW_boot0_State => \A p \in Kept : mem'[p] = mem[p]
<1>1. IInv /\ [Next]_vars => Stays
  <2> SUFFICES ASSUME IInv, [Next]_vars, HW_boot0_State' # HW_boot0_State,
                      NEW p \in Kept
               PROVE  mem'[p] = mem[p]
    OBVIOUS
  <2>1. IInv'
    BY StepInvariant
  <2>2. HW_SRNPROT_State' = HW_SRNPROT_State
    BY DEF Next, GuestWrite, WriteSRNPROT, WriteBOOT0, WriteSPARE0, WriteOTPCMD,
           WriteGPIO_ENABLE, WriteGPIO_DIR, WriteGPIO_OUT, WriteGPIO_INTFLAG, GpioUnchanged,
           WriteAIPPROT, WriteOther, HW_IncrementTimer, ImportNandKeys, vars
  <2>3. mem = Layout(iouen, HW_boot0_State) /\ mem' = Layout(iouen, HW_boot0_State')
    BY <2>1, <2>2 DEF IInv, MapMatchesRegisters, iouen
  <2>4. iouen \in BOOLEAN /\ HW_boot0_State \in BOOLEAN /\ HW_boot0_State' \in BOOLEAN
    BY <2>1 DEF IInv, TypeOK, iouen
  <2>5. QED  BY <2>3, <2>4, BootLeavesInPlace
<1>2. IInv /\ [Next]_vars => [Stays]_vars
  BY <1>1
<1>3. QED  BY <1>2, Invariant, PTL DEF Spec, CodeStaysInPlace

(* The fff0 window is always a mirror of the 0d40 window.                   *)
THEOREM MirrorCorrect == Spec => []WindowsMirror
<1>1. IInv => WindowsMirror
  <2> SUFFICES ASSUME IInv, NEW n \in 0..(SRAM_SIZE - 1)
               PROVE  mem[SRAM_BASE + n] = mem[SRAM_MIRROR + n]
    BY DEF WindowsMirror
  <2>1. /\ SRAM_BASE + n \in SramWindow /\ SRAM_MIRROR + n \in MirrorWindow
        /\ (SRAM_BASE + n) - SRAM_BASE = n /\ (SRAM_MIRROR + n) - SRAM_MIRROR = n
    BY GeometryAssumption DEF SramWindow, MirrorWindow, Span, SRAM_SIZE
  <2>2. iouen \in BOOLEAN /\ HW_boot0_State \in BOOLEAN
    BY DEF IInv, TypeOK, iouen
  <2>3. QED
    BY <2>1, <2>2, ShownSram DEF IInv, MapMatchesRegisters, Layout, Pages
<1>2. QED  BY <1>1, Invariant, PTL

(* The boot ROM is in the windows exactly while it is enabled, and is never *)
(* writable there.                                                          *)
LEMMA Boot0Shown ==
  ASSUME NEW i \in BOOLEAN, NEW b \in BOOLEAN, NEW p \in Pages
  PROVE  Shown(i, b, p).buf = "BOOT0" => b /\ ~Shown(i, b, p).writable
<1>1. \A n : /\ SramAt(n).buf # "BOOT0" /\ Unmapped.buf # "BOOT0"
             /\ ~Boot0At(n).writable
  BY DEF SramAt, Boot0At, Unmapped
<1>2. CASE p \in SramWindow \cup MirrorWindow
  <2>1. \A n : InSramWindow(i, b, n).buf = "BOOT0" => b /\ ~InSramWindow(i, b, n).writable
    BY <1>1 DEF InSramWindow
  <2>2. QED  BY <1>2, <2>1, ShownSram
<1>3. CASE p \in Weird1Window
  <2>1. \A n : InWeird1(i, b, n).buf = "BOOT0" => b /\ ~InWeird1(i, b, n).writable
    BY <1>1 DEF InWeird1
  <2>2. QED  BY <1>3, <2>1, ShownSram
<1>4. CASE p \in Weird2Window
  <2>1. \A n : InWeird2(i, b, n).buf = "BOOT0" => b /\ ~InWeird2(i, b, n).writable
    BY <1>1 DEF InWeird2
  <2>2. QED  BY <1>4, <2>1, ShownSram
<1>5. QED  BY <1>2, <1>3, <1>4 DEF Pages

THEOREM Boot0Correct == Spec => []Boot0SeenWhileEnabled
<1>1. IInv => Boot0SeenWhileEnabled
  <2> SUFFICES ASSUME IInv PROVE Boot0SeenWhileEnabled
    OBVIOUS
  <2>1. iouen \in BOOLEAN /\ HW_boot0_State \in BOOLEAN
    BY DEF IInv, TypeOK, iouen
  <2>2. \A p \in Pages : mem[p] = Shown(iouen, HW_boot0_State, p)
    BY DEF IInv, MapMatchesRegisters, Layout
  <2>3. \A p \in Pages : mem[p].buf = "BOOT0" => HW_boot0_State /\ ~mem[p].writable
    BY <2>1, <2>2, Boot0Shown
  <2>4. ASSUME HW_boot0_State PROVE \E p \in Pages : mem[p].buf = "BOOT0"
    <3>1. \A n : Boot0At(n).buf = "BOOT0"
      BY DEF Boot0At
    <3>2. WEIRD1_BASE \in Weird1Window /\ WEIRD2_BASE \in Weird2Window
      BY GeometryAssumption DEF Weird1Window, Weird2Window, Span
    <3>3. CASE iouen
      <4>1. mem[WEIRD1_BASE] = InWeird1(iouen, HW_boot0_State, WEIRD1_BASE - WEIRD1_BASE)
        BY <2>1, <2>2, <3>2, ShownSram DEF Pages
      <4>2. mem[WEIRD1_BASE].buf = "BOOT0"
        BY <2>4, <3>1, <3>3, <4>1 DEF InWeird1
      <4>3. QED  BY <3>2, <4>2 DEF Pages
    <3>4. CASE ~iouen
      <4>1. mem[WEIRD2_BASE] = InWeird2(iouen, HW_boot0_State, WEIRD2_BASE - WEIRD2_BASE)
        BY <2>1, <2>2, <3>2, ShownSram DEF Pages
      <4>2. mem[WEIRD2_BASE].buf = "BOOT0"
        BY <2>4, <3>1, <3>4, <4>1 DEF InWeird2
      <4>3. QED  BY <3>2, <4>2 DEF Pages
    <3>5. QED  BY <3>3, <3>4
  <2>5. QED  BY <2>3, <2>4 DEF Boot0SeenWhileEnabled
<1>2. QED  BY <1>1, Invariant, PTL

(* A guest that reads bit 12 of BOOT0 can rely on the boot ROM being gone,  *)
(* although SPARE0 plants other values in what BOOT0 reads.                 *)
THEOREM BootFlagCorrect == Spec => []BootFlagIsSound
<1>1. IInv => BootFlagIsSound
  <2> SUFFICES ASSUME IInv, 12 \in GuestRead("HW_BOOT0"), NEW p \in Pages
               PROVE  mem[p].buf # "BOOT0"
    BY DEF BootFlagIsSound
  <2>1. HW_Register_Cache["HW_BOOT0"] \in Word
    BY DEF IInv, TypeOK, CachedRegisters
  <2>2. GuestRead("HW_BOOT0") = HW_Register_Cache["HW_BOOT0"]
    BY <2>1, SwapTwice DEF GuestRead, HW_ReadRegister, CachedRegisters
  <2>3. ~HW_boot0_State
    BY <2>2 DEF IInv, CacheAgrees
  <2>4. mem[p] = Shown(iouen, HW_boot0_State, p)
    BY DEF IInv, MapMatchesRegisters, Layout
  <2>5. iouen \in BOOLEAN /\ HW_boot0_State \in BOOLEAN
    BY DEF IInv, TypeOK, iouen
  <2>6. QED  BY <2>3, <2>4, <2>5, Boot0Shown
<1>2. QED  BY <1>1, Invariant, PTL

=============================================================================
