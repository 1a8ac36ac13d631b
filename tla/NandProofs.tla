------------------------------- MODULE NandProofs -------------------------------
(***************************************************************************)
(* Proofs about NandInterface, for dumps and pages of any size.             *)
(*                                                                          *)
(* TypeOK and LastReadDelivered together are inductive: no action but a     *)
(* page read writes memory, and a page read establishes the second whatever *)
(* the state before it.  The heart of the proof is arithmetic: the offset   *)
(* of a page inside the dump is not changed by the conversion to an int,    *)
(* so the seek succeeds and the read is not short.                          *)
(***************************************************************************)
EXTENDS NandInterface, TLAPS

(* The start of a page is so many pages before the end of the pages.        *)
LEMMA PageBelow ==
  ASSUME NEW p \in Nat, NEW q \in Nat, NEW L \in Nat, p < q
  PROVE  p * L \in Nat /\ q * L \in Nat /\ p * L + L <= q * L
<1>1. q - p - 1 \in Nat /\ q = p + 1 + (q - p - 1)
  OBVIOUS
<1>2. ASSUME NEW k \in Nat PROVE (p + 1 + k) * L = p * L + L + k * L /\ k * L \in Nat
  OBVIOUS
<1>3. q * L = p * L + L + (q - p - 1) * L /\ (q - p - 1) * L \in Nat
  BY <1>1, <1>2
<1>4. p * L \in Nat /\ q * L \in Nat
  OBVIOUS
<1> QED
  BY <1>3, <1>4

(* A page of the dump is read from its place in the file and in full.       *)
LEMMA PageInDump ==
  ASSUME TypeOK, NEW p \in Nat, p < dump.pages
  PROVE  /\ Seek(PageOffset(p)) = p * PAGE_LINES
         /\ \A n \in 1..PAGE_LINES :
              PageAt(p * PAGE_LINES)[n] = FileLine(p * PAGE_LINES + n - 1)
<1> DEFINE start == p * PAGE_LINES
<1>1. /\ dump.pages \in Nat /\ PAGE_LINES \in Nat \ {0}
      /\ dump.pages * PAGE_LINES + KEY_LINES < INT_LIMIT
      /\ INT_LIMIT \in Nat \ {0} /\ KEY_LINES \in Nat
  BY NandAssumption DEF TypeOK, Dump, NoDump, PAGE_LINES
<1>2. /\ start \in Nat /\ dump.pages * PAGE_LINES \in Nat
      /\ start + PAGE_LINES <= dump.pages * PAGE_LINES
  BY <1>1, PageBelow
<1>3. start + PAGE_LINES <= FileLines /\ FileLines \in Nat
  <2>1. FileLines = dump.pages * PAGE_LINES \/ FileLines = dump.pages * PAGE_LINES + KEY_LINES
    BY <1>1, <1>2 DEF FileLines
  <2> HIDE DEF start
  <2> QED
    BY <1>1, <1>2, <2>1
<1>4. start < INT_LIMIT
  <2> HIDE DEF start
  <2> QED
    BY <1>1, <1>2
<1>5. Seek(PageOffset(p)) = start
  <2>1. PageOffset(p) = IntOf(start)
    BY DEF PageOffset
  <2> HIDE DEF start
  <2>2. start % (2 * INT_LIMIT) = start
    BY <1>1, <1>2, <1>4
  <2>3. IntOf(start) = start
    BY <1>4, <2>2 DEF IntOf
  <2> QED
    BY <1>2, <2>1, <2>3 DEF Seek
<1>6. ASSUME NEW n \in 1..PAGE_LINES
      PROVE  PageAt(start)[n] = FileLine(start + n - 1)
  <2> HIDE DEF start
  <2>1. start + n <= FileLines
    BY <1>1, <1>2, <1>3
  <2> QED
    BY <2>1 DEF PageAt
<1> QED
  BY <1>5, <1>6

-----------------------------------------------------------------------------
(* What memory holds right after a page read.                               *)
LEMMA ReadDelivers ==
  ASSUME TypeOK, ReadPage
  PROVE  LastReadDelivered'
<1> DEFINE dest == NAND_dest_address
           ecc  == NAND_ecc_address
           page == PageAt(Seek(PageOffset(NAND_read_page)))
           mem  == Copied(dest, ecc, page)
<1>1. lastRead' = [page |-> NAND_read_page, dest |-> dest, ecc |-> ecc, valid |-> TRUE]
  BY DEF ReadPage
<1>2. /\ dump' = dump /\ Buffers(dest, ecc) \subseteq DOMAIN memory
      /\ memory' = [mem EXCEPT ![CalcLine(ecc)].head = Calculated(dest, ecc, mem)]
  BY DEF ReadPage
<1>3. /\ dest \in Nat /\ ecc \in Nat /\ NAND_read_page \in Nat
      /\ DATA_LINES \in Nat \ {0} /\ PAGE_LINES = DATA_LINES + 1
  BY NandAssumption DEF TypeOK, Address, PAGE_LINES
<1> SUFFICES ASSUME NAND_read_page < dump.pages,
                    ecc \notin DataArea(dest), CalcLine(ecc) \notin DataArea(dest)
             PROVE  /\ \A n \in 1..DATA_LINES :
                         memory'[dest + n - 1] = PageOfFile(lastRead', n)
                    /\ memory'[ecc] = PageOfFile(lastRead', PAGE_LINES)
                    /\ memory'[CalcLine(ecc)].head =
                         Ecc([n \in 1..DATA_LINES |-> PageOfFile(lastRead', n)])
  BY <1>1, <1>2 DEF LastReadDelivered
<1>4. \A n \in 1..PAGE_LINES : Line(page[n]) = PageOfFile(lastRead', n)
  BY <1>1, <1>3, PageInDump DEF PageOfFile
<1> DEFINE calc == CalcLine(ecc)
<1>5. calc # ecc /\ calc \in DOMAIN memory /\ ecc \in DOMAIN memory
      /\ DataArea(dest) \subseteq DOMAIN memory
  BY <1>2, <1>3 DEF CalcLine, Buffers
<1>6. ASSUME NEW n \in 1..DATA_LINES
      PROVE  /\ dest + n - 1 \in DataArea(dest) /\ (dest + n - 1) - dest + 1 = n
             /\ n \in 1..PAGE_LINES
  BY <1>3 DEF DataArea
<1>7. /\ DOMAIN mem = DOMAIN memory
      /\ mem[ecc] = Line(page[PAGE_LINES])
      /\ \A n \in 1..DATA_LINES : mem[dest + n - 1] = Line(page[n])
  <2> HIDE DEF page
  <2>1. DOMAIN mem = DOMAIN memory /\ mem[ecc] = Line(page[PAGE_LINES])
    BY <1>5 DEF Copied
  <2>2. ASSUME NEW n \in 1..DATA_LINES PROVE mem[dest + n - 1] = Line(page[n])
    <3>1. dest + n - 1 \in DOMAIN memory /\ dest + n - 1 # ecc
      BY <1>5, <1>6
    <3> QED
      BY <1>6, <3>1 DEF Copied
  <2> QED
    BY <2>1, <2>2
<1>8. DOMAIN mem[calc] = {"head", "tail"}
  <2> HIDE DEF page
  <2>1. mem[calc] = memory[calc]
    BY <1>5 DEF Copied
  <2> QED
    BY <1>5, <2>1 DEF TypeOK
<1>9. /\ memory'[calc].head = Calculated(dest, ecc, mem)
      /\ \A a \in DOMAIN memory : a # calc => memory'[a] = mem[a]
  <2> HIDE DEF mem, calc
  <2>1. memory' = [mem EXCEPT ![calc] = [mem[calc] EXCEPT !.head = Calculated(dest, ecc, mem)]]
    BY <1>2 DEF calc
  <2>2. memory'[calc] = [mem[calc] EXCEPT !.head = Calculated(dest, ecc, mem)]
    BY <1>5, <1>7, <2>1
  <2>3. memory'[calc].head = Calculated(dest, ecc, mem)
    BY <1>8, <2>2
  <2> QED
    BY <1>7, <2>1, <2>3
<1>10. \A n \in 1..DATA_LINES : dest + n - 1 # calc /\ dest + n - 1 \in DOMAIN memory
  BY <1>5, <1>6
<1>11. Calculated(dest, ecc, mem) = Ecc([n \in 1..DATA_LINES |-> PageOfFile(lastRead', n)])
  <2>1. \A n \in 1..DATA_LINES : mem[dest + n - 1] = PageOfFile(lastRead', n)
    BY <1>4, <1>6, <1>7
  <2> HIDE DEF mem
  <2> QED
    BY <2>1 DEF Calculated
<1>12. PAGE_LINES \in 1..PAGE_LINES
  BY <1>3
<1> HIDE DEF mem, page, calc
<1>13. \A n \in 1..DATA_LINES : memory'[dest + n - 1] = PageOfFile(lastRead', n)
  BY <1>4, <1>6, <1>7, <1>9, <1>10
<1>14. memory'[ecc] = PageOfFile(lastRead', PAGE_LINES)
  BY <1>4, <1>5, <1>7, <1>9, <1>12
<1> QED
  BY <1>9, <1>11, <1>13, <1>14 DEF calc

-----------------------------------------------------------------------------
(* The inductive invariant.                                                 *)
IInv == TypeOK /\ LastReadDelivered

LEMMA InitInv == Init => IInv
<1> SUFFICES ASSUME Init PROVE IInv
  OBVIOUS
<1>1. 0 \in Nat /\ {} \in SUBSET (ConfigBits \ {27})
  OBVIOUS
<1>2. lastRead \in [page : Nat, dest : Address, ecc : Address, valid : BOOLEAN]
      /\ ~lastRead.valid
  BY DEF Init, NoRead, Address
<1>3. /\ DOMAIN memory = 0..(MEM_LINES - 1)
      /\ \A a \in DOMAIN memory : DOMAIN memory[a] = {"head", "tail"}
  BY DEF Init, Line
<1>4. TypeOK
  BY <1>1, <1>2, <1>3 DEF Init, TypeOK, Address
<1> QED
  BY <1>2, <1>4 DEF IInv, LastReadDelivered

(* Offering keys keeps their types.                                         *)
LEMMA KeysTyped ==
  ASSUME TypeOK, UNCHANGED keyVars \/ HW_ImportKeys(NandImage, NandImage)
  PROVE  /\ HW_CurrentOTP' \in OtpImages \cup {NoImage}
         /\ HW_CurrentSEEPROM' \in SeepromImages \cup {NoImage}
         /\ HW_OTPImported' \in BOOLEAN /\ HW_SEEPROMImported' \in BOOLEAN
<1>1. CASE UNCHANGED keyVars
  BY <1>1 DEF keyVars, TypeOK
<1>2. CASE HW_ImportKeys(NandImage, NandImage)
  <2>1. HW_OTPImported' = (HW_OTPImported \/ ImportsOTP(NandImage))
        /\ HW_SEEPROMImported' = (HW_SEEPROMImported \/ ImportsSEEPROM(NandImage))
    BY <1>2 DEF HW_ImportKeys
  <2>2. HW_OTPImported' \in BOOLEAN /\ HW_SEEPROMImported' \in BOOLEAN
    BY <2>1
  <2>3. /\ HW_CurrentOTP' \in {NandImage, HW_CurrentOTP}
        /\ HW_CurrentSEEPROM' \in {NandImage, HW_CurrentSEEPROM}
    BY <1>2 DEF HW_ImportKeys
  <2> QED
    BY <2>2, <2>3, NandAssumption DEF TypeOK
<1> QED
  BY <1>1, <1>2

(* A step that leaves memory and the last read alone keeps the second part. *)
LEMMA MemoryKept ==
  ASSUME IInv, UNCHANGED <<dump, memory, lastRead>>
  PROVE  LastReadDelivered'
BY DEF IInv, LastReadDelivered, PageOfFile

LEMMA ConfigInv ==
  ASSUME IInv, NEW word \in Written["NAND_CONFIG"], WriteCONFIG(word)
  PROVE  IInv'
<1>1. /\ TypeOK /\ running
      /\ UNCHANGED <<dump, NAND_dest_address, NAND_ecc_address, NAND_read_page,
                     memory, lastRead>>
  BY DEF IInv, WriteCONFIG
<1>2. word \in SUBSET ConfigBits
  BY NandAssumption
<1>3. /\ nand' \in BOOLEAN /\ (nand' => dump # NoDump)
      /\ position' \in Nat /\ running' \in BOOLEAN
      /\ NAND_config' \in SUBSET (ConfigBits \ {27})
      /\ UNCHANGED keyVars \/ HW_ImportKeys(NandImage, NandImage)
  <2>1. CASE MountNand(word)
    BY <2>1, <1>1, <1>2 DEF MountNand, SetConfig, TypeOK
  <2>2. CASE MountFails(word)
    BY <2>2, <1>1, <1>2 DEF MountFails, TypeOK
  <2>3. CASE CloseNand(word)
    BY <2>3, <1>1, <1>2 DEF CloseNand, SetConfig, TypeOK
  <2>4. CASE StaysClosed(word)
    BY <2>4, <1>1, <1>2 DEF StaysClosed, SetConfig, TypeOK
  <2> QED
    BY <2>1, <2>2, <2>3, <2>4 DEF WriteCONFIG
<1>4. TypeOK'
  BY <1>1, <1>3, KeysTyped DEF TypeOK
<1> QED
  BY <1>1, <1>4, MemoryKept DEF IInv

LEMMA ReadPageInv ==
  ASSUME IInv, ReadPage
  PROVE  IInv'
<1>1. /\ TypeOK
      /\ UNCHANGED <<dump, nand, registers, keyVars, running>>
  BY DEF IInv, ReadPage
<1>2. lastRead' \in [page : Nat, dest : Address, ecc : Address, valid : BOOLEAN]
  BY DEF IInv, ReadPage, TypeOK
<1>3. position' \in Nat
  <2> DEFINE from == Seek(PageOffset(NAND_read_page))
  <2>1. /\ dump.pages \in Nat /\ PAGE_LINES \in Nat /\ KEY_LINES \in Nat
        /\ INT_LIMIT \in Nat \ {0} /\ NAND_read_page \in Nat /\ position \in Nat
    BY <1>1, NandAssumption DEF TypeOK, Dump, NoDump, PAGE_LINES
  <2>2. FileLines \in Nat
    <3>1. dump.pages * PAGE_LINES \in Nat
      BY <2>1
    <3> QED
      BY <2>1, <3>1 DEF FileLines
  <2>3. PageOffset(NAND_read_page) \in Int
    <3>1. NAND_read_page * PAGE_LINES \in Nat
      BY <2>1
    <3>2. ASSUME NEW n \in Nat PROVE IntOf(n) \in Int
      <4>1. n % (2 * INT_LIMIT) \in Int
        BY <2>1
      <4> QED
        BY <2>1, <4>1 DEF IntOf
    <3> QED
      BY <3>1, <3>2 DEF PageOffset
  <2>4. from \in Nat
    BY <2>1, <2>3 DEF Seek
  <2>5. position' = EndOf(from)
    BY DEF ReadPage
  <2> HIDE DEF from
  <2> QED
    BY <2>1, <2>2, <2>4, <2>5 DEF EndOf
<1>4. /\ DOMAIN memory' = 0..(MEM_LINES - 1)
      /\ \A a \in DOMAIN memory' : DOMAIN memory'[a] = {"head", "tail"}
  <2> DEFINE ecc  == NAND_ecc_address
             calc == CalcLine(ecc)
             page == PageAt(Seek(PageOffset(NAND_read_page)))
             mem  == Copied(NAND_dest_address, ecc, page)
             new  == Calculated(NAND_dest_address, ecc, mem)
  <2>1. memory' = [mem EXCEPT ![calc].head = new] /\ calc \in DOMAIN memory
    BY DEF ReadPage, Buffers
  <2>2. /\ DOMAIN mem = DOMAIN memory
        /\ \A a \in DOMAIN mem : DOMAIN mem[a] = {"head", "tail"}
    <3> HIDE DEF page
    <3>1. \A content : DOMAIN Line(content) = {"head", "tail"}
      BY DEF Line
    <3>2. \A a \in DOMAIN memory :
            (\E content : mem[a] = Line(content)) \/ mem[a] = memory[a]
      BY DEF Copied
    <3> QED
      BY <3>1, <3>2, <1>1 DEF Copied, TypeOK
  <2> HIDE DEF mem, new, calc
  <2>3. memory' = [mem EXCEPT ![calc] = [mem[calc] EXCEPT !.head = new]]
    BY <2>1
  <2>4. DOMAIN memory' = DOMAIN memory
    BY <2>2, <2>3
  <2>5. DOMAIN memory'[calc] = {"head", "tail"}
    BY <2>1, <2>2, <2>3
  <2>6. \A a \in DOMAIN memory : a # calc => memory'[a] = mem[a]
    BY <2>2, <2>3
  <2> QED
    BY <1>1, <2>2, <2>4, <2>5, <2>6 DEF TypeOK
<1>5. UNCHANGED <<HW_CurrentOTP, HW_CurrentSEEPROM, HW_OTPImported, HW_SEEPROMImported,
                  NAND_dest_address, NAND_ecc_address, NAND_read_page, NAND_config>>
  BY <1>1 DEF keyVars, registers
<1>6. TypeOK'
  BY <1>1, <1>2, <1>3, <1>4, <1>5 DEF TypeOK
<1> QED
  BY <1>1, <1>6, ReadDelivers DEF IInv

(* One step keeps the invariant.                                            *)
LEMMA NextInv == IInv /\ [Next]_vars => IInv'
<1> SUFFICES ASSUME IInv, [Next]_vars PROVE IInv'
  OBVIOUS
<1>1. CASE UNCHANGED vars
  <2>1. UNCHANGED <<dump, nand, position, NAND_dest_address, NAND_ecc_address, NAND_read_page,
                    NAND_config, keyVars, memory, running, lastRead>>
    BY <1>1 DEF vars, registers
  <2>2. TypeOK'
    BY <2>1, KeysTyped DEF IInv, TypeOK
  <2> QED
    BY <2>1, <2>2, MemoryKept DEF IInv
<1>2. CASE \E w \in Written["NAND_CONFIG"] : WriteCONFIG(w)
  BY <1>2, ConfigInv
<1>3. CASE \E c \in Written["NAND_CTRL"] : WriteCTRL(c)
  <2>1. CASE Reset
    <3>1. TypeOK'
      BY <2>1, KeysTyped DEF Reset, IInv, TypeOK, Address
    <3> QED
      BY <2>1, <3>1, MemoryKept DEF Reset, IInv
  <2>2. CASE ReadPage
    BY <2>2, ReadPageInv
  <2>3. CASE ReadFails
    <3>1. TypeOK'
      BY <2>3, KeysTyped DEF ReadFails, registers, IInv, TypeOK
    <3> QED
      BY <2>3, <3>1, MemoryKept DEF ReadFails, IInv
  <2>4. CASE OtherCommand
    BY <2>4, <1>1 DEF OtherCommand
  <2> QED
    BY <1>3, <2>1, <2>2, <2>3, <2>4 DEF WriteCTRL
<1>4. CASE \E p \in Written["NAND_ADDR2"] : WriteADDR2(p)
  <2>0. PICK p \in Written["NAND_ADDR2"] : WriteADDR2(p)
    BY <1>4
  <2>1. TypeOK'
    <3>1. p \in Nat
      BY NandAssumption DEF Address
    <3>2. NAND_read_page' = p
          /\ UNCHANGED <<dump, nand, position, NAND_dest_address, NAND_ecc_address,
                         NAND_config, keyVars, memory, running, lastRead>>
      BY <2>0 DEF WriteADDR2
    <3> QED
      BY <3>1, <3>2, KeysTyped DEF IInv, TypeOK, Address
  <2> QED
    BY <1>4, <2>1, MemoryKept DEF WriteADDR2, IInv
<1>5. CASE \E a \in Written["NAND_DATABUF"] : WriteDATABUF(a)
  <2>0. PICK a \in Written["NAND_DATABUF"] : WriteDATABUF(a)
    BY <1>5
  <2>1. TypeOK'
    <3>1. a \in Nat
      BY NandAssumption DEF Address
    <3>2. NAND_dest_address' = a
          /\ UNCHANGED <<dump, nand, position, NAND_ecc_address, NAND_read_page,
                         NAND_config, keyVars, memory, running, lastRead>>
      BY <2>0 DEF WriteDATABUF
    <3> QED
      BY <3>1, <3>2, KeysTyped DEF IInv, TypeOK, Address
  <2> QED
    BY <1>5, <2>1, MemoryKept DEF WriteDATABUF, IInv
<1>6. CASE \E a \in Written["NAND_ECCBUF"] : WriteECCBUF(a)
  <2>0. PICK a \in Written["NAND_ECCBUF"] : WriteECCBUF(a)
    BY <1>6
  <2>1. TypeOK'
    <3>1. a \in Nat
      BY NandAssumption DEF Address
    <3>2. NAND_ecc_address' = a
          /\ UNCHANGED <<dump, nand, position, NAND_dest_address, NAND_read_page,
                         NAND_config, keyVars, memory, running, lastRead>>
      BY <2>0 DEF WriteECCBUF
    <3> QED
      BY <3>1, <3>2, KeysTyped DEF IInv, TypeOK, Address
  <2> QED
    BY <1>6, <2>1, MemoryKept DEF WriteECCBUF, IInv
<1> QED
  BY <1>1, <1>2, <1>3, <1>4, <1>5, <1>6 DEF Next

(* The invariant holds in every reachable state of the NAND interface.      *)
THEOREM NandInvariant == Spec => []IInv
<1>1. Init => IInv
  BY InitInv
<1>2. IInv /\ [Next]_vars => IInv'
  BY NextInv
<1> QED
  BY <1>1, <1>2, PTL DEF Spec

-----------------------------------------------------------------------------
(* The registers and memory keep their types (NAND_WriteRegister).          *)
THEOREM NandTypeCorrect == Spec => []TypeOK
<1>1. IInv => TypeOK
  BY DEF IInv
<1> QED
  BY <1>1, NandInvariant, PTL

(* A page of the flash read into separate buffers is there as the file has  *)
(* it, with its ECC, until the next read (the page read of                  *)
(* NAND_WriteRegister), for dumps of any size an int can count.             *)
THEOREM ReadCorrect == Spec => []LastReadDelivered
<1>1. IInv => LastReadDelivered
  BY DEF IInv
<1> QED
  BY <1>1, NandInvariant, PTL

(* One step keeps complete keys, and a mount completes them.                *)
LEMMA MountStep ==
  ASSUME [Next]_vars
  PROVE  /\ HW_HasKeys => UNCHANGED keyVars
         /\ ~nand /\ nand' /\ dump.keys => HW_HasKeys'
<1>1. CASE UNCHANGED vars
  BY <1>1 DEF vars
<1>2. CASE \E w \in Written["NAND_CONFIG"] : WriteCONFIG(w)
  <2>1. PICK w \in Written["NAND_CONFIG"] : WriteCONFIG(w)
    BY <1>2
  <2>2. CASE MountNand(w)
    <3>1. CASE ~HW_HasKeys /\ dump.keys
      <4>1. NandImage # NoImage
        BY NandAssumption, ImageAssumption
      <4>2. HW_HasKeys'
        BY <2>2, <3>1, <4>1
        DEF MountNand, HW_HasKeys, HW_ImportKeys, ImportsOTP, ImportsSEEPROM
      <4> QED
        BY <3>1, <4>2
    <3>2. CASE ~(~HW_HasKeys /\ dump.keys)
      BY <2>2, <3>2 DEF MountNand, HW_HasKeys, keyVars
    <3> QED
      BY <3>1, <3>2
  <2>3. CASE MountFails(w) \/ CloseNand(w) \/ StaysClosed(w)
    BY <2>3 DEF MountFails, CloseNand, StaysClosed
  <2> QED
    BY <2>1, <2>2, <2>3 DEF WriteCONFIG
<1>3. CASE \/ \E c \in Written["NAND_CTRL"]    : WriteCTRL(c)
           \/ \E p \in Written["NAND_ADDR2"]   : WriteADDR2(p)
           \/ \E a \in Written["NAND_DATABUF"] : WriteDATABUF(a)
           \/ \E a \in Written["NAND_ECCBUF"]  : WriteECCBUF(a)
  <2>1. UNCHANGED <<nand, keyVars>>
    BY <1>3 DEF WriteCTRL, Reset, ReadPage, ReadFails, OtherCommand, WriteADDR2,
                WriteDATABUF, WriteECCBUF, vars
  <2> QED
    BY <2>1
<1> QED
  BY <1>1, <1>2, <1>3 DEF Next

(* However often the guest mounts the NAND, the keys it has are never       *)
(* replaced, and a mount of a BootMii dump leaves both halves there         *)
(* (HW_HasKeys and HW_ImportKeys in the mount of NAND_WriteRegister).       *)
THEOREM MountCorrect == Spec => MountCompletesKeys
<1>1. [Next]_vars => [/\ HW_HasKeys => UNCHANGED keyVars
                      /\ ~nand /\ nand' /\ dump.keys => HW_HasKeys']_vars
  BY MountStep
<1> QED
  BY <1>1, PTL DEF Spec, MountCompletesKeys

=============================================================================
