----------------------------- MODULE NandInterface -----------------------------
(***************************************************************************)
(* The NAND registers (interface_nand.c): mounting the dump, resetting, and *)
(* reading one page with its spare area, to which the interface adds the    *)
(* ECC it calculates from the data.                                         *)
(*                                                                          *)
(* Sizes, file positions and addresses count lines of 64 bytes, the size of *)
(* the spare area; a page is DATA_LINES lines of data and one of ECC.  The  *)
(* two halves of a line of memory are its first 16 bytes, as many as the    *)
(* calculated ECC takes, and the rest.  Each register write is one callback.*)
(***************************************************************************)
EXTENDS Integers, Sequences, KeyStore

CONSTANTS
  DATA_LINES,     \* 0x800 bytes
  KEY_LINES,      \* sizeof(BootMii_Keys)
  INT_LIMIT,      \* 2^31 bytes: the file offset is an int
  MEM_LINES,      \* the interface reaches lines 0..MEM_LINES-1
  Dumps,          \* what files/nand.bin may be
  NandImage,      \* the keys in a BootMii dump
  Written         \* the words the guest writes, by register

PAGE_LINES == DATA_LINES + 1

(* A dump is so many pages, with or without the key block that makes it a   *)
(* BootMii dump by its size.                                                *)
NoDump == [pages |-> 0, keys |-> FALSE]
Dump   == [pages : Nat \ {0}, keys : BOOLEAN]

ConfigBits == 0..31
Address    == Nat

(* The commands of NAND_CTRL: reset is bit 31 clear; a page read has        *)
(* command 0x30 and length 0x840, and any other command is only reported.   *)
Commands == {"reset", "read", "other"}

ASSUME NandAssumption ==
  /\ DATA_LINES \in Nat \ {0} /\ KEY_LINES \in Nat \ {0}
  /\ INT_LIMIT \in Nat \ {0} /\ MEM_LINES \in Nat
  /\ Dumps \subseteq Dump \cup {NoDump}
  /\ \A d \in Dumps : d.pages * PAGE_LINES + KEY_LINES < INT_LIMIT
  /\ NandImage \in OtpImages /\ NandImage \in SeepromImages
  /\ Written["NAND_CONFIG"] \subseteq SUBSET ConfigBits
  /\ Written["NAND_CTRL"] \subseteq Commands
  /\ Written["NAND_ADDR2"] \subseteq Nat
  /\ Written["NAND_DATABUF"] \subseteq Address
  /\ Written["NAND_ECCBUF"] \subseteq Address

VARIABLES
  dump,              \* files/nand.bin
  nand,              \* the file is open
  position,          \* where it stands
  NAND_dest_address, NAND_ecc_address, NAND_read_page,
  NAND_config,
  memory,
  running,           \* emulation goes on
  lastRead           \* the last page read, and where to

registers == <<NAND_dest_address, NAND_ecc_address, NAND_read_page, NAND_config>>
vars == <<dump, nand, position, registers, keyVars, memory, running, lastRead>>

(* What a line of memory may hold: a line of the file, what the stack held  *)
(* where a file was short, the ECC calculated for some data, and that ECC   *)
(* where it was written into the data it is calculated from.                *)
FileLine(n) == <<"file", n>>
StackLine   == <<"stack">>
Ecc(data)   == <<"ecc", data>>
MixedEcc    == <<"mixed">>
Zeroes      == <<"zeroes">>

Line(content) == [head |-> content, tail |-> content]

NoRead == [page |-> 0, dest |-> 0, ecc |-> 0, valid |-> FALSE]

Init ==
  /\ dump \in Dumps
  /\ nand = FALSE /\ position = 0
  /\ NAND_dest_address = 0 /\ NAND_ecc_address = 0
  /\ NAND_read_page = 0
  /\ NAND_config = {}
  /\ HW_CurrentOTP \in OtpImages \cup {NoImage}
  /\ HW_CurrentSEEPROM \in SeepromImages \cup {NoImage}
  /\ HW_OTPImported = (HW_CurrentOTP # NoImage)
  /\ HW_SEEPROMImported = (HW_CurrentSEEPROM # NoImage)
  /\ memory = [a \in 0..(MEM_LINES - 1) |-> Line(Zeroes)]
  /\ running = TRUE
  /\ lastRead = NoRead

-----------------------------------------------------------------------------
FileLines == dump.pages * PAGE_LINES + (IF dump.keys THEN KEY_LINES ELSE 0)

SetConfig(word) == NAND_config' = word \ {27}

(* Opening the file leaves it at its start.  The key block of a BootMii     *)
(* dump is offered when a half of the keys is still missing.                *)
MountNand(word) ==
  /\ 27 \in word /\ ~nand /\ dump # NoDump
  /\ nand' = TRUE /\ position' = 0
  /\ IF ~HW_HasKeys /\ dump.keys
     THEN HW_ImportKeys(NandImage, NandImage)
     ELSE UNCHANGED keyVars
  /\ SetConfig(word)
  /\ UNCHANGED running

(* Without the file emulation stops, and the word is not stored.            *)
MountFails(word) ==
  /\ 27 \in word /\ ~nand /\ dump = NoDump
  /\ running' = FALSE
  /\ UNCHANGED <<nand, position, keyVars, NAND_config>>

(* Any write while the file is open closes it, the enable bit set or not.   *)
CloseNand(word) ==
  /\ nand
  /\ nand' = FALSE
  /\ SetConfig(word)
  /\ UNCHANGED <<position, keyVars, running>>

StaysClosed(word) ==
  /\ 27 \notin word /\ ~nand
  /\ SetConfig(word)
  /\ UNCHANGED <<nand, position, keyVars, running>>

WriteCONFIG(word) ==
  /\ running
  /\ MountNand(word) \/ MountFails(word) \/ CloseNand(word) \/ StaysClosed(word)
  /\ UNCHANGED <<dump, NAND_dest_address, NAND_ecc_address, NAND_read_page,
                 memory, lastRead>>

(* A reset keeps the file open.                                             *)
Reset ==
  /\ running
  /\ NAND_dest_address' = 0 /\ NAND_ecc_address' = 0
  /\ NAND_read_page' = 0
  /\ NAND_config' = {}
  /\ UNCHANGED <<dump, nand, position, keyVars, memory, running, lastRead>>

-----------------------------------------------------------------------------
(* The offset of a page as an int, and where fseek takes the file: nowhere  *)
(* when the offset is negative.                                             *)
IntOf(n) == LET word == n % (2 * INT_LIMIT) IN
            IF word < INT_LIMIT THEN word ELSE word - 2 * INT_LIMIT

(* The slips seek to before the file, and count pages without their ECC.    *)
SeekAnywhere(offset) == offset
Seek(offset)         == IF offset < 0 THEN position ELSE offset

DataOffset(page) == IntOf(page * DATA_LINES)
PageOffset(page) == IntOf(page * PAGE_LINES)

(* What fread leaves in the page on the stack.                              *)
PageAt(from) ==
  [n \in 1..PAGE_LINES |->
     IF from + n <= FileLines THEN FileLine(from + n - 1) ELSE StackLine]

EndOf(from) ==
  IF from + PAGE_LINES <= FileLines THEN from + PAGE_LINES
  ELSE IF from <= FileLines THEN FileLines ELSE from

DataArea(dest) == dest..(dest + DATA_LINES - 1)

(* NAND_ecc_address ^ 0x40: the calculated ECC goes to the other line of    *)
(* the pair that holds the spare area.                                      *)
CalcLine(ecc) == IF ecc % 2 = 0 THEN ecc + 1 ELSE ecc - 1

Copied(dest, ecc, page) ==
  [a \in DOMAIN memory |->
     IF a = ecc THEN Line(page[PAGE_LINES])
     ELSE IF a \in DataArea(dest) THEN Line(page[a - dest + 1])
     ELSE memory[a]]

Calculated(dest, ecc, mem) ==
  IF CalcLine(ecc) \in DataArea(dest) THEN MixedEcc
  ELSE Ecc([n \in 1..DATA_LINES |-> mem[dest + n - 1]])

Buffers(dest, ecc) == DataArea(dest) \cup {ecc, CalcLine(ecc)}

ReadPage ==
  LET dest == NAND_dest_address
      ecc  == NAND_ecc_address
      from == Seek(PageOffset(NAND_read_page))
      mem  == Copied(dest, ecc, PageAt(from))
  IN
  /\ running /\ nand
  /\ Buffers(dest, ecc) \subseteq DOMAIN memory
  /\ position' = EndOf(from)
  /\ memory' = [mem EXCEPT ![CalcLine(ecc)].head = Calculated(dest, ecc, mem)]
  /\ lastRead' = [page |-> NAND_read_page, dest |-> dest, ecc |-> ecc, valid |-> TRUE]
  /\ UNCHANGED <<dump, nand, registers, keyVars, running>>

(* Nothing checks that the file is open and the buffers are in memory.      *)
(* What happens without is undefined; here the process ends.                *)
ReadFails ==
  /\ running
  /\ ~nand \/ ~(Buffers(NAND_dest_address, NAND_ecc_address) \subseteq DOMAIN memory)
  /\ running' = FALSE
  /\ UNCHANGED <<dump, nand, position, registers, keyVars, memory, lastRead>>

OtherCommand == running /\ UNCHANGED vars

WriteCTRL(command) ==
  \/ command = "reset" /\ Reset
  \/ command = "read" /\ (ReadPage \/ ReadFails)
  \/ command = "other" /\ OtherCommand

(* The page register keeps 24 bits; NAND_ADDR1 is kept and never used.      *)
WriteADDR2(page) ==
  /\ running
  /\ NAND_read_page' = page
  /\ UNCHANGED <<dump, nand, position, NAND_dest_address, NAND_ecc_address, NAND_config,
                 keyVars, memory, running, lastRead>>

WriteDATABUF(address) ==
  /\ running
  /\ NAND_dest_address' = address
  /\ UNCHANGED <<dump, nand, position, NAND_ecc_address, NAND_read_page, NAND_config,
                 keyVars, memory, running, lastRead>>

WriteECCBUF(address) ==
  /\ running
  /\ NAND_ecc_address' = address
  /\ UNCHANGED <<dump, nand, position, NAND_dest_address, NAND_read_page, NAND_config,
                 keyVars, memory, running, lastRead>>

Next ==
  \/ \E w \in Written["NAND_CONFIG"]  : WriteCONFIG(w)
  \/ \E c \in Written["NAND_CTRL"]    : WriteCTRL(c)
  \/ \E p \in Written["NAND_ADDR2"]   : WriteADDR2(p)
  \/ \E a \in Written["NAND_DATABUF"] : WriteDATABUF(a)
  \/ \E a \in Written["NAND_ECCBUF"]  : WriteECCBUF(a)

Spec == Init /\ [][Next]_vars

-----------------------------------------------------------------------------
(* The types; a file that is open is there.                                 *)
TypeOK ==
  /\ dump \in Dumps
  /\ nand \in BOOLEAN /\ (nand => dump # NoDump)
  /\ position \in Nat
  /\ NAND_dest_address \in Address /\ NAND_ecc_address \in Address
  /\ NAND_read_page \in Nat
  /\ NAND_config \in SUBSET (ConfigBits \ {27})
  /\ HW_CurrentOTP \in OtpImages \cup {NoImage}
  /\ HW_CurrentSEEPROM \in SeepromImages \cup {NoImage}
  /\ HW_OTPImported \in BOOLEAN /\ HW_SEEPROMImported \in BOOLEAN
  /\ DOMAIN memory = 0..(MEM_LINES - 1)
  /\ \A a \in DOMAIN memory : DOMAIN memory[a] = {"head", "tail"}
  /\ running \in BOOLEAN
  /\ lastRead \in [page : Nat, dest : Address, ecc : Address, valid : BOOLEAN]

(* A page of the flash that is read into buffers apart from each other is   *)
(* there as the file has it, its spare area too, with the ECC calculated    *)
(* from that data beside it, whatever failed or short reads, resets and     *)
(* remounts came before; and it stays until the next read.                  *)
PageOfFile(r, n) == Line(FileLine(r.page * PAGE_LINES + n - 1))

LastReadDelivered ==
  LET r == lastRead IN
  /\ r.valid /\ r.page < dump.pages
  /\ r.ecc \notin DataArea(r.dest) /\ CalcLine(r.ecc) \notin DataArea(r.dest)
  => /\ \A n \in 1..DATA_LINES : memory[r.dest + n - 1] = PageOfFile(r, n)
     /\ memory[r.ecc] = PageOfFile(r, PAGE_LINES)
     /\ memory[CalcLine(r.ecc)].head =
          Ecc([n \in 1..DATA_LINES |-> PageOfFile(r, n)])

(* Once the keys are complete no mount replaces them, and a mount leaves    *)
(* them complete when the dump has a key block.                             *)
MountCompletesKeys ==
  [][/\ HW_HasKeys => UNCHANGED keyVars
     /\ ~nand /\ nand' /\ dump.keys => HW_HasKeys']_vars

-----------------------------------------------------------------------------
(* NAND_CONFIG as the guest reads it: the enable bit says whether the file  *)
(* is open.                                                                 *)
ReadCONFIG == NAND_config \cup (IF nand THEN {27} ELSE {})

(* After a write of the enable bit that does not stop the emulator, the     *)
(* NAND is mounted and the guest reads the bit back.                        *)
EnableMounts ==
  [][\A w \in Written["NAND_CONFIG"] :
       27 \in w /\ WriteCONFIG(w) /\ running' => 27 \in ReadCONFIG']_vars

=============================================================================
