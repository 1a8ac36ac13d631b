-------------------------------- MODULE Starlet --------------------------------
(***************************************************************************)
(* ARM_Main and the hooks it gives Unicorn (cpu_starlet.c): the life of an  *)
(* emulation, what the guest reaches by the addresses of registers, its     *)
(* SWIs, and what comes out on stdout when emulation stops.  It composes    *)
(* the EXI registers, the debug console, the memory interface and the       *)
(* Hollywood registers that remap the memory the console reads.             *)
(*                                                                          *)
(* The other registers of Hollywood, and those of AES, SHA and the NAND,    *)
(* print no text and move no memory.  They take part by what they do to the *)
(* run: a NAND that cannot be mounted stops it.                             *)
(***************************************************************************)
EXTENDS ExiGecko, DebugConsole, RegisterMap, KeyStore

CONSTANTS
  BusAddresses,    \* the addresses of registers the guest uses
  FlushValues,     \* what it writes to the memory interface
  MAX_TALK         \* bound on the text of a run, of the Gecko and the console

ASSUME StarletAssumption ==
  /\ BusAddresses \subseteq Nat
  /\ FlushValues \subseteq 0..(2^16 - 1)
  /\ MAX_TALK \in Nat

VARIABLES
  cpu,             \* "setup", "running", "stopping", "ended", or "failed", "crashed"
  dumps,           \* the memory dumps written: SRAM, MEM1, MEM2
  asked            \* the last flush request the guest wrote

own == <<cpu, dumps, flushreq, asked>>

(* Hollywood, over memory and keys.                                         *)
CONSTANTS HW_Written, TIMER_LIMIT

VARIABLES
  HW_SRNPROT_State, HW_boot0_State, HW_OTP_Data,
  HW_State_GPIO_En, HW_State_GPIO_Dir, HW_State_GPIO_IntFlag, HW_State_GPIO,
  HW_State_AIPPROT, HW_State_Timer, HW_Register_Cache

hollywood ==
  <<memVars, keyVars, HW_SRNPROT_State, HW_boot0_State, HW_OTP_Data,
    HW_State_GPIO_En, HW_State_GPIO_Dir, HW_State_GPIO_IntFlag, HW_State_GPIO,
    HW_State_AIPPROT, HW_State_Timer, HW_Register_Cache>>

HW == INSTANCE Hollywood WITH Written <- HW_Written

ASSUME HollywoodAssumption ==
  /\ HW_Written \in [HW!HandledRegisters \cup HW!CachedRegisters -> SUBSET HW!Word]
  /\ TIMER_LIMIT \in Nat \ {0}

all == <<vars, console, own, hollywood>>

StarletInit ==
  /\ Init
  /\ ConsoleInit
  /\ HW!Init
  /\ cpu = "setup"
  /\ dumps = 0
  /\ flushreq = 0
  /\ asked = 0

(* uc_open and the choice of the CPU model may fail; ARM_Main then returns. *)
SetUp ==
  /\ cpu = "setup"
  /\ cpu' \in {"running", "failed"}
  /\ UNCHANGED <<vars, console, dumps, flushreq, asked, hollywood>>

-----------------------------------------------------------------------------
(* Registers.                                                               *)
FlushRequest == Ahb(REG_MEMC) + MEM_AHMFLUSH
FlushAck     == Ahb(REG_MEMC) + MEM_AHMFLUSH_ACK

(* Who answers for each of them.                                            *)
Bus == [address \in BusAddresses |-> At(address)]

Running == cpu = "running"

Talk == Len(lines) + Len(line) + Said

WriteEXI(address) ==
  LET offset == Bus[address].offset IN
  /\ Running
  /\ Bus[address].device = "EXI"
  /\ Talk < MAX_TALK
  /\ offset \in DOMAIN Written
  /\ \E word \in Written[offset] : EXI_WriteRegister(offset, word)
  /\ UNCHANGED <<console, cpu, dumps, flushreq, asked, hollywood>>

WriteMEMI(address) ==
  /\ Running
  /\ Bus[address].device = "MEMI"
  /\ \E value \in FlushValues :
       /\ MEMI_WriteRegister(Bus[address].offset, value)
       /\ asked' = IF address = FlushRequest THEN value ELSE asked
  /\ UNCHANGED <<vars, console, cpu, dumps, hollywood>>

HW_SRNPROT == \h60
HW_BOOT0   == \h18c

(* The two registers of Hollywood that remap memory, in the middle of a     *)
(* guest instruction.                                                       *)
WriteHW(address) ==
  LET at == Bus[address] IN
  /\ Running
  /\ at.device = "HW"
  /\ \/ /\ at.offset = HW_SRNPROT
        /\ \E value \in HW_Written["HW_SRNPROT"] : HW!WriteSRNPROT(value)
     \/ /\ at.offset = HW_BOOT0
        /\ \E value \in HW_Written["HW_BOOT0"] : HW!WriteBOOT0(value)
  /\ UNCHANGED <<vars, console, own>>

(* EHCI and the AHB registers drop what is written.                         *)
WriteDropped(address) ==
  /\ Running
  /\ Bus[address].device \in {"EHCI", "WTF"}
  /\ UNCHANGED all

(* What the guest reads; no read of these changes anything.                 *)
GuestReads(address) ==
  LET at == At(address) IN
  CASE at.device = "MEMI" -> MEMI_ReadRegister(at.offset)
    [] at.device = "EHCI" -> EHCI_ReadRegister(at.offset)
    [] at.device = "WTF"  -> ARM_WTFRead(at.offset)

(* ARM_memory_invalid reports and maps nothing, and Unicorn gives up.       *)
InvalidAccess(address) ==
  /\ Running
  /\ Bus[address].device = "none"
  /\ cpu' = "stopping"
  /\ UNCHANGED <<vars, console, dumps, flushreq, asked, hollywood>>

-----------------------------------------------------------------------------
(* Interrupts (ARM_intr_hook).                                              *)
DebugSwi ==
  /\ Running
  /\ \E string \in Strings, at \in Origins :
       Talk + Len(string) <= MAX_TALK /\ DebugOutput(string, at)
  /\ UNCHANGED <<vars, own, hollywood>>

UnknownSwi ==
  /\ Running
  /\ PrintState
  /\ ~stopped'
  /\ UNCHANGED <<console, own, hollywood>>

(* A prefetch abort, a NAND that cannot be mounted, an error of Unicorn.    *)
StopEmulation ==
  /\ Running
  /\ cpu' = "stopping"
  /\ UNCHANGED <<vars, console, dumps, flushreq, asked, hollywood>>

-----------------------------------------------------------------------------
(* After uc_emu_start.  Slip: the registers are printed without the flush.  *)
EndUnflushed ==
  /\ cpu = "stopping"
  /\ stopped' = TRUE
  /\ cpu' = "ended"
  /\ UNCHANGED <<gecko, EXI_PPCBootVector, console, dumps, flushreq, asked, hollywood>>

EmulationStopped ==
  /\ cpu = "stopping"
  /\ PrintState
  /\ stopped'
  /\ cpu' = "ended"
  /\ UNCHANGED <<console, dumps, flushreq, asked, hollywood>>

DUMPS == 3

(* A dump file that cannot be opened is a NULL that fwrite is given.        *)
Dump ==
  /\ cpu = "ended"
  /\ dumps < DUMPS
  /\ \/ dumps' = dumps + 1 /\ UNCHANGED cpu
     \/ cpu' = "crashed" /\ UNCHANGED dumps
  /\ UNCHANGED <<vars, console, flushreq, asked, hollywood>>

StarletNext ==
  \/ SetUp
  \/ \E address \in BusAddresses :
       \/ WriteEXI(address) \/ WriteMEMI(address) \/ WriteHW(address)
       \/ WriteDropped(address) \/ InvalidAccess(address)
  \/ DebugSwi \/ UnknownSwi
  \/ StopEmulation \/ EmulationStopped
  \/ Dump

(* What follows the end of uc_emu_start is straight-line code; nothing is   *)
(* assumed of the guest.                                                    *)
StarletSpec ==
  /\ StarletInit /\ [][StarletNext]_all
  /\ WF_all(EmulationStopped) /\ WF_all(Dump)

-----------------------------------------------------------------------------
(* The types, and that only an emulation that ran has ended.                *)
StarletTypeOK ==
  /\ TypeOK
  /\ ConsoleTypeOK
  /\ cpu \in {"setup", "running", "stopping", "ended", "failed", "crashed"}
  /\ dumps \in 0..DUMPS
  /\ flushreq \in 0..(2^16 - 1) /\ asked \in 0..(2^16 - 1)
  /\ stopped <=> cpu \in {"ended", "crashed"}

(* A guest that asks the memory controller for a flush and polls its other  *)
(* register reads its own request, whatever it wrote to other registers     *)
(* since: the request reaches the memory controller inside the pages of the *)
(* memory interface, which no other region may have taken, and the answer   *)
(* comes from there.                                                        *)
FlushAcknowledged == GuestReads(FlushAck) = asked

(* Gecko text that waits in the buffer when emulation stops, for whatever   *)
(* reason and with a line half sent, still comes out, and emulation then    *)
(* leaves its dumps or crashes over a file it cannot open.                  *)
StoppedTextComesOut ==
  cpu = "stopping" /\ AllPlain
    ~> /\ printed = lines /\ line = <<>>
       /\ dumps = DUMPS \/ cpu = "crashed"

=============================================================================
