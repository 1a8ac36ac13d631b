------------------------------ MODULE Hollywood ------------------------------
(***************************************************************************)
(* The Hollywood registers (registers_hollywood.c) as the emulated CPU      *)
(* drives them while it runs: the SRAM protection and boot ROM controls     *)
(* that remap memory, the OTP port, the GPIO pins, the timer and the cache  *)
(* that stands in for every register not implemented.                       *)
(*                                                                          *)
(* A register write is one callback from Unicorn, made in the middle of a   *)
(* guest instruction on the program's only thread, so each is one action.   *)
(* Values are those after SWAP_32, in the guest's bit numbering.            *)
(***************************************************************************)
EXTENDS MemoryMap, SramLayout, KeyStore, BusWords

CONSTANTS
  Written,        \* the words the guest writes to each register
  TIMER_LIMIT     \* 2^32: the timer is an unsigned 32-bit word

(* Registers whose write does more than store into the cache.               *)
HandledRegisters ==
  {"HW_SRNPROT", "HW_BOOT0", "HW_SPARE0", "HW_OTPCMD", "HW_GPIO_ENABLE",
   "HW_GPIO_DIR", "HW_GPIO_OUT", "HW_GPIO_INTFLAG", "HW_AIPPROT"}

(* "HW_OTHER" stands for any register the write handler does not name.      *)
CachedRegisters == {"HW_BOOT0", "HW_SPARE0", "HW_OTHER"}

ASSUME RegisterAssumption ==
  /\ Written \in [HandledRegisters \cup CachedRegisters -> SUBSET Word]
  /\ TIMER_LIMIT \in Nat \ {0}

VARIABLES
  HW_SRNPROT_State, HW_boot0_State,
  HW_OTP_Data,
  HW_State_GPIO_En, HW_State_GPIO_Dir, HW_State_GPIO_IntFlag, HW_State_GPIO,
  HW_State_AIPPROT,
  HW_State_Timer,
  HW_Register_Cache

gpioVars == <<HW_State_GPIO_En, HW_State_GPIO_Dir, HW_State_GPIO_IntFlag, HW_State_GPIO>>

vars == <<memVars, keyVars, HW_SRNPROT_State, HW_boot0_State, HW_OTP_Data,
          gpioVars, HW_State_AIPPROT, HW_State_Timer, HW_Register_Cache>>

(* The OTP data register before any command, and a word of an OTP.  A word  *)
(* number is the five low bits of the command.                              *)
NoCommand  == [image |-> NoImage, word |-> {}]
OtpWord    == SUBSET (0..4)
OtpReading == [image : OtpImages \cup {NoImage}, word : OtpWord]

(* Main has called HW_ImportKeys for the files it found before the CPU      *)
(* runs, so each half may or may not be there already.                      *)
Init ==
  /\ MemInit
  /\ HW_CurrentOTP \in OtpImages \cup {NoImage}
  /\ HW_CurrentSEEPROM \in SeepromImages \cup {NoImage}
  /\ HW_OTPImported = (HW_CurrentOTP # NoImage)
  /\ HW_SEEPROMImported = (HW_CurrentSEEPROM # NoImage)
  /\ HW_SRNPROT_State = {}
  /\ HW_boot0_State = TRUE
  /\ HW_OTP_Data = NoCommand
  /\ HW_State_GPIO_En = {}
  /\ HW_State_GPIO_Dir = {}
  /\ HW_State_GPIO_IntFlag = {}
  /\ HW_State_GPIO = {}
  /\ HW_State_AIPPROT = {}
  /\ HW_State_Timer = 0
  /\ HW_Register_Cache = [r \in CachedRegisters |-> {}]

-----------------------------------------------------------------------------
(* HW_WriteRegister, one action for each register it names.                 *)

(* Bit 5 of SRNPROT is iouen.                                               *)
WriteSRNPROT(value) ==
  /\ HW_SRNPROT_State' = value
  /\ MEM_ARM_SetSRAM(5 \in value, HW_boot0_State)
  /\ UNCHANGED <<keyVars, HW_boot0_State, HW_OTP_Data, gpioVars,
                 HW_State_AIPPROT, HW_State_Timer, HW_Register_Cache>>

(* Slip: memory is remapped for the value before.                           *)
WriteBOOT0Late(value) ==
  /\ HW_boot0_State' = (12 \notin value)
  /\ MEM_ARM_SetSRAM(5 \in HW_SRNPROT_State, HW_boot0_State)
  /\ HW_Register_Cache' = [HW_Register_Cache EXCEPT !["HW_BOOT0"] = value]
  /\ UNCHANGED <<keyVars, HW_SRNPROT_State, HW_OTP_Data, gpioVars,
                 HW_State_AIPPROT, HW_State_Timer>>

(* Bit 12 of BOOT0 takes the boot ROM away.  The branch does not return, so *)
(* the value also goes to the cache, where a read finds it.                 *)
WriteBOOT0(value) ==
  /\ HW_boot0_State' = (12 \notin value)
  /\ MEM_ARM_SetSRAM(5 \in HW_SRNPROT_State, 12 \notin value)
  /\ HW_Register_Cache' = [HW_Register_Cache EXCEPT !["HW_BOOT0"] = value]
  /\ UNCHANGED <<keyVars, HW_SRNPROT_State, HW_OTP_Data, gpioVars,
                 HW_State_AIPPROT, HW_State_Timer>>

(* Slip: the planted value has bit 12 on.                                   *)
WriteSPARE0High(value) ==
  /\ HW_Register_Cache' =
       [HW_Register_Cache EXCEPT !["HW_BOOT0"] = IF 16 \in value THEN {} ELSE {12, 15},
                                 !["HW_SPARE0"] = value]
  /\ UNCHANGED <<memVars, keyVars, HW_SRNPROT_State, HW_boot0_State, HW_OTP_Data,
                 gpioVars, HW_State_AIPPROT, HW_State_Timer>>

(* A write to SPARE0 plants the value that boot1 waits for in BOOT0's cache *)
(* entry: 0, or 9 which is bits 0 and 3.                                    *)
WriteSPARE0(value) ==
  /\ HW_Register_Cache' =
       [HW_Register_Cache EXCEPT !["HW_BOOT0"] = IF 16 \in value THEN {} ELSE {0, 3},
                                 !["HW_SPARE0"] = value]
  /\ UNCHANGED <<memVars, keyVars, HW_SRNPROT_State, HW_boot0_State, HW_OTP_Data,
                 gpioVars, HW_State_AIPPROT, HW_State_Timer>>

(* A command without bit 31 is only reported.                               *)
WriteOTPCMD(value) ==
  /\ 31 \in value
  /\ HW_OTP_Data' = [image |-> HW_CurrentOTP, word |-> value \cap (0..4)]
  /\ UNCHANGED <<memVars, keyVars, HW_SRNPROT_State, HW_boot0_State, gpioVars,
                 HW_State_AIPPROT, HW_State_Timer, HW_Register_Cache>>

GpioUnchanged ==
  UNCHANGED <<memVars, keyVars, HW_SRNPROT_State, HW_boot0_State, HW_OTP_Data,
              HW_State_AIPPROT, HW_State_Timer, HW_Register_Cache>>

WriteGPIO_ENABLE(value) ==
  /\ HW_State_GPIO_En' = value
  /\ UNCHANGED <<HW_State_GPIO_Dir, HW_State_GPIO_IntFlag, HW_State_GPIO>>
  /\ GpioUnchanged

WriteGPIO_DIR(value) ==
  /\ HW_State_GPIO_Dir' = value
  /\ UNCHANGED <<HW_State_GPIO_En, HW_State_GPIO_IntFlag, HW_State_GPIO>>
  /\ GpioUnchanged

WriteGPIO_OUT(value) ==
  /\ HW_State_GPIO' = value \cap HW_State_GPIO_En \cap HW_State_GPIO_Dir
  /\ UNCHANGED <<HW_State_GPIO_En, HW_State_GPIO_Dir, HW_State_GPIO_IntFlag>>
  /\ GpioUnchanged

WriteGPIO_INTFLAG(value) ==
  /\ HW_State_GPIO_IntFlag' = value
  /\ UNCHANGED <<HW_State_GPIO_En, HW_State_GPIO_Dir, HW_State_GPIO>>
  /\ GpioUnchanged

WriteAIPPROT(value) ==
  /\ HW_State_AIPPROT' = value
  /\ UNCHANGED <<memVars, keyVars, HW_SRNPROT_State, HW_boot0_State, HW_OTP_Data,
                 gpioVars, HW_State_Timer, HW_Register_Cache>>

WriteOther(value) ==
  /\ HW_Register_Cache' = [HW_Register_Cache EXCEPT !["HW_OTHER"] = value]
  /\ UNCHANGED <<memVars, keyVars, HW_SRNPROT_State, HW_boot0_State, HW_OTP_Data,
                 gpioVars, HW_State_AIPPROT, HW_State_Timer>>

-----------------------------------------------------------------------------
(* Slip: the timer is wider than the register.                              *)
HW_IncrementTimerWide ==
  /\ HW_State_Timer' = HW_State_Timer + 1
  /\ UNCHANGED <<memVars, keyVars, HW_SRNPROT_State, HW_boot0_State, HW_OTP_Data,
                 gpioVars, HW_State_AIPPROT, HW_Register_Cache>>

(* The code hook of the CPU, before each guest instruction.                 *)
HW_IncrementTimer ==
  /\ HW_State_Timer' = (HW_State_Timer + 1) % TIMER_LIMIT
  /\ UNCHANGED <<memVars, keyVars, HW_SRNPROT_State, HW_boot0_State, HW_OTP_Data,
                 gpioVars, HW_State_AIPPROT, HW_Register_Cache>>

(* Mounting a BootMii dump of the NAND offers both halves of its key block  *)
(* when one of them is still missing.                                       *)
ImportNandKeys(otp, seeprom) ==
  /\ ~HW_HasKeys
  /\ HW_ImportKeys(otp, seeprom)
  /\ UNCHANGED <<memVars, HW_SRNPROT_State, HW_boot0_State, HW_OTP_Data, gpioVars,
                 HW_State_AIPPROT, HW_State_Timer, HW_Register_Cache>>

GuestWrite ==
  \/ \E v \in Written["HW_SRNPROT"]      : WriteSRNPROT(v)
  \/ \E v \in Written["HW_BOOT0"]        : WriteBOOT0(v)
  \/ \E v \in Written["HW_SPARE0"]       : WriteSPARE0(v)
  \/ \E v \in Written["HW_OTPCMD"]       : WriteOTPCMD(v)
  \/ \E v \in Written["HW_GPIO_ENABLE"]  : WriteGPIO_ENABLE(v)
  \/ \E v \in Written["HW_GPIO_DIR"]     : WriteGPIO_DIR(v)
  \/ \E v \in Written["HW_GPIO_OUT"]     : WriteGPIO_OUT(v)
  \/ \E v \in Written["HW_GPIO_INTFLAG"] : WriteGPIO_INTFLAG(v)
  \/ \E v \in Written["HW_AIPPROT"]      : WriteAIPPROT(v)
  \/ \E v \in Written["HW_OTHER"]        : WriteOther(v)

Next ==
  \/ GuestWrite
  \/ HW_IncrementTimer
  \/ \E otp \in OtpImages, seeprom \in SeepromImages : ImportNandKeys(otp, seeprom)

Spec == Init /\ [][Next]_vars

-----------------------------------------------------------------------------
(* What HW_ReadRegister puts on the bus, for the registers it returns from  *)
(* a state word; the guest sees it swapped.  HW_GPIO_INTFLAG has no case in *)
(* the read handler and falls to its cache entry, which nothing writes.     *)
HW_ReadRegister(r) ==
  CASE r = "HW_SRNPROT"      -> SWAP_32(HW_SRNPROT_State)
    [] r = "HW_GPIO_ENABLE"  -> SWAP_32(HW_State_GPIO_En)
    [] r = "HW_GPIO_DIR"     -> SWAP_32(HW_State_GPIO_Dir)
    [] r = "HW_GPIO_OUT"     -> SWAP_32_and(HW_State_GPIO, HW_State_GPIO_Dir)
    [] r = "HW_GPIO_IN"      -> SWAP_32_and(HW_State_GPIO, Complement(HW_State_GPIO_Dir))
    [] r = "HW_AIPPROT"      -> SWAP_32(HW_State_AIPPROT)
    [] r = "HW_GPIO_INTFLAG" -> {}
    [] r \in CachedRegisters -> SWAP_32(HW_Register_Cache[r])

GuestRead(r) == SWAP_32(HW_ReadRegister(r))

-----------------------------------------------------------------------------
(* Every variable holds a value of the kind its C type and use allow.       *)
TypeOK ==
  /\ mem \in AddressSpace
  /\ MEM_ARM_SRAMState \in {0, 1, 2, 4}
  /\ HW_CurrentOTP \in OtpImages \cup {NoImage}
  /\ HW_CurrentSEEPROM \in SeepromImages \cup {NoImage}
  /\ HW_OTPImported \in BOOLEAN
  /\ HW_SEEPROMImported \in BOOLEAN
  /\ HW_SRNPROT_State \in Word
  /\ HW_boot0_State \in BOOLEAN
  /\ HW_OTP_Data \in OtpReading \cup {NoCommand}
  /\ HW_State_GPIO_En \in Word
  /\ HW_State_GPIO_Dir \in Word
  /\ HW_State_GPIO_IntFlag \in Word
  /\ HW_State_GPIO \in Word
  /\ HW_State_AIPPROT \in Word
  /\ HW_State_Timer \in 0..(TIMER_LIMIT - 1)
  /\ HW_Register_Cache \in [CachedRegisters -> Word]

(* The controls as the registers hold them.                                 *)
iouen == 5 \in HW_SRNPROT_State

(* The mapping that Unicorn holds is the one the two registers ask for,     *)
(* although none of the unmaps and maps of MEM_ARM_SetSRAM is checked for   *)
(* failure.  Some unmaps fail in every call, and which ones depends on the  *)
(* layout before: with nothing mapped all eight fail; from a layout that    *)
(* fills the SRAM windows the last four, for what they unmap is gone; from  *)
(* the layout with a gap in them the two of the whole windows.              *)
MapMatchesRegisters ==
  /\ mem = Layout(iouen, HW_boot0_State)
  /\ MEM_ARM_SRAMState = SramState(iouen, HW_boot0_State)

(* While iouen is off, a device that is handed the address of a page of an  *)
(* SRAM window works on the very page the CPU sees there, although          *)
(* MEM_EmuToHost never looks at the state of the mapping.                   *)
DeviceSeesWhatCpuSees ==
  ~iouen => \A p \in SramWindow \cup MirrorWindow : MEM_EmuToHost(p) = mem[p]

(* Once the boot ROM is gone a guest can reach all of SRAM in the fffe and  *)
(* ffff windows, the page a device works on among them, although with iouen *)
(* on the address it handed to the device shows another page or none.       *)
WholeSramVisible ==
  ~HW_boot0_State =>
    \A p \in SramWindow : \E q \in Weird1Window \cup Weird2Window :
      mem[q] = MEM_EmuToHost(p)

(* A write to BOOT0 remaps memory in the middle of an instruction.  Code    *)
(* that turns the boot ROM on or off while it runs in the ffff window with  *)
(* iouen on, or in an SRAM window or the fffe window with iouen off, goes   *)
(* on in the same memory: nothing moves there.                              *)
CodeStaysInPlace ==
  [][HW_boot0_State' # HW_boot0_State =>
       \A p \in IF iouen THEN Weird2Window
                 ELSE SramWindow \cup MirrorWindow \cup Weird1Window :
         mem'[p] = mem[p]]_vars

(* The fff0 window is a mirror: after any sequence of remappings the two    *)
(* SRAM windows show the same.                                              *)
WindowsMirror ==
  \A n \in 0..(SRAM_SIZE - 1) : mem[SRAM_BASE + n] = mem[SRAM_MIRROR + n]

(* The boot ROM is somewhere in the windows exactly while it is enabled,    *)
(* and no window ever lets the guest write to it.                           *)
Boot0SeenWhileEnabled ==
  /\ HW_boot0_State <=> \E p \in Pages : mem[p].buf = "BOOT0"
  /\ \A p \in Pages : mem[p].buf = "BOOT0" => ~mem[p].writable

(* A guest that reads bit 12 of BOOT0 set can rely on the boot ROM being    *)
(* gone, in spite of the values that writes to SPARE0 plant there.          *)
BootFlagIsSound ==
  12 \in GuestRead("HW_BOOT0") => \A p \in Pages : mem[p].buf # "BOOT0"

(* A word left in the OTP data register is from the OTP that is installed,  *)
(* or was read before one was: no later import puts another OTP in place of *)
(* one that the guest may have read from.                                   *)
OtpReadingStaysValid ==
  HW_OTP_Data.image \in {NoImage, HW_CurrentOTP}

-----------------------------------------------------------------------------
(* Reading GPIO_OUT gives the level of the pins that are outputs, in the    *)
(* byte order every other register is read in.                              *)
GpioOutReadsBack ==
  GuestRead("HW_GPIO_OUT") = HW_State_GPIO \cap HW_State_GPIO_Dir

(* What the windows show of SRAM is inside the 96 KiB of the SRAM buffer.   *)
WindowsShowSramOnly ==
  \A p \in Pages : mem[p].buf = "SRAM" => mem[p].page < SRAM_SIZE

=============================================================================
