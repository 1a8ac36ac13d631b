-------------------------------- MODULE Startup --------------------------------
(***************************************************************************)
(* main (uniicorn.c): the command line, boot0 and its patch, the payload    *)
(* for BootMii, and the key files in the order they are loaded; then the    *)
(* emulated CPU, whose first use of the NAND may still bring keys.          *)
(*                                                                          *)
(* A file is absent, whole, or short of what is read from it.  No result of *)
(* fread is looked at, so a short file counts as loaded.                    *)
(***************************************************************************)
EXTENDS Integers, Sequences, KeyStore

CONSTANTS
  ArgLists,       \* the command lines, without argv[0]
  Paths           \* the names that --bmem may be followed by

KeyFiles == {"otp.bin", "seeprom.bin", "keys.bin", "nand.bin"}
Files    == KeyFiles \cup {"boot0.bin"} \cup Paths

ASSUME ArgAssumption ==
  /\ \A list \in ArgLists : list \in Seq(Paths)
  /\ "none" \notin Paths

(* The keys of one half, by the file they came from and whether all of them *)
(* did; the rest is then what the stack held.                               *)
Image  == [file : KeyFiles, whole : BOOLEAN]
NoKeys == [file |-> "none", whole |-> FALSE]

ASSUME KeyFileAssumption ==
  OtpImages = Image /\ SeepromImages = Image /\ NoImage = NoKeys

VARIABLES
  argv, files,    \* the command line and what is on disk
  pc,             \* what main does next
  i, patch_boot0_hash,
  bmem,           \* the files whose bytes begin and end the payload area
  bmemMarker,     \* "BMEM" and the address are in MEM1
  boot0,          \* what BOOT0_Buffer holds
  nandMounted     \* the guest has enabled the NAND

input    == <<argv, files>>
argVars  == <<i, patch_boot0_hash, bmem, bmemMarker>>
vars     == <<input, pc, argVars, boot0, nandMounted, keyVars>>

NoPayload == [head |-> "none", tail |-> "none"]
Unloaded  == [loaded |-> FALSE, whole |-> FALSE, patched |-> FALSE]

Init ==
  /\ argv \in ArgLists
  /\ files \in [Files -> {"absent", "short", "whole"}]
  /\ pc = "allocations"
  /\ i = 1 /\ patch_boot0_hash = FALSE
  /\ bmem = NoPayload /\ bmemMarker = FALSE
  /\ boot0 = Unloaded
  /\ nandMounted = FALSE
  /\ KeyInit

Present(file) == files[file] # "absent"

-----------------------------------------------------------------------------
MakeAllocations ==
  /\ pc = "allocations"
  /\ pc' \in {"arguments", "exit"}
  /\ UNCHANGED <<input, argVars, boot0, nandMounted, keyVars>>

(* One pass of the argument loop.  After the path of --bmem the index is    *)
(* advanced once more than the loop does.                                   *)
HasPath == argv[i] = "--bmem" /\ i < Len(argv)

(* The slips stay at an option, and go one further after a path.            *)
SameArgument     == i
NextArgument     == i + 1
AfterPathAndNext == i + 4
AfterPath        == i + 3

LoadBmem ==
  /\ HasPath
  /\ \/ /\ ~Present(argv[i + 1])
        /\ pc' = "exit"
        /\ UNCHANGED argVars
     \/ /\ Present(argv[i + 1])
        /\ bmem' = [head |-> argv[i + 1],
                    tail |-> IF files[argv[i + 1]] = "whole" THEN argv[i + 1] ELSE bmem.tail]
        /\ bmemMarker' = TRUE
        /\ i' = AfterPath
        /\ UNCHANGED <<pc, patch_boot0_hash>>

TakeNocheck ==
  /\ argv[i] = "--boot0-nocheck"
  /\ patch_boot0_hash' = TRUE
  /\ i' = NextArgument
  /\ UNCHANGED <<pc, bmem, bmemMarker>>

IgnoreArgument ==
  /\ ~HasPath /\ argv[i] # "--boot0-nocheck"
  /\ i' = NextArgument
  /\ UNCHANGED <<pc, patch_boot0_hash, bmem, bmemMarker>>

ParseArgument ==
  /\ pc = "arguments" /\ i <= Len(argv)
  /\ LoadBmem \/ TakeNocheck \/ IgnoreArgument
  /\ UNCHANGED <<input, boot0, nandMounted, keyVars>>

ArgumentsDone ==
  /\ pc = "arguments" /\ i > Len(argv)
  /\ pc' = "boot0"
  /\ UNCHANGED <<input, argVars, boot0, nandMounted, keyVars>>

(* The patch goes into what was read; the slip patches before it reads.     *)
PatchThenRead == [loaded |-> TRUE, whole |-> files["boot0.bin"] = "whole", patched |-> FALSE]

ReadThenPatch == [loaded |-> TRUE, whole |-> files["boot0.bin"] = "whole",
                  patched |-> patch_boot0_hash]

LoadBoot0 ==
  /\ pc = "boot0"
  /\ \/ /\ ~Present("boot0.bin")
        /\ pc' = "exit"
        /\ UNCHANGED boot0
     \/ /\ Present("boot0.bin")
        /\ boot0' = ReadThenPatch
        /\ pc' = "otp"
  /\ UNCHANGED <<input, argVars, nandMounted, keyVars>>

Keys(file, whole) == [file |-> file, whole |-> whole]

LoadOtp ==
  /\ pc = "otp" /\ pc' = "seeprom"
  /\ IF Present("otp.bin")
     THEN HW_ImportKeys(Keys("otp.bin", files["otp.bin"] = "whole"), NoKeys)
     ELSE UNCHANGED keyVars
  /\ UNCHANGED <<input, argVars, boot0, nandMounted>>

LoadSeeprom ==
  /\ pc = "seeprom" /\ pc' = "keys"
  /\ IF Present("seeprom.bin")
     THEN HW_ImportKeys(NoKeys, Keys("seeprom.bin", files["seeprom.bin"] = "whole"))
     ELSE UNCHANGED keyVars
  /\ UNCHANGED <<input, argVars, boot0, nandMounted>>

(* The OTP comes before the SEEPROM in keys.bin, so a short file may still  *)
(* hold all of the first or of both.                                        *)
LoadKeys ==
  /\ pc = "keys" /\ pc' = "run"
  /\ IF Present("keys.bin")
     THEN \E otpWhole, romWhole \in BOOLEAN :
            /\ romWhole => otpWhole
            /\ files["keys.bin"] = "whole" => romWhole
            /\ HW_ImportKeys(Keys("keys.bin", otpWhole), Keys("keys.bin", romWhole))
     ELSE UNCHANGED keyVars
  /\ UNCHANGED <<input, argVars, boot0, nandMounted>>

-----------------------------------------------------------------------------
(* While the CPU runs, the guest enables the NAND.  Only a file of just the *)
(* size of a BootMii dump, here a whole one, has a key block.               *)
MountNand ==
  /\ pc = "run" /\ ~nandMounted
  /\ \/ /\ ~Present("nand.bin")
        /\ pc' = "exit"
        /\ UNCHANGED <<nandMounted, keyVars>>
     \/ /\ Present("nand.bin")
        /\ nandMounted' = TRUE
        /\ IF ~HW_HasKeys /\ files["nand.bin"] = "whole"
           THEN HW_ImportKeys(Keys("nand.bin", TRUE), Keys("nand.bin", TRUE))
           ELSE UNCHANGED keyVars
        /\ UNCHANGED pc
  /\ UNCHANGED <<input, argVars, boot0>>

EmulationEnds ==
  /\ pc = "run" /\ pc' = "exit"
  /\ UNCHANGED <<input, argVars, boot0, nandMounted, keyVars>>

Load ==
  \/ MakeAllocations
  \/ ParseArgument \/ ArgumentsDone
  \/ LoadBoot0
  \/ LoadOtp \/ LoadSeeprom \/ LoadKeys

Next == Load \/ MountNand \/ EmulationEnds

(* main is one thread that never waits before it starts the CPU; nothing    *)
(* says that the guest ever enables the NAND or that emulation ends.        *)
Spec == Init /\ [][Next]_vars /\ WF_vars(Load)

-----------------------------------------------------------------------------
(* The types, with the index never more than two past the arguments.        *)
TypeOK ==
  /\ argv \in ArgLists
  /\ files \in [Files -> {"absent", "short", "whole"}]
  /\ pc \in {"allocations", "arguments", "boot0", "otp", "seeprom", "keys", "run", "exit"}
  /\ i \in 1..(Len(argv) + 2)
  /\ patch_boot0_hash \in BOOLEAN
  /\ bmem \in [head : Paths \cup {"none"}, tail : Paths \cup {"none"}]
  /\ bmemMarker \in BOOLEAN
  /\ boot0 \in [loaded : BOOLEAN, whole : BOOLEAN, patched : BOOLEAN]
  /\ nandMounted \in BOOLEAN
  /\ HW_CurrentOTP \in Image \cup {NoKeys}
  /\ HW_CurrentSEEPROM \in Image \cup {NoKeys}
  /\ HW_OTPImported \in BOOLEAN
  /\ HW_SEEPROMImported \in BOOLEAN

(* The file each half should come from: its own dump, then keys.bin, then   *)
(* the NAND once the guest has enabled it.                                  *)
Source(dump) ==
  IF Present(dump) THEN dump
  ELSE IF Present("keys.bin") THEN "keys.bin"
  ELSE IF nandMounted /\ files["nand.bin"] = "whole" THEN "nand.bin"
  ELSE "none"

(* The documented key load order holds for each half by itself, whichever   *)
(* files there are, also when the halves come from different files and one  *)
(* arrives only when the guest enables the NAND.                            *)
KeysByPriority ==
  pc = "run" => /\ HW_CurrentOTP.file = Source("otp.bin")
                /\ HW_CurrentSEEPROM.file = Source("seeprom.bin")
                /\ HW_OTPImported <=> HW_CurrentOTP # NoKeys
                /\ HW_SEEPROMImported <=> HW_CurrentSEEPROM # NoKeys

(* When the CPU starts boot0 has been read, and the patch that the command  *)
(* line asked for before it was read is in what was read; the marker that   *)
(* sends BootMii's loader to the payload is there only with one.            *)
CpuStartsPrepared ==
  pc = "run" => /\ boot0.loaded /\ boot0.patched = patch_boot0_hash
                /\ bmemMarker <=> bmem.head # "none"
                /\ bmem.head # "none" => Present(bmem.head)

(* Parsing and loading come to an end, with the CPU started or an exit.     *)
StartupEnds == <>(pc \in {"run", "exit"})

-----------------------------------------------------------------------------
(* An argument is an option unless it is the path of the --bmem before it.  *)
IsOption[p \in Nat] ==
  \/ p <= 1
  \/ ~(argv[p - 1] = "--bmem" /\ IsOption[p - 1])

(* boot0 is patched exactly when --boot0-nocheck is among the options.      *)
NocheckHonoured ==
  pc = "run" =>
    (boot0.patched <=> \E p \in DOMAIN argv : argv[p] = "--boot0-nocheck" /\ IsOption[p])

=============================================================================
