----------------------------- MODULE StartupProofs -----------------------------
(***************************************************************************)
(* Proofs about main in Startup: the types, the key load order and what the *)
(* CPU starts with, for every command line and whatever files there are.    *)
(*                                                                          *)
(* KeysByPriority speaks of the running CPU only; the invariant says of     *)
(* each stage before it which file each half has come from so far.          *)
(***************************************************************************)
EXTENDS Startup, TLAPS

BeforeOtp     == {"allocations", "arguments", "boot0", "otp"}
BeforeSeeprom == BeforeOtp \cup {"seeprom"}
BeforeKeys    == BeforeSeeprom \cup {"keys"}

OtpSoFar ==
  IF pc \in BeforeOtp THEN "none"
  ELSE IF pc \in BeforeKeys THEN (IF Present("otp.bin") THEN "otp.bin" ELSE "none")
  ELSE Source("otp.bin")

SeepromSoFar ==
  IF pc \in BeforeSeeprom THEN "none"
  ELSE IF pc \in BeforeKeys THEN (IF Present("seeprom.bin") THEN "seeprom.bin" ELSE "none")
  ELSE Source("seeprom.bin")

KeysSoFar ==
  pc # "exit" => HW_CurrentOTP.file = OtpSoFar /\ HW_CurrentSEEPROM.file = SeepromSoFar

FlagsAgree ==
  /\ HW_OTPImported <=> HW_CurrentOTP # NoKeys
  /\ HW_SEEPROMImported <=> HW_CurrentSEEPROM # NoKeys

NandLater == pc \in BeforeKeys => ~nandMounted

Boot0Loaded ==
  pc \in {"otp", "seeprom", "keys", "run"} => boot0.loaded /\ boot0.patched = patch_boot0_hash

PayloadMarked ==
  /\ bmemMarker <=> bmem.head # "none"
  /\ bmem.head # "none" => Present(bmem.head)

IInv == TypeOK /\ KeysSoFar /\ FlagsAgree /\ NandLater /\ Boot0Loaded /\ PayloadMarked

(* An argument is one of the names a command line is made of.               *)
LEMMA ArgumentIsPath ==
  ASSUME TypeOK, NEW p \in Nat \ {0}, p <= Len(argv)
  PROVE  argv[p] \in Paths
<1>1. argv \in Seq(Paths)
  BY ArgAssumption DEF TypeOK
<1> QED
  BY <1>1

(* The keys of a file are an image, and never no keys.                      *)
LEMMA KeysAreImage ==
  ASSUME NEW file \in KeyFiles, NEW whole \in BOOLEAN
  PROVE  /\ Keys(file, whole) \in Image
         /\ Keys(file, whole) # NoKeys
         /\ Keys(file, whole).file = file
BY DEF Keys, Image, NoKeys, KeyFiles

(* A half is without a file exactly when it has no keys.                    *)
LEMMA NoneMeansNoKeys ==
  ASSUME NEW image \in Image \cup {NoKeys}
  PROVE  image.file = "none" <=> image = NoKeys
BY DEF Image, NoKeys, KeyFiles

(* What an import leaves behind: each half is the one it was, or the one    *)
(* offered when there was none, and the flags follow.                       *)
LEMMA ImportKeys ==
  ASSUME TypeOK, FlagsAgree,
         NEW otp \in Image \cup {NoKeys}, NEW seeprom \in Image \cup {NoKeys},
         HW_ImportKeys(otp, seeprom)
  PROVE  /\ HW_CurrentOTP' = IF HW_CurrentOTP = NoKeys THEN otp ELSE HW_CurrentOTP
         /\ HW_CurrentSEEPROM' =
              IF HW_CurrentSEEPROM = NoKeys THEN seeprom ELSE HW_CurrentSEEPROM
         /\ HW_CurrentOTP' \in Image \cup {NoKeys}
         /\ HW_CurrentSEEPROM' \in Image \cup {NoKeys}
         /\ HW_OTPImported' \in BOOLEAN /\ HW_SEEPROMImported' \in BOOLEAN
         /\ FlagsAgree'
BY KeyFileAssumption
DEF TypeOK, FlagsAgree, HW_ImportKeys, ImportsOTP, ImportsSEEPROM

-----------------------------------------------------------------------------
LEMMA InitInv == Init => IInv
<1> SUFFICES ASSUME Init PROVE IInv
  OBVIOUS
<1>1. TypeOK
  <2>1. /\ HW_CurrentOTP \in Image \cup {NoKeys} /\ HW_OTPImported \in BOOLEAN
        /\ HW_CurrentSEEPROM \in Image \cup {NoKeys} /\ HW_SEEPROMImported \in BOOLEAN
    BY KeyFileAssumption DEF Init, KeyInit
  <2>2. /\ bmem \in [head : Paths \cup {"none"}, tail : Paths \cup {"none"}]
        /\ boot0 \in [loaded : BOOLEAN, whole : BOOLEAN, patched : BOOLEAN]
    BY DEF Init, NoPayload, Unloaded
  <2>3. /\ patch_boot0_hash \in BOOLEAN
        /\ bmemMarker \in BOOLEAN /\ nandMounted \in BOOLEAN
    BY DEF Init
  <2>4. 1 \in 1..(Len(argv) + 2)
    BY ArgAssumption DEF Init
  <2> QED
    BY <2>1, <2>2, <2>3, <2>4 DEF Init, TypeOK
<1>2. KeysSoFar /\ FlagsAgree
  BY KeyFileAssumption
  DEF Init, KeyInit, NoKeys, KeysSoFar, FlagsAgree, OtpSoFar, SeepromSoFar,
      BeforeOtp, BeforeSeeprom
<1>3. NandLater /\ Boot0Loaded /\ PayloadMarked
  BY DEF Init, NandLater, Boot0Loaded, PayloadMarked, NoPayload, BeforeKeys
<1> QED
  BY <1>1, <1>2, <1>3 DEF IInv

(* A step that leaves the files and the keys alone, and stays before the    *)
(* OTP is loaded or ends main.                                              *)
LEMMA EarlyStep ==
  ASSUME IInv, pc \in BeforeOtp, pc' \in BeforeOtp \cup {"exit"},
         UNCHANGED <<input, keyVars, nandMounted>>
  PROVE  KeysSoFar' /\ FlagsAgree' /\ NandLater'
<1>1. /\ HW_CurrentOTP.file = "none" /\ HW_CurrentSEEPROM.file = "none"
      /\ ~nandMounted /\ FlagsAgree
  BY DEF IInv, KeysSoFar, OtpSoFar, SeepromSoFar, NandLater,
         BeforeOtp, BeforeSeeprom, BeforeKeys
<1>2. /\ HW_CurrentOTP' = HW_CurrentOTP /\ HW_CurrentSEEPROM' = HW_CurrentSEEPROM
      /\ HW_OTPImported' = HW_OTPImported /\ HW_SEEPROMImported' = HW_SEEPROMImported
      /\ nandMounted' = nandMounted
  BY DEF keyVars
<1> QED
  BY <1>1, <1>2
  DEF KeysSoFar, FlagsAgree, NandLater, OtpSoFar, SeepromSoFar, BeforeSeeprom

(* Parsing one argument.                                                    *)
LEMMA ParseInv == IInv /\ ParseArgument => IInv'
<1> SUFFICES ASSUME IInv, ParseArgument PROVE IInv'
  OBVIOUS
<1>0. Len(argv) \in Nat
  BY ArgAssumption DEF IInv, TypeOK
<1>1. /\ TypeOK /\ pc = "arguments" /\ i <= Len(argv) /\ i \in Nat \ {0}
      /\ UNCHANGED <<input, boot0, nandMounted, keyVars>>
      /\ PayloadMarked
  BY <1>0 DEF ParseArgument, IInv, TypeOK
<1>2. /\ argv' = argv /\ files' = files /\ boot0' = boot0 /\ nandMounted' = nandMounted
      /\ HW_CurrentOTP' = HW_CurrentOTP /\ HW_CurrentSEEPROM' = HW_CurrentSEEPROM
      /\ HW_OTPImported' = HW_OTPImported /\ HW_SEEPROMImported' = HW_SEEPROMImported
  BY <1>1 DEF input, keyVars
<1>3. /\ pc' \in {"arguments", "exit"}
      /\ i' \in 1..(Len(argv) + 2) /\ patch_boot0_hash' \in BOOLEAN
      /\ bmem' \in [head : Paths \cup {"none"}, tail : Paths \cup {"none"}]
      /\ bmemMarker' \in BOOLEAN
      /\ PayloadMarked'
  <2>1. CASE LoadBmem
    <3>1. CASE pc' = "exit" /\ UNCHANGED argVars
      BY <3>1, <1>1, <1>2 DEF TypeOK, argVars, PayloadMarked, Present
    <3>2. CASE /\ Present(argv[i + 1])
               /\ bmem' = [head |-> argv[i + 1],
                           tail |-> IF files[argv[i + 1]] = "whole"
                                    THEN argv[i + 1] ELSE bmem.tail]
               /\ bmemMarker' = TRUE
               /\ i' = i + 3
               /\ UNCHANGED <<pc, patch_boot0_hash>>
      <4>1. i + 1 \in Nat \ {0} /\ i + 1 <= Len(argv)
        <5>1. i < Len(argv) /\ Len(argv) \in Nat
          BY <2>1, <1>1, ArgAssumption DEF LoadBmem, HasPath, TypeOK, AfterPath
        <5> QED
          BY <5>1, <1>1
      <4>2. argv[i + 1] \in Paths
        BY <4>1, <1>1, ArgumentIsPath
      <4>3. bmem.tail \in Paths \cup {"none"}
        BY <1>1 DEF TypeOK
      <4>4. /\ bmem' \in [head : Paths \cup {"none"}, tail : Paths \cup {"none"}]
            /\ bmem'.head = argv[i + 1]
        BY <3>2, <4>2, <4>3
      <4>5. argv[i + 1] # "none"
        BY <4>2, ArgAssumption
      <4>6. PayloadMarked'
        BY <3>2, <4>4, <4>5, <1>2 DEF PayloadMarked, Present
      <4>7. i' \in 1..(Len(argv) + 2)
        BY <3>2, <4>1, <1>0, <1>1
      <4> QED
        BY <3>2, <4>4, <4>6, <4>7, <1>1 DEF TypeOK
    <3> QED
      BY <2>1, <3>1, <3>2 DEF LoadBmem, AfterPath
  <2>2. CASE TakeNocheck
    BY <2>2, <1>0, <1>1, <1>2 DEF TakeNocheck, TypeOK, PayloadMarked, Present, NextArgument
  <2>3. CASE IgnoreArgument
    BY <2>3, <1>0, <1>1, <1>2 DEF IgnoreArgument, TypeOK, PayloadMarked, Present, NextArgument
  <2> QED
    BY <2>1, <2>2, <2>3 DEF ParseArgument
<1>4. TypeOK'
  BY <1>1, <1>2, <1>3 DEF TypeOK
<1>5. KeysSoFar' /\ FlagsAgree' /\ NandLater'
  BY <1>1, <1>3, EarlyStep DEF BeforeOtp
<1>6. Boot0Loaded'
  BY <1>3 DEF Boot0Loaded
<1> QED
  BY <1>3, <1>4, <1>5, <1>6 DEF IInv

(* The steps around it that touch no keys.                                  *)
LEMMA OtherEarlyInv ==
  IInv /\ (MakeAllocations \/ ArgumentsDone \/ LoadBoot0) => IInv'
<1> SUFFICES ASSUME IInv, MakeAllocations \/ ArgumentsDone \/ LoadBoot0 PROVE IInv'
  OBVIOUS
<1>1. /\ pc \in {"allocations", "arguments", "boot0"}
      /\ pc' \in {"arguments", "boot0", "otp", "exit"}
      /\ UNCHANGED <<input, argVars, nandMounted, keyVars>>
      /\ pc' = "otp" => boot0'.loaded /\ boot0'.patched = patch_boot0_hash
      /\ boot0' \in [loaded : BOOLEAN, whole : BOOLEAN, patched : BOOLEAN]
  <2>1. boot0 \in [loaded : BOOLEAN, whole : BOOLEAN, patched : BOOLEAN]
        /\ patch_boot0_hash \in BOOLEAN
    BY DEF IInv, TypeOK
  <2>2. CASE MakeAllocations \/ ArgumentsDone
    BY <2>1, <2>2 DEF MakeAllocations, ArgumentsDone
  <2>3. CASE LoadBoot0
    <3>1. CASE pc' = "exit" /\ UNCHANGED boot0
      BY <3>1, <2>1, <2>3 DEF LoadBoot0, ReadThenPatch
    <3>2. CASE pc' = "otp" /\ boot0' = [loaded |-> TRUE, whole |-> files["boot0.bin"] = "whole",
                                       patched |-> patch_boot0_hash]
      <4> DEFINE all == files["boot0.bin"] = "whole"
      <4>1. all \in BOOLEAN
        OBVIOUS
      <4>2. boot0' = [loaded |-> TRUE, whole |-> all, patched |-> patch_boot0_hash]
        BY <3>2
      <4> HIDE DEF all
      <4>3. /\ boot0' \in [loaded : BOOLEAN, whole : BOOLEAN, patched : BOOLEAN]
            /\ boot0'.loaded /\ boot0'.patched = patch_boot0_hash
        BY <4>1, <4>2, <2>1
      <4> QED
        BY <4>3, <3>2, <2>3 DEF LoadBoot0, ReadThenPatch
    <3> QED
      BY <2>3, <3>1, <3>2 DEF LoadBoot0, ReadThenPatch
  <2> QED
    BY <2>2, <2>3
<1>2. TypeOK'
  BY <1>1 DEF IInv, TypeOK, input, argVars, keyVars
<1>3. KeysSoFar' /\ FlagsAgree' /\ NandLater'
  BY <1>1, EarlyStep DEF BeforeOtp
<1>4. Boot0Loaded'
  BY <1>1 DEF Boot0Loaded, argVars
<1>5. PayloadMarked'
  BY <1>1 DEF IInv, PayloadMarked, Present, argVars, input
<1> QED
  BY <1>2, <1>3, <1>4, <1>5 DEF IInv

(* What the steps that import keys have in common: the types, the flags and *)
(* what only other steps change.                                            *)
LEMMA ImportStep ==
  ASSUME IInv,
         NEW otp \in Image \cup {NoKeys}, NEW seeprom \in Image \cup {NoKeys},
         HW_ImportKeys(otp, seeprom) \/ UNCHANGED keyVars,
         pc \in {"otp", "seeprom", "keys", "run"},
         pc' \in {"seeprom", "keys", "run", "exit"},
         nandMounted' \in BOOLEAN,
         UNCHANGED <<input, argVars, boot0>>
  PROVE  TypeOK' /\ FlagsAgree' /\ Boot0Loaded' /\ PayloadMarked'
<1>1. TypeOK /\ FlagsAgree
  BY DEF IInv
<1>2. /\ HW_CurrentOTP' \in Image \cup {NoKeys}
      /\ HW_CurrentSEEPROM' \in Image \cup {NoKeys}
      /\ HW_OTPImported' \in BOOLEAN /\ HW_SEEPROMImported' \in BOOLEAN
      /\ FlagsAgree'
  <2>1. CASE HW_ImportKeys(otp, seeprom)
    BY <2>1, <1>1, ImportKeys
  <2>2. CASE UNCHANGED keyVars
    BY <2>2, <1>1 DEF keyVars, TypeOK, FlagsAgree
  <2> QED
    BY <2>1, <2>2
<1>3. TypeOK'
  BY <1>1, <1>2 DEF TypeOK, input, argVars
<1>4. Boot0Loaded'
  BY DEF IInv, Boot0Loaded, argVars
<1>5. PayloadMarked'
  BY DEF IInv, PayloadMarked, Present, argVars, input
<1> QED
  BY <1>2, <1>3, <1>4, <1>5

LEMMA OtpInv == IInv /\ LoadOtp => IInv'
<1> SUFFICES ASSUME IInv, LoadOtp PROVE IInv'
  OBVIOUS
<1> DEFINE otp == Keys("otp.bin", files["otp.bin"] = "whole")
<1>1. /\ pc = "otp" /\ pc' = "seeprom"
      /\ UNCHANGED <<input, argVars, boot0, nandMounted>>
      /\ IF Present("otp.bin") THEN HW_ImportKeys(otp, NoKeys) ELSE UNCHANGED keyVars
  BY DEF LoadOtp
<1>2. otp \in Image /\ otp.file = "otp.bin"
  BY KeysAreImage DEF KeyFiles
<1> HIDE DEF otp
<1>3. TypeOK' /\ FlagsAgree' /\ Boot0Loaded' /\ PayloadMarked'
  BY <1>1, <1>2, ImportStep DEF IInv, TypeOK
<1>4. HW_CurrentOTP = NoKeys /\ HW_CurrentSEEPROM = NoKeys /\ ~nandMounted
  BY <1>1, NoneMeansNoKeys
  DEF IInv, TypeOK, KeysSoFar, OtpSoFar, SeepromSoFar, NandLater,
      BeforeOtp, BeforeSeeprom, BeforeKeys
<1>5. /\ HW_CurrentOTP' = IF Present("otp.bin") THEN otp ELSE NoKeys
      /\ HW_CurrentSEEPROM' = NoKeys
  BY <1>1, <1>2, <1>4, ImportKeys DEF IInv, keyVars
<1>6. KeysSoFar' /\ NandLater'
  BY <1>1, <1>2, <1>4, <1>5
  DEF KeysSoFar, NandLater, OtpSoFar, SeepromSoFar, Present, input,
      BeforeOtp, BeforeSeeprom, BeforeKeys, NoKeys
<1> QED
  BY <1>3, <1>6 DEF IInv

LEMMA SeepromInv == IInv /\ LoadSeeprom => IInv'
<1> SUFFICES ASSUME IInv, LoadSeeprom PROVE IInv'
  OBVIOUS
<1> DEFINE rom == Keys("seeprom.bin", files["seeprom.bin"] = "whole")
<1>1. /\ pc = "seeprom" /\ pc' = "keys"
      /\ UNCHANGED <<input, argVars, boot0, nandMounted>>
      /\ IF Present("seeprom.bin") THEN HW_ImportKeys(NoKeys, rom) ELSE UNCHANGED keyVars
  BY DEF LoadSeeprom
<1>2. rom \in Image /\ rom.file = "seeprom.bin"
  BY KeysAreImage DEF KeyFiles
<1> HIDE DEF rom
<1>3. TypeOK' /\ FlagsAgree' /\ Boot0Loaded' /\ PayloadMarked'
  BY <1>1, <1>2, ImportStep DEF IInv, TypeOK
<1>4. HW_CurrentSEEPROM = NoKeys /\ ~nandMounted /\ HW_CurrentOTP.file = OtpSoFar
  BY <1>1, NoneMeansNoKeys
  DEF IInv, TypeOK, KeysSoFar, SeepromSoFar, NandLater,
      BeforeOtp, BeforeSeeprom, BeforeKeys
<1>5. /\ HW_CurrentSEEPROM' = IF Present("seeprom.bin") THEN rom ELSE NoKeys
      /\ HW_CurrentOTP' = HW_CurrentOTP
  BY <1>1, <1>2, <1>4, ImportKeys DEF IInv, keyVars
<1>6. KeysSoFar' /\ NandLater'
  BY <1>1, <1>2, <1>4, <1>5
  DEF KeysSoFar, NandLater, OtpSoFar, SeepromSoFar, Present, input,
      BeforeOtp, BeforeSeeprom, BeforeKeys, NoKeys
<1> QED
  BY <1>3, <1>6 DEF IInv

LEMMA KeysInv == IInv /\ LoadKeys => IInv'
<1> SUFFICES ASSUME IInv, LoadKeys PROVE IInv'
  OBVIOUS
<1>1. /\ pc = "keys" /\ pc' = "run"
      /\ UNCHANGED <<input, argVars, boot0, nandMounted>>
  BY DEF LoadKeys
<1>2. PICK otpWhole \in BOOLEAN, romWhole \in BOOLEAN :
             IF Present("keys.bin")
             THEN HW_ImportKeys(Keys("keys.bin", otpWhole), Keys("keys.bin", romWhole))
             ELSE UNCHANGED keyVars
  BY DEF LoadKeys
<1> DEFINE otp == Keys("keys.bin", otpWhole)
           rom == Keys("keys.bin", romWhole)
<1>3. /\ otp \in Image /\ otp.file = "keys.bin"
      /\ rom \in Image /\ rom.file = "keys.bin"
  BY KeysAreImage DEF KeyFiles
<1>4. IF Present("keys.bin") THEN HW_ImportKeys(otp, rom) ELSE UNCHANGED keyVars
  BY <1>2
<1> HIDE DEF otp, rom
<1>5. TypeOK' /\ FlagsAgree' /\ Boot0Loaded' /\ PayloadMarked'
  BY <1>1, <1>3, <1>4, ImportStep DEF IInv, TypeOK
<1>6. /\ HW_CurrentOTP.file = (IF Present("otp.bin") THEN "otp.bin" ELSE "none")
      /\ HW_CurrentSEEPROM.file = (IF Present("seeprom.bin") THEN "seeprom.bin" ELSE "none")
      /\ ~nandMounted
  BY <1>1 DEF IInv, KeysSoFar, OtpSoFar, SeepromSoFar, NandLater,
              BeforeOtp, BeforeSeeprom, BeforeKeys
<1>7. /\ HW_CurrentOTP = NoKeys <=> ~Present("otp.bin")
      /\ HW_CurrentSEEPROM = NoKeys <=> ~Present("seeprom.bin")
  BY <1>6, NoneMeansNoKeys DEF IInv, TypeOK
<1>8. CASE Present("keys.bin")
  <2>1. /\ HW_CurrentOTP'.file = IF Present("otp.bin") THEN "otp.bin" ELSE "keys.bin"
        /\ HW_CurrentSEEPROM'.file = IF Present("seeprom.bin") THEN "seeprom.bin" ELSE "keys.bin"
    BY <1>3, <1>4, <1>6, <1>7, <1>8, ImportKeys DEF IInv
  <2> QED
    BY <2>1, <1>1, <1>5, <1>8
    DEF IInv, KeysSoFar, NandLater, OtpSoFar, SeepromSoFar, Source, Present, input,
        BeforeOtp, BeforeSeeprom, BeforeKeys
<1>9. CASE ~Present("keys.bin")
  BY <1>1, <1>4, <1>5, <1>6, <1>9
  DEF IInv, KeysSoFar, NandLater, OtpSoFar, SeepromSoFar, Source, Present, input, keyVars,
      BeforeOtp, BeforeSeeprom, BeforeKeys
<1> QED
  BY <1>8, <1>9

LEMMA MountInv == IInv /\ MountNand => IInv'
<1> SUFFICES ASSUME IInv, MountNand PROVE IInv'
  OBVIOUS
<1> DEFINE new == Keys("nand.bin", TRUE)
           takes == ~HW_HasKeys /\ files["nand.bin"] = "whole"
<1>1. /\ pc = "run" /\ ~nandMounted /\ pc' \in {"run", "exit"}
      /\ UNCHANGED <<input, argVars, boot0>>
      /\ nandMounted' \in BOOLEAN
      /\ HW_ImportKeys(new, new) \/ UNCHANGED keyVars
  BY DEF MountNand, IInv, TypeOK
<1>2. pc' = "run" => /\ nandMounted'
                     /\ IF takes THEN HW_ImportKeys(new, new) ELSE UNCHANGED keyVars
  BY <1>1 DEF MountNand
<1>3. new \in Image /\ new.file = "nand.bin"
  BY KeysAreImage DEF KeyFiles
<1> HIDE DEF new
<1>4. TypeOK' /\ FlagsAgree' /\ Boot0Loaded' /\ PayloadMarked'
  BY <1>1, <1>3, ImportStep
<1>5. /\ HW_CurrentOTP.file = Source("otp.bin")
      /\ HW_CurrentSEEPROM.file = Source("seeprom.bin")
  BY <1>1 DEF IInv, KeysSoFar, OtpSoFar, SeepromSoFar,
              BeforeOtp, BeforeSeeprom, BeforeKeys
<1>6. /\ HW_CurrentOTP = NoKeys <=> ~Present("otp.bin") /\ ~Present("keys.bin")
      /\ HW_CurrentSEEPROM = NoKeys <=> ~Present("seeprom.bin") /\ ~Present("keys.bin")
  BY <1>1, <1>5, NoneMeansNoKeys DEF Source, IInv, TypeOK
<1>7. NandLater'
  BY <1>1 DEF NandLater, BeforeOtp, BeforeSeeprom, BeforeKeys
<1>8. CASE pc' = "exit"
  BY <1>4, <1>7, <1>8 DEF IInv, KeysSoFar
<1>9. CASE pc' = "run" /\ takes
  <2>1. /\ HW_CurrentOTP' = IF HW_CurrentOTP = NoKeys THEN new ELSE HW_CurrentOTP
        /\ HW_CurrentSEEPROM' = IF HW_CurrentSEEPROM = NoKeys THEN new ELSE HW_CurrentSEEPROM
    BY <1>2, <1>3, <1>9, ImportKeys DEF IInv
  <2>2. files' = files /\ nandMounted' /\ files["nand.bin"] = "whole"
    BY <1>1, <1>2, <1>9 DEF input
  <2>3. HW_CurrentOTP'.file = Source("otp.bin")'
    BY <2>1, <2>2, <1>3, <1>5, <1>6 DEF Source, Present
  <2>4. HW_CurrentSEEPROM'.file = Source("seeprom.bin")'
    BY <2>1, <2>2, <1>3, <1>5, <1>6 DEF Source, Present
  <2> QED
    BY <2>3, <2>4, <1>4, <1>7, <1>9
    DEF IInv, KeysSoFar, OtpSoFar, SeepromSoFar, BeforeOtp, BeforeSeeprom, BeforeKeys
<1>10. CASE pc' = "run" /\ ~takes
  <2>1. HW_CurrentOTP' = HW_CurrentOTP /\ HW_CurrentSEEPROM' = HW_CurrentSEEPROM
    BY <1>2, <1>10 DEF keyVars
  <2>2. files' = files
    BY <1>1 DEF input
  <2>3. \/ files["nand.bin"] # "whole"
        \/ HW_CurrentOTP # NoKeys /\ HW_CurrentSEEPROM # NoKeys
    BY <1>10 DEF HW_HasKeys, IInv, FlagsAgree
  <2>4. /\ HW_CurrentOTP'.file = Source("otp.bin")'
        /\ HW_CurrentSEEPROM'.file = Source("seeprom.bin")'
    BY <2>1, <2>2, <2>3, <1>1, <1>5, <1>6 DEF Source, Present
  <2> QED
    BY <2>4, <1>4, <1>7, <1>10
    DEF IInv, KeysSoFar, OtpSoFar, SeepromSoFar, BeforeOtp, BeforeSeeprom, BeforeKeys
<1> QED
  BY <1>1, <1>8, <1>9, <1>10

LEMMA NextInv == IInv /\ [Next]_vars => IInv'
<1> SUFFICES ASSUME IInv, [Next]_vars PROVE IInv'
  OBVIOUS
<1>1. CASE EmulationEnds
  <2>1. NoKeys \in Image \cup {NoKeys}
    OBVIOUS
  <2>2. TypeOK' /\ FlagsAgree' /\ Boot0Loaded' /\ PayloadMarked'
    BY <2>1, <1>1, ImportStep DEF EmulationEnds, IInv, TypeOK
  <2> QED
    BY <2>2, <1>1
    DEF EmulationEnds, IInv, KeysSoFar, NandLater, BeforeOtp, BeforeSeeprom, BeforeKeys
<1>2. CASE UNCHANGED vars
  BY <1>2 DEF IInv, TypeOK, KeysSoFar, FlagsAgree, NandLater, Boot0Loaded, PayloadMarked,
              OtpSoFar, SeepromSoFar, Source, Present, vars, input, argVars, keyVars
<1> QED
  BY <1>1, <1>2, ParseInv, OtherEarlyInv, OtpInv, SeepromInv, KeysInv, MountInv
  DEF Next, Load

(* The invariant holds in every reachable state.                            *)
THEOREM StartupInvariant == Spec => []IInv
<1> QED
  BY InitInv, NextInv, PTL DEF Spec

(* The variables of main keep their types.                                  *)
THEOREM StartupTypeCorrect == Spec => []TypeOK
<1>1. IInv => TypeOK
  BY DEF IInv
<1> QED
  BY <1>1, StartupInvariant, PTL

(* Each half of the keys comes from the first file of the documented order. *)
THEOREM LoadOrderCorrect == Spec => []KeysByPriority
<1>1. IInv => KeysByPriority
  BY DEF IInv, KeysByPriority, KeysSoFar, FlagsAgree, OtpSoFar, SeepromSoFar,
         BeforeOtp, BeforeSeeprom, BeforeKeys
<1> QED
  BY <1>1, StartupInvariant, PTL

(* The CPU starts with boot0 read and patched as the parser was asked to.   *)
THEOREM PreparationCorrect == Spec => []CpuStartsPrepared
<1>1. IInv => CpuStartsPrepared
  BY DEF IInv, CpuStartsPrepared, Boot0Loaded, PayloadMarked
<1> QED
  BY <1>1, StartupInvariant, PTL

=============================================================================
