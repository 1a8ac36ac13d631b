------------------------------- MODULE KeyStore -------------------------------
(***************************************************************************)
(* The OTP and SEEPROM contents that registers_hollywood.c keeps, and the   *)
(* one function that installs them.  An image stands for the bytes of a     *)
(* whole OTP or SEEPROM; NoImage is both the NULL argument of a call and    *)
(* the zeroes the program starts with.                                      *)
(***************************************************************************)

CONSTANTS OtpImages, SeepromImages, NoImage

ASSUME ImageAssumption == NoImage \notin OtpImages \cup SeepromImages

VARIABLES HW_CurrentOTP, HW_CurrentSEEPROM, HW_OTPImported, HW_SEEPROMImported

keyVars == <<HW_CurrentOTP, HW_CurrentSEEPROM, HW_OTPImported, HW_SEEPROMImported>>

KeyInit ==
  /\ HW_CurrentOTP = NoImage
  /\ HW_CurrentSEEPROM = NoImage
  /\ HW_OTPImported = FALSE
  /\ HW_SEEPROMImported = FALSE

HW_HasKeys == HW_OTPImported /\ HW_SEEPROMImported

(* Slips: a later OTP is taken as well, and the SEEPROM looks at the flag   *)
(* of the other half.                                                       *)
OffersOTP(otp)               == otp # NoImage
ImportsSEEPROMByOTP(seeprom) == seeprom # NoImage /\ ~HW_OTPImported

(* Each half is taken at most once, from the first call that offers it.     *)
ImportsOTP(otp)         == otp # NoImage /\ ~HW_OTPImported
ImportsSEEPROM(seeprom) == seeprom # NoImage /\ ~HW_SEEPROMImported

HW_ImportKeys(otp, seeprom) ==
  /\ HW_CurrentOTP'      = IF ImportsOTP(otp) THEN otp ELSE HW_CurrentOTP
  /\ HW_OTPImported'     = (HW_OTPImported \/ ImportsOTP(otp))
  /\ HW_CurrentSEEPROM'  = IF ImportsSEEPROM(seeprom) THEN seeprom ELSE HW_CurrentSEEPROM
  /\ HW_SEEPROMImported' = (HW_SEEPROMImported \/ ImportsSEEPROM(seeprom))

=============================================================================
