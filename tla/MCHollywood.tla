----------------------------- MODULE MCHollywood -----------------------------
(***************************************************************************)
(* Hollywood with the words a guest writes cut down to the bits the         *)
(* handlers look at, one bit they ignore in each byte position that a swap  *)
(* moves, and the pins of one GPIO group.                                   *)
(***************************************************************************)
EXTENDS Hollywood

(* Every order of every value of the remapping registers, with the OTP port *)
(* between them, and one word for each of the other registers.              *)
AllWords ==
  [r \in HandledRegisters \cup CachedRegisters |->
     CASE r = "HW_SRNPROT" -> {{}, {5}, {3, 5}}
       [] r = "HW_BOOT0"   -> {{}, {12}}
       [] r = "HW_SPARE0"  -> {{}, {16}}
       [] r = "HW_OTPCMD"  -> {{0}, {31}, {0, 31}}
       [] r = "HW_OTHER"   -> {{31}}
       [] r = "HW_AIPPROT" -> {{0}}
       [] OTHER            -> {{5}}]

=============================================================================
