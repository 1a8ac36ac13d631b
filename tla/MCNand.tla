--------------------------------- MODULE MCNand --------------------------------
(***************************************************************************)
(* The NAND registers with pages of two data lines and one of ECC.  The     *)
(* pages past the end of the dump are one that is read short, one whose     *)
(* offset is negative as an int, and one whose offset wraps to line 1.      *)
(***************************************************************************)
EXTENDS NandInterface

MCDumps == {NoDump, [pages |-> 3, keys |-> FALSE], [pages |-> 3, keys |-> TRUE]}

MCWritten ==
  [r \in {"NAND_CONFIG", "NAND_CTRL", "NAND_ADDR2", "NAND_DATABUF", "NAND_ECCBUF"} |->
     CASE r = "NAND_CONFIG"  -> {{}, {27}}
       [] r = "NAND_CTRL"    -> Commands
       [] r = "NAND_ADDR2"   -> {1, 3, 7, 11}
       [] r = "NAND_DATABUF" -> {0, 3}
       [] OTHER              -> {1, 2}]

=============================================================================
