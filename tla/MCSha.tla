--------------------------------- MODULE MCSha ---------------------------------
(***************************************************************************)
(* The SHA engine with blocks of two bytes, state words of one bit, and     *)
(* rounds that are not linear and tell states and blocks apart.             *)
(***************************************************************************)
EXTENDS ShaEngine

MCRounds ==
  [p \in State \X Blocks |->
     LET s == p[1]  b == p[2] IN
     [i \in 0..4 |-> (s[(i + 1) % 5] * s[(i + 3) % 5] + s[(i + 4) % 5]
                        + b[1 + (i % 2)] * (s[(i + 2) % 5] + 1) + b[1] * b[2]) % 2]]

(* Two regions with a gap, and the last address of the address space.       *)
MCMemory == [a \in {0, 1, 2, 3, 6, 7} |-> IF a \in {1, 2, 6} THEN 1 ELSE 0]

MCWritten ==
  [r \in {"SHA_CTRL", "SHA_SRC", "SHA_H"} |->
     CASE r = "SHA_CTRL" -> {[start |-> TRUE, blocks |-> n] : n \in 1..2}
                              \cup {[start |-> FALSE, blocks |-> 1]}
       [] r = "SHA_SRC"  -> {1, 6}
       [] OTHER          -> {<<0, 1>>, <<4, 1>>}]

=============================================================================
