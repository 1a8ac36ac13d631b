------------------------------- MODULE MCStartup -------------------------------
(***************************************************************************)
(* main with every command line of up to three arguments, or a few longer.  *)
(***************************************************************************)
EXTENDS Startup

MCPaths == {"--bmem", "--boot0-nocheck", "armboot.bin"}

ListsUpTo(n) == UNION {[1..k -> MCPaths] : k \in 0..n}

(* Command lines that show each way through the loop.                       *)
FewLists ==
  { <<>>, <<"--boot0-nocheck">>, <<"--bmem", "armboot.bin">>, <<"armboot.bin", "--bmem">>,
    <<"--boot0-nocheck", "--bmem", "armboot.bin">>,
    <<"--bmem", "armboot.bin", "armboot.bin", "--bmem", "--boot0-nocheck">> }

AllLists == ListsUpTo(3)

=============================================================================
