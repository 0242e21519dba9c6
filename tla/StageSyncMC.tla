---------------------------- MODULE StageSyncMC ----------------------------
(* One agent that uses an MCP server and a hook, which another stage has too. *)
EXTENDS StageSync, TLC

CONSTANTS p1, p2

Declared ==
  [s1 |-> {{}, {"agent", "server"}, {"agent", "hook", "server"}},
   s2 |-> {{"hook"}}]
Swapped == Permutations(Sessions)

=============================================================================
