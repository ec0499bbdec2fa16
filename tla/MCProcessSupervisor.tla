------------------------- MODULE MCProcessSupervisor -------------------------
(***************************************************************************)
(* ProcessSupervisor for TLC: two plugins, three pids.                     *)
(***************************************************************************)
EXTENDS ProcessSupervisor, TLC

CONSTANTS p1, p2, p3, git, curl
MCPids == {p1, p2, p3}
MCRecycled == {p2}
MCPlugins == {git, curl}
Symmetry == Permutations(MCPlugins)
==============================================================================
