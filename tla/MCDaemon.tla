------------------------------ MODULE MCDaemon ------------------------------
(***************************************************************************)
(* Daemon for TLC: two jobs, of a plugin that is loaded and downloads or   *)
(* of one that is not, and a bus of two events.  The pids are symmetric in *)
(* the runs that check safety.                                             *)
(***************************************************************************)
EXTENDS Daemon, TLC

CONSTANTS p1, p2, none
MCPids == {p1, p2}
Symmetry == Permutations(MCPids)
=============================================================================
