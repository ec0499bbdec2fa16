--------------------------- MODULE MCPluginManager ---------------------------
(***************************************************************************)
(* PluginManager for TLC: two built-in plugins, one of them with Resume, a  *)
(* community plugin without, two tasks with handles, and two plugin        *)
(* objects: one may replace the other, be in a batch with it, or outlive   *)
(* it.                                                                     *)
(***************************************************************************)
EXTENDS PluginManager

CONSTANTS git, podman, rsync, t1, t2, manager, free
MCBuiltin == {git, podman}
MCResumable == {git}
MCCommunity == {rsync}
MCTasks == {t1, t2}
==============================================================================
