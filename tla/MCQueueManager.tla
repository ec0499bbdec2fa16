--------------------------- MODULE MCQueueManager ---------------------------
(***************************************************************************)
(* QueueManager for TLC: three jobs of two priorities and one retry.       *)
(***************************************************************************)
EXTENDS QueueManager
=============================================================================
