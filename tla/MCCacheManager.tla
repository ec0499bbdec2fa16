--------------------------- MODULE MCCacheManager ---------------------------
(***************************************************************************)
(* CacheManager for TLC: four keys, two of which share a file name.        *)
(***************************************************************************)
EXTENDS CacheManager

CONSTANTS a, b, c, d, git
MCKeys == {a, b, c, d}
MCTypes == {git}
MCFileOf == [k \in MCKeys |-> IF k = b THEN a ELSE k]
MCSizes == {1, 3}
=============================================================================
