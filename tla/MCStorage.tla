------------------------------ MODULE MCStorage ------------------------------
(***************************************************************************)
(* Storage for TLC: two processes at a time, three in all, two ids and     *)
(* manifests on both sides of the current version.                         *)
(***************************************************************************)
EXTENDS Storage, TLC

CONSTANTS p1, p2, none

Manifest(name, min, api) ==
  [name |-> name, compatibility |-> [min_api_version |-> min, api_version |-> api]]

(* Of the current version, without a version, too new, too old. *)
MCManifests ==
  {Manifest("rsync", <<0, 1, 0>>, <<0, 1, 0>>),
   [name |-> "custom", compatibility |-> none],
   Manifest("next", <<0, 2>>, <<0, 2>>),
   Manifest("old", <<0, 0, 9>>, <<0, 0, 10>>)}
MCProcs == {p1, p2}
Symmetry == Permutations(MCProcs)
==============================================================================
