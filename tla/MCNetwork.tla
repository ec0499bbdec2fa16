------------------------------ MODULE MCNetwork ------------------------------
(***************************************************************************)
(* Network for TLC: three ping targets, as in the source, and networks on  *)
(* either side of every threshold; the scheduler's default settings and    *)
(* some that contradict themselves.                                        *)
(***************************************************************************)
EXTENDS AdaptiveScheduler

CONSTANTS t1, t2, t3, failing
MCTargets == {t1, t2, t3}

Net(replies, http, latency, dns) ==
  [replies |-> replies, http |-> http, latency |-> latency, dns |-> dns]

(* Good; all but one answered, slow; more replies than probes; no ping       *)
(* answered but HTTP; half of the pings.  A failing probe reads as no      *)
(* answer at all.                                                          *)
MCAnswers ==
  {Net(12, TRUE, 20, TRUE), Net(11, TRUE, 501, FALSE), Net(13, TRUE, 20, TRUE),
   Net(0, TRUE, 20, TRUE), Net(6, TRUE, 201, TRUE)}

Config(max, min, cooldown, good, degraded, bad) ==
  [max_concurrency |-> max, min_concurrency |-> min, cooldown |-> cooldown,
   Good |-> good, Degraded |-> degraded, Bad |-> bad]

(* The default; a maximum below the other limits; a minimum above the        *)
(* maximum; no operation at all on a bad network, and no cooldown.         *)
MCConfigs ==
  {Config(8, 1, 60, 5, 2, 1), Config(2, 1, 60, 5, 3, 1), Config(2, 3, 60, 5, 2, 1),
   Config(8, 0, 0, 3, 1, 0)}
==============================================================================
