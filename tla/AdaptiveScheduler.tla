-------------------------- MODULE AdaptiveScheduler --------------------------
(***************************************************************************)
(* The adaptive scheduler (src/adaptive_scheduler.rs): how many operations  *)
(* at a time it suggests for what the monitor reads.  Nothing in the       *)
(* program calls it yet; its own state is two values, so it is a set of    *)
(* operators over the readings of Network.                                 *)
(***************************************************************************)
EXTENDS Network

CONSTANTS
  Configs,      \* ScheduleConfigs: the fields suggest_concurrency reads
  MaxFailures   \* bound: failures in a row

ASSUME SchedulerAssumption ==
  /\ Configs \subseteq [max_concurrency : Nat, min_concurrency : Nat, cooldown : Nat,
                        Good : Nat, Degraded : Nat, Bad : Nat]
  /\ MaxFailures \in Nat

(* ScheduleInner: the failures in a row, and whether the last failure is    *)
(* less than the cooldown ago, unless that is zero; a success leaves its   *)
(* time as it is and time passes by itself, so the two are independent.    *)
ScheduleInner == [recent_failures : 0 .. MaxFailures, just_failed : BOOLEAN]

(* elapsed < cooldown: never so with a cooldown of zero. *)
in_cooldown(config, own) == own.just_failed /\ config.cooldown > 0

record_failure(own) ==
  [recent_failures |-> own.recent_failures + 1, just_failed |-> TRUE]
record_success(own) == [own EXCEPT !.recent_failures = 0]

classify_quality(s) ==
  IF verdict(s) = "Offline" \/ s.loss >= 50 THEN "Bad"
  ELSE IF verdict(s) = "Degraded" \/ s.latency > 200 \/ s.loss > 10 THEN "Degraded"
  ELSE "Good"

AtLeast(a, b) == IF a < b THEN b ELSE a
AtMost(a, b) == IF a < b THEN a ELSE b

(* Half an operation for each failure, two at most, rounded down. *)
failure_penalty(own) == AtMost(own.recent_failures \div 2, 2)

(* Mutant: the bounds are applied the other way round. *)
suggest_concurrency_MinLast(config, own, s) ==
  LET left == AtLeast(config[classify_quality(s)] - failure_penalty(own), 0) IN
  AtLeast(AtMost(IF in_cooldown(config, own) THEN config.min_concurrency ELSE left,
                 config.max_concurrency),
          config.min_concurrency)

suggest_concurrency(config, own, s) ==
  LET left == AtLeast(config[classify_quality(s)] - failure_penalty(own), 0) IN
  AtMost(IF in_cooldown(config, own) THEN config.min_concurrency
         ELSE AtLeast(left, config.min_concurrency),
         config.max_concurrency)

-----------------------------------------------------------------------------
Ordered(config) == config.Good >= config.Degraded /\ config.Degraded >= config.Bad
NoBetter(r, s) ==
  verdict(r) = "Offline" \/ (r.loss >= s.loss /\ r.latency >= s.latency)

(* A suggestion is within the bounds, the maximum if they contradict each   *)
(* other; it does not rise when a failure is recorded nor fall when a      *)
(* success is; and, with settings that fall with the quality, no reading   *)
(* that is offline, or as bad or worse in loss and latency, gets more.     *)
SuggestionFits ==
  pc = "record" =>
    \A c \in Configs, own \in ScheduleInner :
      LET suggested == suggest_concurrency(c, own, reading) IN
      /\ suggested <= c.max_concurrency
      /\ suggested >= AtMost(c.min_concurrency, c.max_concurrency)
      /\ suggest_concurrency(c, record_failure(own), reading) <= suggested
      /\ suggest_concurrency(c, record_success(own), reading) >= suggested
      /\ \A n \in Answers \cup {Failing} :
           Ordered(c) /\ NoBetter(reading, measured(n)) =>
             suggested <= suggest_concurrency(c, own, measured(n))
=============================================================================
