----------------------------- MODULE RetryEngine -----------------------------
(***************************************************************************)
(* The retry engine and its circuit breaker (src/retry_engine.rs), as      *)
(* operators on the RetryState record.  Orchestrator.tla is the state      *)
(* machine that calls them.                                                *)
(*                                                                         *)
(* An engine record has attempt, consecutive_failures, circuit (with       *)
(* opened_at, the instant Open carries), latency (last_latency_ms, in      *)
(* units of 100 ms) and loss (last_packet_loss_pct, in units of 10%).      *)
(* failure_history and last_failure_class are written and never read by a  *)
(* decision; they are left out.  Delays are in units of 100 ms.            *)
(***************************************************************************)
EXTENDS Naturals

CONSTANTS
  EngineMax,        \* RetryState.max_retries
  SmartThreshold,   \* circuit_breaker_threshold of the Smart policy
  SmartCooldown,    \* circuit_breaker_cooldown of the Smart policy
  DefaultThreshold, \* threshold of every other policy (5 in the code)
  DefaultCooldown,  \* cooldown of every other policy (30 s in the code)
  FixedDelay,       \* RetryPolicy::Fixed.delay
  Initial,          \* initial delay of the backoff policies
  Multiplier,       \* their multiplier
  MaxDelay,         \* their max_delay
  LatencyWeight,    \* RetryPolicy::Adaptive.latency_weight
  LossWeight        \* RetryPolicy::Adaptive.loss_weight

ASSUME RetryAssumption ==
  /\ EngineMax \in Nat
  /\ SmartThreshold \in Nat \ {0} /\ DefaultThreshold \in Nat \ {0}
  /\ SmartCooldown \in Nat /\ DefaultCooldown \in Nat
  /\ FixedDelay \in Nat /\ Initial \in Nat /\ Multiplier \in Nat /\ MaxDelay \in Nat
  /\ LatencyWeight \in Nat /\ LossWeight \in Nat

(* enum RetryPolicy. *)
RetryPolicy == {"Immediate", "Fixed", "ExponentialBackoff", "Adaptive", "Smart"}

(* enum CircuitState; the instant of Open is the field opened_at. *)
CircuitState == {"Closed", "Open", "HalfOpen"}

EngineState ==
  [attempt : Nat, consecutive_failures : Nat, circuit : CircuitState,
   opened_at : Nat, latency : Nat, loss : Nat]

(* RetryState::new. *)
NewEngine ==
  [attempt |-> 0, consecutive_failures |-> 0, circuit |-> "Closed",
   opened_at |-> 0, latency |-> 0, loss |-> 0]

-----------------------------------------------------------------------------
(* The words classify looks for, one per class that has words.  An error    *)
(* message is the set of the words it contains.                            *)
Words == {"timeout", "dns", "unreachable", "429", "404"}

(* FailureClass::classify: the first test that matches decides. *)
classify(error) ==
  CASE "timeout" \in error     -> "Timeout"
    [] "timeout" \notin error /\ "dns" \in error -> "DnsFailure"
    [] error \cap {"timeout", "dns"} = {} /\ "unreachable" \in error
                               -> "NetworkUnreachable"
    [] error \cap {"timeout", "dns", "unreachable"} = {} /\ "429" \in error
                               -> "RateLimited"
    [] error = {"404"}         -> "Permanent"
    [] error = {}              -> "Transient"

(* FailureClass::is_retryable. *)
is_retryable(class) == class # "Permanent"

-----------------------------------------------------------------------------
Threshold(policy) == IF policy = "Smart" THEN SmartThreshold ELSE DefaultThreshold
Cooldown(policy) == IF policy = "Smart" THEN SmartCooldown ELSE DefaultCooldown

(* opened_at.elapsed() >= cooldown. *)
cooled(policy, eng, now) == now - eng.opened_at >= Cooldown(policy)

(* Mutant: an open circuit is no obstacle. *)
circuit_allows_retry_Always(policy, eng, now) == TRUE

(* RetryState::circuit_allows_retry. *)
circuit_allows_retry(policy, eng, now) ==
  eng.circuit = "Open" => cooled(policy, eng, now)

(* RetryEngine::should_retry. *)
should_retry(policy, eng, now) ==
  eng.attempt < EngineMax /\ circuit_allows_retry(policy, eng, now)

(* Mutant: a failure in HalfOpen closes the circuit. *)
update_circuit_state_HalfOpenCloses(policy, eng, now) ==
  LET opens == eng.circuit = "Closed" /\ eng.consecutive_failures >= Threshold(policy)
      probes == eng.circuit = "Open" /\ cooled(policy, eng, now)
      closes == eng.circuit = "HalfOpen"
  IN [eng EXCEPT !.circuit = IF opens THEN "Open" ELSE IF probes THEN "HalfOpen"
                             ELSE IF closes THEN "Closed" ELSE @,
                 !.opened_at = IF opens THEN now ELSE @]

(* RetryState::update_circuit_state; it runs after every failure, and only *)
(* there: an open circuit that has cooled becomes HalfOpen on a failure.    *)
update_circuit_state(policy, eng, now) ==
  LET opens ==
        \/ eng.circuit = "Closed" /\ eng.consecutive_failures >= Threshold(policy)
        \/ eng.circuit = "HalfOpen" /\ eng.consecutive_failures >= 1
      probes == eng.circuit = "Open" /\ cooled(policy, eng, now)
  IN [eng EXCEPT !.circuit = IF opens THEN "Open"
                             ELSE IF probes THEN "HalfOpen" ELSE @,
                 !.opened_at = IF opens THEN now ELSE @]

(* RetryState::record_failure; a permanent failure is not counted, but the *)
(* circuit is updated all the same.                                        *)
record_failure(policy, eng, class, now) ==
  update_circuit_state(policy,
    IF is_retryable(class)
      THEN [eng EXCEPT !.consecutive_failures = @ + 1]
      ELSE eng,
    now)

(* Mutant: a success gives the attempts back. *)
record_success_GivesBack(eng) ==
  [eng EXCEPT !.consecutive_failures = 0, !.circuit = "Closed", !.attempt = 0]

(* RetryState::record_success; attempt is not given back. *)
record_success(eng) ==
  [eng EXCEPT !.consecutive_failures = 0, !.circuit = "Closed"]

(* RetryState::reset. *)
reset(eng) == [eng EXCEPT !.attempt = 0]

(* RetryEngine::with_network_conditions. *)
with_network_conditions(eng, latency, loss) ==
  [eng EXCEPT !.latency = latency, !.loss = loss]

-----------------------------------------------------------------------------
AtMost(n, limit) == IF n < limit THEN n ELSE limit

(* initial * multiplier.powf(n). *)
growth[n \in Nat] == IF n = 0 THEN Initial ELSE Multiplier * growth[n - 1]

(* calculate_delay before the cap; every halving of the code's fractions is *)
(* done once, at the end.                                                  *)
backoff(policy, eng) ==
  LET base == growth[eng.attempt - 1]
      penalty == IF eng.circuit = "HalfOpen" THEN 2 ELSE 1
  IN CASE policy = "ExponentialBackoff" -> base
       [] policy = "Adaptive" ->
            (base * (2 + 2 * AtMost(eng.latency, 5) * LatencyWeight
                         + AtMost(eng.loss, 10) * LossWeight)) \div 2
       [] policy = "Smart" ->
            (base * penalty * (2 + AtMost(eng.consecutive_failures, 10)
                                   + 2 * AtMost(eng.loss, 3))) \div 2

(* Mutant: the cap is forgotten. *)
calculate_delay_CapForgotten(policy, eng, jitter) ==
  CASE policy = "Immediate" -> 0
    [] policy = "Fixed" -> FixedDelay
    [] OTHER -> backoff(policy, eng) + jitter

(* RetryState::calculate_delay; the jitter is added after the cap. *)
calculate_delay(policy, eng, jitter) ==
  CASE policy = "Immediate" -> 0
    [] policy = "Fixed" -> FixedDelay
    [] OTHER -> AtMost(backoff(policy, eng), MaxDelay) + jitter

(* jitter(): fastrand::f64() * 0.5 seconds; the least and the largest. *)
Jitter == {0, 4}

(* Mutant: off by one at the attempt limit. *)
grants_delay_OneTooMany(policy, eng, now) ==
  eng.attempt <= EngineMax /\ circuit_allows_retry(policy, eng, now)

(* RetryState::next_delay returns Some, and takes one attempt. *)
grants_delay(policy, eng, now) ==
  eng.attempt < EngineMax /\ circuit_allows_retry(policy, eng, now)
next_delay(policy, eng, now) ==
  IF grants_delay(policy, eng, now) THEN [eng EXCEPT !.attempt = @ + 1] ELSE eng
==============================================================================
