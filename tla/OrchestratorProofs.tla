------------------------- MODULE OrchestratorProofs -------------------------
(***************************************************************************)
(* Proofs about Orchestrator and the RetryEngine it owns, for every set of *)
(* jobs, every policy, threshold, cooldown and budget, and without a bound *)
(* on time; last, that no delay passes the cap, whatever the base grows to. *)
(***************************************************************************)
EXTENDS Orchestrator, WellFoundedInduction, TLAPS

(* The types of what the decisions read: OTypeOK without the delay. *)
StateTypes ==
  /\ policy \in RetryPolicy
  /\ engine \in EngineState /\ engine.attempt <= EngineMax
  /\ job \in [JobIds -> [status : JobStatus, retry_count : Nat]]
  /\ sent \in [JobIds -> [JobEvents -> Nat]]
  /\ now \in Nat /\ engine.opened_at <= now

(* The attempts granted since the last reset are those the engine counts. *)
NoneGivenBack == granted = engine.attempt

(* The inductive invariant. *)
OInv ==
  /\ StateTypes
  /\ NoneGivenBack
  /\ ClosedIffBelowThreshold
  /\ JobBudgetHolds
  /\ EventsMatchOutcome

-----------------------------------------------------------------------------
(* The engine. *)

(* A policy's threshold is never zero. *)
LEMMA ThresholdPositive ==
  /\ Threshold(policy) \in Nat \ {0}
  /\ Cooldown(policy) \in Nat
BY RetryAssumption DEF Threshold, Cooldown

(* record_failure keeps the circuit Closed exactly below the threshold, and *)
(* leaves an open circuit only once it has cooled.                         *)
LEMMA RecordFailureFacts ==
  ASSUME StateTypes, ClosedIffBelowThreshold, NEW class,
         NEW eng, eng = record_failure(policy, engine, class, now)
  PROVE  /\ eng \in EngineState
         /\ eng.attempt = engine.attempt
         /\ eng.opened_at <= now
         /\ eng.circuit = "Closed" <=>
              eng.consecutive_failures < Threshold(policy)
         /\ engine.circuit = "Open" =>
              \/ eng.circuit = "Open" /\ eng.opened_at = engine.opened_at
              \/ /\ eng.circuit = "HalfOpen"
                 /\ now >= engine.opened_at + Cooldown(policy)
<1> DEFINE counted == IF is_retryable(class)
                        THEN [engine EXCEPT !.consecutive_failures = @ + 1]
                        ELSE engine
<1>1. /\ counted \in EngineState
      /\ counted.attempt = engine.attempt
      /\ counted.circuit = engine.circuit
      /\ counted.opened_at = engine.opened_at
      /\ counted.consecutive_failures >= engine.consecutive_failures
  BY DEF StateTypes, EngineState
<1>2. /\ counted.attempt \in Nat /\ counted.opened_at \in Nat
      /\ counted.consecutive_failures \in Nat
      /\ counted.circuit \in CircuitState
      /\ engine.consecutive_failures \in Nat
  BY <1>1 DEF StateTypes, EngineState
<1>3. eng = update_circuit_state(policy, counted, now)
  BY DEF record_failure
<1> HIDE DEF counted
<1>4. /\ eng \in EngineState
      /\ eng.attempt = counted.attempt
      /\ eng.consecutive_failures = counted.consecutive_failures
      /\ eng.opened_at \in {counted.opened_at, now}
  BY <1>1, <1>2, <1>3
     DEF update_circuit_state, StateTypes, EngineState, CircuitState
<1>5. eng.circuit =
        IF \/ /\ counted.circuit = "Closed"
              /\ counted.consecutive_failures >= Threshold(policy)
           \/ counted.circuit = "HalfOpen" /\ counted.consecutive_failures >= 1
          THEN "Open"
          ELSE IF counted.circuit = "Open" /\ cooled(policy, counted, now)
                 THEN "HalfOpen" ELSE counted.circuit
  BY <1>1, <1>3 DEF update_circuit_state, EngineState
<1>6. eng.circuit = "Closed" <=> eng.consecutive_failures < Threshold(policy)
  BY <1>1, <1>2, <1>4, <1>5, ThresholdPositive
     DEF ClosedIffBelowThreshold, CircuitState
<1>7. engine.circuit = "Open" =>
        \/ eng.circuit = "Open" /\ eng.opened_at = engine.opened_at
        \/ /\ eng.circuit = "HalfOpen"
           /\ now >= engine.opened_at + Cooldown(policy)
  BY <1>1, <1>2, <1>3, <1>5, ThresholdPositive
     DEF update_circuit_state, cooled, EngineState, StateTypes
<1>8. eng.opened_at <= now
  BY <1>1, <1>2, <1>4 DEF StateTypes
<1> QED BY <1>1, <1>4, <1>6, <1>7, <1>8

(* next_delay takes at most one attempt, within the budget, and touches     *)
(* nothing else.                                                           *)
LEMMA NextDelayFacts ==
  ASSUME NEW eng \in EngineState, eng.attempt <= EngineMax, NEW t,
         NEW next, next = next_delay(policy, eng, t)
  PROVE  /\ next \in EngineState
         /\ next.attempt <= EngineMax /\ next.attempt >= eng.attempt
         /\ next.consecutive_failures = eng.consecutive_failures
         /\ next.circuit = eng.circuit
         /\ next.opened_at = eng.opened_at
BY RetryAssumption DEF next_delay, grants_delay, EngineState

(* What one handle_failure amounts to: the next engine, the verdict and     *)
(* the time of the last clock reading.                                     *)
LEMMA HandleFailureFacts ==
  ASSUME OInv, NEW j \in JobIds, NEW e, HandleFailure(j, e)
  PROVE  \E giveUp \in BOOLEAN :
    /\ engine' \in EngineState
    /\ engine'.attempt <= EngineMax /\ engine'.attempt >= engine.attempt
    /\ granted' = engine'.attempt
    /\ engine'.circuit = "Closed" <=>
         engine'.consecutive_failures < Threshold(policy)
    /\ policy' = policy
    /\ now' \in Nat /\ now' >= now /\ engine'.opened_at <= now'
    /\ job[j].status = "Running"
    /\ job' = [job EXCEPT ![j] =
                 [status |-> IF giveUp THEN "Failed" ELSE "Pending",
                  retry_count |-> job[j].retry_count + 1]]
    /\ ~ giveUp => /\ should_retry(policy, engine', now')
                   /\ job[j].retry_count + 1 < MaxRetries
    /\ Publish(j, {"RetryStarted"} \cup
                    (IF giveUp THEN {"RetryExhausted", "JobFailed"} ELSE {}))
    /\ engine.circuit = "Open" =>
         \/ engine'.circuit = "Open" /\ engine'.opened_at = engine.opened_at
         \/ /\ engine'.circuit = "HalfOpen"
            /\ now >= engine.opened_at + Cooldown(policy)
<1> DEFINE class == classify(e)
           failed == record_failure(policy, engine, class, now)
           eng(t1) == next_delay(policy, failed, t1)
           count == job[j].retry_count + 1
<1> DEFINE outcome(t1, t2) ==
             /\ engine' = eng(t1)
             /\ granted' = IF grants_delay(policy, failed, t1) THEN granted + 1 ELSE granted
             /\ job' = [job EXCEPT ![j] =
                  [status |-> IF gives_up(eng(t1), class, count, t2)
                                THEN "Failed" ELSE "Pending",
                   retry_count |-> count]]
             /\ Publish(j, failure_events(class,
                             gives_up(eng(t1), class, count, t2)))
             /\ now' = t2 /\ policy' = policy /\ job[j].status = "Running"
<1>a. \E t1 \in Later(now) : \E t2 \in Later(t1) : outcome(t1, t2)
  BY DEF HandleFailure
<1>b. PICK t1 \in Later(now) : \E t2 \in Later(t1) : outcome(t1, t2)
  BY <1>a
<1>c. PICK t2 \in Later(t1) : outcome(t1, t2)
  BY <1>b
<1>1. /\ engine' = eng(t1)
      /\ granted' = IF grants_delay(policy, failed, t1) THEN granted + 1 ELSE granted
      /\ job' = [job EXCEPT ![j] =
           [status |-> IF gives_up(eng(t1), class, count, t2)
                         THEN "Failed" ELSE "Pending",
            retry_count |-> count]]
      /\ Publish(j, failure_events(class, gives_up(eng(t1), class, count, t2)))
      /\ now' = t2 /\ policy' = policy /\ job[j].status = "Running"
  BY <1>c
<1> HIDE DEF outcome
<1> DEFINE giveUp == gives_up(eng(t1), class, count, t2)
<1>2. giveUp \in BOOLEAN
  BY DEF gives_up
<1>3. now \in Nat /\ now' \in Nat /\ now' >= now
  BY <1>1 DEF Later, OInv, StateTypes
<1>4. /\ failed \in EngineState /\ failed.attempt = engine.attempt
      /\ failed.opened_at <= now
      /\ failed.circuit = "Closed" <=>
           failed.consecutive_failures < Threshold(policy)
      /\ engine.circuit = "Open" =>
           \/ failed.circuit = "Open" /\ failed.opened_at = engine.opened_at
           \/ /\ failed.circuit = "HalfOpen"
              /\ now >= engine.opened_at + Cooldown(policy)
  BY RecordFailureFacts DEF OInv
<1> HIDE DEF failed
<1>5. /\ engine' \in EngineState
      /\ engine'.attempt <= EngineMax /\ engine'.attempt >= failed.attempt
      /\ engine'.consecutive_failures = failed.consecutive_failures
      /\ engine'.circuit = failed.circuit
      /\ engine'.opened_at = failed.opened_at
  BY <1>1, <1>4, NextDelayFacts DEF OInv, StateTypes
<1>11. granted' = engine'.attempt
  <2>1. granted = failed.attempt /\ failed.attempt \in Nat
    BY <1>4 DEF OInv, NoneGivenBack, EngineState
  <2> QED BY <1>1, <1>4, <2>1 DEF next_delay, EngineState
<1>6. engine'.opened_at <= now'
  BY <1>3, <1>4, <1>5 DEF EngineState
<1>7. ~ giveUp => /\ should_retry(policy, engine', now')
                  /\ job[j].retry_count + 1 < MaxRetries
  <2>1. job[j].retry_count \in Nat
    BY DEF OInv, StateTypes
  <2> QED BY <1>1, <2>1, OrchestratorAssumption DEF gives_up
<1> HIDE DEF class
<1>8. Publish(j, {"RetryStarted"} \cup
                   (IF giveUp THEN {"RetryExhausted", "JobFailed"} ELSE {}))
  BY <1>1 DEF failure_events
<1> HIDE DEF giveUp
<1>9. job' = [job EXCEPT ![j] =
                 [status |-> IF giveUp THEN "Failed" ELSE "Pending",
                  retry_count |-> job[j].retry_count + 1]]
  BY <1>1 DEF giveUp
<1>10. WITNESS giveUp \in BOOLEAN
<1> QED BY <1>1, <1>3, <1>4, <1>5, <1>6, <1>7, <1>8, <1>9, <1>11

-----------------------------------------------------------------------------
(* Initially the circuit is Closed and nothing was counted. *)
LEMMA OInitInv == OInit => OInv
BY OrchestratorAssumption, RetryAssumption
   DEF OInit, OInv, StateTypes, NoneGivenBack, ClosedIffBelowThreshold, JobBudgetHolds,
       EventsMatchOutcome, NewEngine, EngineState, CircuitState, JobStatus,
       JobEvents, is_terminal, Threshold

(* handle_failure preserves the invariant. *)
LEMMA HandleFailureInv ==
  ASSUME OInv, NEW j \in JobIds, NEW e, HandleFailure(j, e)
  PROVE  OInv'
<1>a. StateTypes /\ ClosedIffBelowThreshold /\ JobBudgetHolds /\ EventsMatchOutcome
  BY DEF OInv
<1>1. PICK giveUp \in BOOLEAN :
        /\ engine' \in EngineState
        /\ engine'.attempt <= EngineMax
        /\ granted' = engine'.attempt
        /\ engine'.circuit = "Closed" <=>
             engine'.consecutive_failures < Threshold(policy)
        /\ policy' = policy
        /\ now' \in Nat /\ engine'.opened_at <= now'
        /\ job[j].status = "Running"
        /\ job' = [job EXCEPT ![j] =
                     [status |-> IF giveUp THEN "Failed" ELSE "Pending",
                      retry_count |-> job[j].retry_count + 1]]
        /\ ~ giveUp => job[j].retry_count + 1 < MaxRetries
        /\ Publish(j, {"RetryStarted"} \cup
                        (IF giveUp THEN {"RetryExhausted", "JobFailed"} ELSE {}))
  BY HandleFailureFacts
<1>2. /\ job[j].retry_count \in Nat
      /\ job' \in [JobIds -> [status : JobStatus, retry_count : Nat]]
      /\ job'[j] = [status |-> IF giveUp THEN "Failed" ELSE "Pending",
                    retry_count |-> job[j].retry_count + 1]
      /\ \A i \in JobIds \ {j} : job'[i] = job[i]
  BY <1>1, <1>a DEF StateTypes, JobStatus
<1>3. /\ sent' \in [JobIds -> [JobEvents -> Nat]]
      /\ sent'[j]["RetryStarted"] = sent[j]["RetryStarted"] + 1
      /\ sent'[j]["JobCompleted"] = sent[j]["JobCompleted"]
      /\ sent'[j]["JobFailed"] = sent[j]["JobFailed"] + (IF giveUp THEN 1 ELSE 0)
      /\ sent'[j]["RetryExhausted"] =
           sent[j]["RetryExhausted"] + (IF giveUp THEN 1 ELSE 0)
      /\ \A i \in JobIds \ {j} : sent'[i] = sent[i]
  <2> DEFINE E == {"RetryStarted"} \cup
                    (IF giveUp THEN {"RetryExhausted", "JobFailed"} ELSE {})
             new == [e1 \in JobEvents |->
                       IF e1 \in E THEN sent[j][e1] + 1 ELSE sent[j][e1]]
  <2>1. sent' = [sent EXCEPT ![j] = new]
    BY <1>1 DEF Publish
  <2>2. sent[j] \in [JobEvents -> Nat] /\ new \in [JobEvents -> Nat]
    BY <1>a DEF StateTypes
  <2>3. /\ "RetryStarted" \in E /\ "JobCompleted" \notin E
        /\ "JobFailed" \in E <=> giveUp
        /\ "RetryExhausted" \in E <=> giveUp
    OBVIOUS
  <2>4. sent' \in [JobIds -> [JobEvents -> Nat]]
    BY <2>1, <2>2, <1>a DEF StateTypes
  <2> HIDE DEF E
  <2>5. /\ new["RetryStarted"] = sent[j]["RetryStarted"] + 1
        /\ new["JobCompleted"] = sent[j]["JobCompleted"]
        /\ new["JobFailed"] = sent[j]["JobFailed"] + (IF giveUp THEN 1 ELSE 0)
        /\ new["RetryExhausted"] =
             sent[j]["RetryExhausted"] + (IF giveUp THEN 1 ELSE 0)
    BY <2>2, <2>3 DEF JobEvents
  <2> HIDE DEF new
  <2>6. sent'[j] = new /\ \A i \in JobIds \ {j} : sent'[i] = sent[i]
    BY <2>1, <1>a DEF StateTypes
  <2> QED BY <2>4, <2>5, <2>6
<1>4. StateTypes'
  BY <1>1, <1>2, <1>3, <1>a DEF StateTypes
<1>5. ClosedIffBelowThreshold'
  BY <1>1 DEF ClosedIffBelowThreshold, Threshold
<1>6. JobBudgetHolds'
  BY <1>1, <1>2, <1>a, OrchestratorAssumption
     DEF JobBudgetHolds, is_terminal, StateTypes
<1>7. EventsMatchOutcome'
  BY <1>1, <1>2, <1>3, <1>a
     DEF EventsMatchOutcome, StateTypes, JobEvents
<1> QED BY <1>1, <1>4, <1>5, <1>6, <1>7 DEF OInv, NoneGivenBack

(* handle_success preserves the invariant. *)
LEMMA HandleSuccessInv ==
  ASSUME OInv, NEW j \in JobIds, HandleSuccess(j)
  PROVE  OInv'
<1>a. StateTypes /\ ClosedIffBelowThreshold /\ JobBudgetHolds /\ EventsMatchOutcome
  BY DEF OInv
<1>1. /\ job[j].status = "Running"
      /\ engine' = [engine EXCEPT !.consecutive_failures = 0, !.circuit = "Closed"]
      /\ job' = [job EXCEPT ![j].status = "Completed"]
      /\ Publish(j, {"JobCompleted"})
      /\ UNCHANGED <<policy, delay, granted, now>>
  BY DEF HandleSuccess, record_success
<1>2. /\ engine' \in EngineState /\ engine'.attempt = engine.attempt
      /\ engine'.opened_at = engine.opened_at
      /\ engine'.circuit = "Closed" /\ engine'.consecutive_failures = 0
  BY <1>1, <1>a DEF StateTypes, EngineState, CircuitState
<1>3. /\ job' \in [JobIds -> [status : JobStatus, retry_count : Nat]]
      /\ job'[j].status = "Completed" /\ job'[j].retry_count = job[j].retry_count
      /\ \A i \in JobIds \ {j} : job'[i] = job[i]
  BY <1>1, <1>a DEF StateTypes, JobStatus
<1>4. /\ sent' \in [JobIds -> [JobEvents -> Nat]]
      /\ sent'[j]["JobCompleted"] = sent[j]["JobCompleted"] + 1
      /\ \A e \in JobEvents \ {"JobCompleted"} : sent'[j][e] = sent[j][e]
      /\ \A i \in JobIds \ {j} : sent'[i] = sent[i]
  BY <1>1, <1>a DEF Publish, StateTypes, JobEvents
<1>5. StateTypes'
  BY <1>1, <1>2, <1>3, <1>4, <1>a DEF StateTypes
<1>6. ClosedIffBelowThreshold'
  BY <1>1, <1>2, ThresholdPositive DEF ClosedIffBelowThreshold, Threshold
<1>7. JobBudgetHolds'
  BY <1>1, <1>3, <1>a DEF JobBudgetHolds, is_terminal
<1>8. EventsMatchOutcome'
  BY <1>1, <1>3, <1>4, <1>a DEF EventsMatchOutcome, StateTypes, JobEvents
<1>9. NoneGivenBack'
  BY <1>1, <1>2 DEF OInv, NoneGivenBack
<1> QED BY <1>5, <1>6, <1>7, <1>8, <1>9 DEF OInv

(* Every step preserves the invariant. *)
LEMMA OStep == OInv /\ [ONext]_ovars => OInv'
<1> SUFFICES ASSUME OInv, [ONext]_ovars PROVE OInv'
  OBVIOUS
<1>a. StateTypes /\ NoneGivenBack /\ ClosedIffBelowThreshold /\ JobBudgetHolds /\ EventsMatchOutcome
  BY DEF OInv
<1> USE DEF StateTypes
<1>1. CASE Tick
  BY <1>1, <1>a DEF Tick, OInv, NoneGivenBack, ClosedIffBelowThreshold, JobBudgetHolds,
     EventsMatchOutcome, Threshold, EngineState
<1>2. ASSUME NEW j \in JobIds, Run(j) PROVE OInv'
  <2>1. /\ job[j].status = "Pending"
        /\ job' \in [JobIds -> [status : JobStatus, retry_count : Nat]]
        /\ job'[j].status = "Running" /\ job'[j].retry_count = job[j].retry_count
        /\ \A i \in JobIds \ {j} : job'[i] = job[i]
        /\ UNCHANGED <<policy, engine, sent, granted, now>>
    BY <1>2, <1>a DEF Run, JobStatus
  <2>2. JobBudgetHolds' /\ EventsMatchOutcome'
    BY <2>1, <1>a DEF JobBudgetHolds, EventsMatchOutcome, is_terminal
  <2> QED BY <2>1, <2>2, <1>a DEF OInv, NoneGivenBack, ClosedIffBelowThreshold, Threshold
<1>3. ASSUME NEW j \in JobIds, NEW e \in Errors, HandleFailure(j, e) PROVE OInv'
  BY <1>3, HandleFailureInv
<1>4. ASSUME NEW j \in JobIds, HandleSuccess(j) PROVE OInv'
  BY <1>4, HandleSuccessInv
<1>5. CASE NextRetryDelay
  <2>1. /\ engine' = next_delay(policy, engine, now) /\ grants_delay(policy, engine, now)
        /\ granted' = granted + 1
        /\ UNCHANGED <<policy, job, sent, delay, now>>
    BY <1>5 DEF NextRetryDelay
  <2>2. /\ engine' \in EngineState /\ engine'.attempt <= EngineMax
        /\ engine'.consecutive_failures = engine.consecutive_failures
        /\ engine'.circuit = engine.circuit
        /\ engine'.opened_at = engine.opened_at
    BY <2>1, <1>a, NextDelayFacts
  <2>3. granted' = engine'.attempt
    BY <2>1, <1>a DEF NoneGivenBack, next_delay, EngineState
  <2> QED BY <2>1, <2>2, <2>3, <1>a DEF OInv, NoneGivenBack, ClosedIffBelowThreshold, JobBudgetHolds,
                                EventsMatchOutcome, Threshold
<1>6. ASSUME NEW c \in Conditions, UpdateNetwork(c) PROVE OInv'
  <2>1. c[1] \in Nat /\ c[2] \in Nat
    BY OrchestratorAssumption
  <2>2. /\ engine' = [engine EXCEPT !.latency = c[1], !.loss = c[2]]
        /\ UNCHANGED <<policy, job, sent, delay, granted, now>>
    BY <1>6 DEF UpdateNetwork, with_network_conditions
  <2>3. /\ engine' \in EngineState /\ engine'.attempt = engine.attempt
        /\ engine'.consecutive_failures = engine.consecutive_failures
        /\ engine'.circuit = engine.circuit
        /\ engine'.opened_at = engine.opened_at
    BY <2>1, <2>2, <1>a DEF EngineState
  <2> QED BY <2>2, <2>3, <1>a DEF OInv, NoneGivenBack, ClosedIffBelowThreshold, JobBudgetHolds,
                                EventsMatchOutcome, Threshold
<1>7. CASE Reset
  <2>1. /\ engine' = [engine EXCEPT !.attempt = 0] /\ granted' = 0
        /\ UNCHANGED <<policy, job, sent, delay, now>>
    BY <1>7 DEF Reset, reset
  <2>2. /\ engine' \in EngineState /\ engine'.attempt = 0 /\ 0 <= EngineMax
        /\ engine'.consecutive_failures = engine.consecutive_failures
        /\ engine'.circuit = engine.circuit
        /\ engine'.opened_at = engine.opened_at
    BY <2>1, <1>a, RetryAssumption DEF EngineState
  <2> QED BY <2>1, <2>2, <1>a DEF OInv, NoneGivenBack, ClosedIffBelowThreshold, JobBudgetHolds,
                                EventsMatchOutcome, Threshold
<1>8. CASE UNCHANGED ovars
  BY <1>8, <1>a DEF ovars, OInv, NoneGivenBack, ClosedIffBelowThreshold, JobBudgetHolds,
     EventsMatchOutcome, Threshold
<1> QED BY <1>1, <1>2, <1>3, <1>4, <1>5, <1>6, <1>7, <1>8 DEF ONext

(* The invariant holds in every behaviour. *)
THEOREM OrchestratorInvariant == OSpec => []OInv
BY OInitInv, OStep, PTL DEF OSpec

(* The circuit cannot miss its opening nor close without a success. *)
THEOREM CircuitMatchesFailures == OSpec => []ClosedIffBelowThreshold
<1>1. OInv => ClosedIffBelowThreshold
  BY DEF OInv
<1> QED BY <1>1, OrchestratorInvariant, PTL

(* No job is retried beyond its own budget. *)
THEOREM JobBudgetsHold == OSpec => []JobBudgetHolds
<1>1. OInv => JobBudgetHolds
  BY DEF OInv
<1> QED BY <1>1, OrchestratorInvariant, PTL

(* Every decided job was announced once, no other job was. *)
THEOREM EventsAccountForJobs == OSpec => []EventsMatchOutcome
<1>1. OInv => EventsMatchOutcome
  BY DEF OInv
<1> QED BY <1>1, OrchestratorInvariant, PTL

-----------------------------------------------------------------------------
(* What a retry is: only handle_failure sends a running job to another      *)
(* attempt, and it does so after should_retry agreed.                      *)
LEMMA RetryNeedsShouldRetry ==
  ASSUME OInv, [ONext]_ovars, NEW i \in JobIds,
         job[i].status = "Running", job'[i].status = "Pending"
  PROVE  /\ should_retry(policy, engine', now')
         /\ engine'.attempt >= engine.attempt
<1>a. /\ job \in [JobIds -> [status : JobStatus, retry_count : Nat]]
      /\ engine.attempt \in Nat
  BY DEF OInv, StateTypes, EngineState
<1>1. ASSUME NEW j \in JobIds, Run(j) PROVE FALSE
  BY <1>1, <1>a DEF Run
<1>2. ASSUME NEW j \in JobIds, NEW e \in Errors, HandleFailure(j, e)
      PROVE  /\ should_retry(policy, engine', now')
             /\ engine'.attempt >= engine.attempt
  <2>1. PICK giveUp \in BOOLEAN :
          /\ engine'.attempt >= engine.attempt
          /\ job' = [job EXCEPT ![j] =
                       [status |-> IF giveUp THEN "Failed" ELSE "Pending",
                        retry_count |-> job[j].retry_count + 1]]
          /\ ~ giveUp => should_retry(policy, engine', now')
    BY <1>2, HandleFailureFacts
  <2>2. i = j /\ ~ giveUp
    BY <2>1, <1>a
  <2> QED BY <2>1, <2>2
<1>3. ASSUME NEW j \in JobIds, HandleSuccess(j) PROVE FALSE
  BY <1>3, <1>a DEF HandleSuccess
<1>4. ASSUME job' = job PROVE FALSE
  BY <1>4
<1> QED BY <1>1, <1>2, <1>3, <1>4
        DEF ONext, Tick, NextRetryDelay, UpdateNetwork, Reset, ovars

(* Whatever jobs fail, succeed and fail again and whoever asks for delays,  *)
(* no more than the budget is granted between two resets, and once it is,  *)
(* no job is retried.                                                      *)
THEOREM SpentBudgetIsFinal == OSpec => SpentBudgetStopsAllJobs
<1> DEFINE A ==
      /\ granted' <= EngineMax
      /\ \A j \in JobIds :
           job[j].status = "Running" /\ job'[j].status = "Pending" => granted' < EngineMax
<1>1. ASSUME OInv, OInv', [ONext]_ovars PROVE A
  <2>1. granted' = engine'.attempt /\ engine'.attempt <= EngineMax
    BY <1>1 DEF OInv, NoneGivenBack, StateTypes
  <2>2. ASSUME NEW j \in JobIds, job[j].status = "Running", job'[j].status = "Pending"
        PROVE  engine'.attempt < EngineMax
    BY <1>1, <2>2, RetryNeedsShouldRetry DEF should_retry
  <2> QED BY <2>1, <2>2
<1> HIDE DEF A
<1>2. OInv /\ OInv' /\ [ONext]_ovars => [A]_ovars
  BY <1>1
<1>3. OSpec => [][A]_ovars
  BY <1>2, OrchestratorInvariant, PTL DEF OSpec
<1> QED BY <1>3 DEF A, SpentBudgetStopsAllJobs

(* An open circuit is left by a success or after the whole cooldown, and no *)
(* job is sent to another attempt while it is hot.                         *)
THEOREM OpenCircuitHolds == OSpec => OpenHoldsUntilCooled
<1> DEFINE A ==
      engine.circuit = "Open" =>
        /\ engine'.circuit # "Open" =>
             \/ engine'.circuit = "Closed" /\ engine'.consecutive_failures = 0
             \/ now >= engine.opened_at + Cooldown(policy)
        /\ \A j \in JobIds :
             job[j].status = "Running" /\ job'[j].status = "Pending" =>
               now' >= engine.opened_at + Cooldown(policy)
<1>1. ASSUME OInv, OInv', [ONext]_ovars PROVE [A]_ovars
  <2> SUFFICES ASSUME engine.circuit = "Open" PROVE A
    OBVIOUS
  <2>a. /\ StateTypes /\ engine.opened_at \in Nat /\ now \in Nat
        /\ Cooldown(policy) \in Nat
        /\ engine'.opened_at \in Nat /\ now' \in Nat /\ engine' \in EngineState
    BY <1>1, ThresholdPositive DEF OInv, StateTypes, EngineState
  <2>1. ASSUME NEW j \in JobIds, NEW e \in Errors, HandleFailure(j, e) PROVE A
    <3>1. /\ now' >= now
          /\ \/ engine'.circuit = "Open" /\ engine'.opened_at = engine.opened_at
             \/ /\ engine'.circuit = "HalfOpen"
                /\ now >= engine.opened_at + Cooldown(policy)
      BY <2>1, <1>1, HandleFailureFacts
    <3>2. ASSUME NEW i \in JobIds,
                 job[i].status = "Running", job'[i].status = "Pending"
          PROVE  now' >= engine.opened_at + Cooldown(policy)
      <4>1. should_retry(policy, engine', now')
        BY <3>2, <1>1, RetryNeedsShouldRetry
      <4>2. CASE engine'.circuit = "Open" /\ engine'.opened_at = engine.opened_at
        BY <4>1, <4>2, <2>a DEF should_retry, circuit_allows_retry, cooled
      <4> QED BY <3>1, <4>2, <2>a
    <3> QED BY <3>1, <3>2
  <2>2. ASSUME NEW j \in JobIds, HandleSuccess(j) PROVE A
    <3>1. engine'.circuit = "Closed" /\ engine'.consecutive_failures = 0
      BY <2>2, <2>a DEF HandleSuccess, record_success, StateTypes, EngineState
    <3>2. \A i \in JobIds :
            ~ (job[i].status = "Running" /\ job'[i].status = "Pending")
      BY <2>2, <2>a DEF HandleSuccess, StateTypes
    <3> QED BY <3>1, <3>2
  <2>3. ASSUME NEW j \in JobIds, Run(j) PROVE A
    BY <2>3, <2>a DEF Run, StateTypes
  <2>4. CASE Tick
    BY <2>4 DEF Tick
  <2>5. CASE NextRetryDelay
    <3>1. engine' = next_delay(policy, engine, now) /\ job' = job
      BY <2>5 DEF NextRetryDelay
    <3>2. engine'.circuit = engine.circuit
      BY <3>1, <2>a, NextDelayFacts DEF StateTypes
    <3> QED BY <3>1, <3>2
  <2>6. ASSUME NEW c \in Conditions, UpdateNetwork(c) PROVE A
    BY <2>6, <2>a DEF UpdateNetwork, with_network_conditions, StateTypes, EngineState
  <2>7. CASE Reset
    BY <2>7, <2>a DEF Reset, reset, StateTypes, EngineState
  <2>8. CASE UNCHANGED ovars
    BY <2>8 DEF ovars
  <2> QED BY <1>1, <2>1, <2>2, <2>3, <2>4, <2>5, <2>6, <2>7, <2>8 DEF ONext
<1> HIDE DEF A
<1>2. OInv /\ OInv' /\ [ONext]_ovars => [A]_ovars
  BY <1>1
<1>3. OSpec => [][A]_ovars
  BY <1>2, OrchestratorInvariant, PTL DEF OSpec
<1> QED BY <1>3 DEF A, OpenHoldsUntilCooled

-----------------------------------------------------------------------------
(* The delay.  Its base is defined by recursion over the attempts; that the *)
(* recursion has a solution, and its type, are proved with the least       *)
(* attempt for which they would fail.                                      *)

LEMMA LeastNat ==
  ASSUME NEW T \in SUBSET Nat, T # {} PROVE \E n \in T : \A m \in T : n <= m
<1>1. PICK n \in T : \A m \in T : ~ (<<m, n>> \in OpToRel(<, Nat))
  BY NatLessThanWellFounded, WFMin
<1>2. n \in Nat /\ \A m \in T : m \in Nat
  OBVIOUS
<1>3. \A m \in T : ~ (m < n)
  BY <1>1, <1>2 DEF OpToRel
<1> QED BY <1>2, <1>3

(* g grows as the base does, up to n. *)
Grows(g, n) == g[0] = Initial /\ \A m \in 1 .. n : g[m] = Multiplier * g[m - 1]

LEMMA GrowthAgrees ==
  ASSUME NEW g, NEW h, NEW n \in Nat, NEW k \in Nat, n <= k, Grows(g, n), Grows(h, k)
  PROVE  g[n] = h[n]
<1> DEFINE T == {m \in 0 .. n : g[m] # h[m]}
<1> SUFFICES ASSUME T # {} PROVE FALSE
  OBVIOUS
<1>1. T \in SUBSET Nat
  OBVIOUS
<1>2. PICK m \in T : \A l \in T : m <= l
  <2> HIDE DEF T
  <2> QED BY <1>1, LeastNat
<1>3. m # 0
  BY DEF Grows
<1>4. m \in 1 .. n /\ m \in 1 .. k /\ m - 1 \in 0 .. n
  BY <1>3
<1>5. g[m - 1] = h[m - 1]
  BY <1>2, <1>4
<1> QED BY <1>4, <1>5 DEF Grows

LEMMA GrowthPart == ASSUME NEW n \in Nat PROVE \E g : Grows(g, n)
<1> DEFINE T == {m \in Nat : ~ \E g : Grows(g, m)}
<1> SUFFICES ASSUME T # {} PROVE FALSE
  OBVIOUS
<1>1. T \in SUBSET Nat
  OBVIOUS
<1>2. PICK m \in T : \A l \in T : m <= l
  <2> HIDE DEF T
  <2> QED BY <1>1, LeastNat
<1>3. m # 0
  <2>1. Grows([l \in {0} |-> Initial], 0)
    BY DEF Grows
  <2> QED BY <2>1
<1>4. m - 1 \in Nat /\ m \in Nat /\ m - 1 \notin T
  BY <1>2, <1>3
<1>5. PICK g : Grows(g, m - 1)
  BY <1>4
<1> DEFINE h == [l \in 0 .. m |-> IF l = m THEN Multiplier * g[m - 1] ELSE g[l]]
<1>6. h[0] = Initial
  BY <1>3, <1>4, <1>5 DEF Grows
<1>7. ASSUME NEW l \in 1 .. m PROVE h[l] = Multiplier * h[l - 1]
  <2>1. CASE l = m
    BY <1>3, <1>4, <2>1
  <2>2. CASE l # m
    <3>1. l \in 1 .. (m - 1) /\ l \in 0 .. m /\ l - 1 \in 0 .. m /\ l - 1 # m
      BY <1>4, <2>2
    <3> QED BY <1>5, <2>2, <3>1 DEF Grows
  <2> QED BY <2>1, <2>2
<1>8. Grows(h, m)
  BY <1>6, <1>7 DEF Grows
<1> QED BY <1>8

LEMMA GrowthUnfolds ==
  /\ growth[0] = Initial
  /\ \A n \in Nat \ {0} : growth[n] = Multiplier * growth[n - 1]
<1> DEFINE body(g) == [n \in Nat |-> IF n = 0 THEN Initial ELSE Multiplier * g[n - 1]]
           part(n) == CHOOSE g : Grows(g, n)
           G == [n \in Nat |-> part(n)[n]]
<1>1. growth = CHOOSE g : g = body(g)
  BY DEF growth
<1>2. \A n \in Nat : Grows(part(n), n)
  BY GrowthPart
<1> HIDE DEF part
<1>3. G[0] = Initial
  BY <1>2 DEF Grows
<1>4. ASSUME NEW n \in Nat \ {0} PROVE G[n] = Multiplier * G[n - 1]
  <2>1. n - 1 \in Nat /\ n \in Nat /\ n - 1 <= n /\ n \in 1 .. n
    OBVIOUS
  <2>2. part(n)[n] = Multiplier * part(n)[n - 1]
    BY <1>2, <2>1 DEF Grows
  <2>3. part(n - 1)[n - 1] = part(n)[n - 1]
    <3>1. Grows(part(n - 1), n - 1) /\ Grows(part(n), n)
      BY <1>2, <2>1
    <3> QED BY <2>1, <3>1, GrowthAgrees
  <2> QED BY <2>1, <2>2, <2>3
<1>5. G = [n \in Nat |-> G[n]]
  OBVIOUS
<1> HIDE DEF G
<1>6. G = body(G)
  <2>1. \A n \in Nat : G[n] = IF n = 0 THEN Initial ELSE Multiplier * G[n - 1]
    BY <1>3, <1>4
  <2>2. body(G) = [n \in Nat |-> G[n]]
    BY <2>1
  <2> HIDE DEF body
  <2> QED BY <1>5, <2>2
<1>7. growth = body(growth)
  <2> HIDE DEF body
  <2> QED BY <1>1, <1>6
<1>8. /\ body(growth)[0] = Initial
      /\ \A n \in Nat \ {0} : body(growth)[n] = Multiplier * growth[n - 1]
  OBVIOUS
<1> HIDE DEF body
<1> QED BY <1>7, <1>8

LEMMA ProductNat == \A a, b \in Nat : a * b \in Nat
OBVIOUS

LEMMA GrowthType == ASSUME NEW n \in Nat PROVE growth[n] \in Nat
<1> DEFINE T == {m \in Nat : growth[m] \notin Nat}
<1> SUFFICES ASSUME T # {} PROVE FALSE
  OBVIOUS
<1>1. T \in SUBSET Nat
  OBVIOUS
<1>2. PICK m \in T : \A l \in T : m <= l
  <2> HIDE DEF T
  <2> QED BY <1>1, LeastNat
<1>3. m \in Nat \ {0}
  BY GrowthUnfolds, RetryAssumption
<1>4. growth[m - 1] \in Nat
  BY <1>2, <1>3
<1> QED BY <1>3, <1>4, GrowthUnfolds, ProductNat, RetryAssumption

(* What is capped is a number, under every policy that backs off. *)
LEMMA BackoffType ==
  ASSUME NEW p \in {"ExponentialBackoff", "Adaptive", "Smart"}, NEW eng \in EngineState,
         eng.attempt > 0
  PROVE  backoff(p, eng) \in Nat
<1> DEFINE base == growth[eng.attempt - 1]
           penalty == IF eng.circuit = "HalfOpen" THEN 2 ELSE 1
           slow == AtMost(eng.latency, 5) * LatencyWeight
           lossy == AtMost(eng.loss, 10) * LossWeight
           failing == AtMost(eng.consecutive_failures, 10) + 2 * AtMost(eng.loss, 3)
<1>1. base \in Nat
  BY GrowthType DEF EngineState
<1>2. /\ AtMost(eng.latency, 5) \in Nat /\ AtMost(eng.loss, 10) \in Nat
      /\ failing \in Nat /\ penalty \in Nat
  BY DEF EngineState, AtMost
<1>3. slow \in Nat /\ lossy \in Nat
  BY <1>2, ProductNat, RetryAssumption
<1>4. /\ (base * (2 + 2 * slow + lossy)) \in Nat
      /\ (base * penalty * (2 + failing)) \in Nat
  <2>1. 2 + 2 * slow + lossy \in Nat /\ 2 + failing \in Nat /\ base * penalty \in Nat
    BY <1>1, <1>2, <1>3, ProductNat
  <2> QED BY <1>1, <2>1, ProductNat
<1>5. \A x \in Nat : x \div 2 \in Nat
  OBVIOUS
<1>6. CASE p = "ExponentialBackoff"
  BY <1>1, <1>6 DEF backoff
<1>7. CASE p = "Adaptive"
  <2>1. backoff(p, eng)
          = (base * (2 + 2 * AtMost(eng.latency, 5) * LatencyWeight + lossy)) \div 2
    BY <1>7 DEF backoff
  <2>2. 2 * AtMost(eng.latency, 5) * LatencyWeight = 2 * slow
    BY <1>2, RetryAssumption
  <2> HIDE DEF base, slow, lossy
  <2> QED BY <1>4, <1>5, <2>1, <2>2
<1>8. CASE p = "Smart"
  <2>1. backoff(p, eng)
          = (base * penalty * (2 + AtMost(eng.consecutive_failures, 10)
                                 + 2 * AtMost(eng.loss, 3))) \div 2
    BY <1>8 DEF backoff
  <2>2. 2 + AtMost(eng.consecutive_failures, 10) + 2 * AtMost(eng.loss, 3) = 2 + failing
    BY DEF EngineState, AtMost
  <2> HIDE DEF base, penalty, failing
  <2> QED BY <1>4, <1>5, <2>1, <2>2
<1> QED BY <1>6, <1>7, <1>8

(* What OTypeOK and DelayCapped say of a delay. *)
DelayOK(d) == d \in Nat /\ d <= (IF policy = "Fixed" THEN FixedDelay ELSE MaxDelay + 4)

LEMMA DelayType ==
  ASSUME policy \in RetryPolicy, NEW eng \in EngineState, eng.attempt > 0, NEW jit \in Jitter
  PROVE  DelayOK(calculate_delay(policy, eng, jit))
<1>1. CASE policy = "Immediate"
  BY <1>1, RetryAssumption DEF calculate_delay, DelayOK
<1>2. CASE policy = "Fixed"
  BY <1>2, RetryAssumption DEF calculate_delay, DelayOK
<1>3. CASE policy \in {"ExponentialBackoff", "Adaptive", "Smart"}
  <2>1. calculate_delay(policy, eng, jit) = AtMost(backoff(policy, eng), MaxDelay) + jit
    BY <1>3 DEF calculate_delay
  <2>2. backoff(policy, eng) \in Nat
    BY <1>3, BackoffType
  <2>3. AtMost(backoff(policy, eng), MaxDelay) \in Nat
        /\ AtMost(backoff(policy, eng), MaxDelay) <= MaxDelay
    BY <2>2, RetryAssumption DEF AtMost
  <2> QED BY <1>3, <2>1, <2>3, RetryAssumption DEF Jitter, DelayOK
<1> QED BY <1>1, <1>2, <1>3 DEF RetryPolicy

(* The invariant with the delay. *)
DInv == OInv /\ DelayOK(delay)

LEMMA DelayStep == DInv /\ [ONext]_ovars => DInv'
<1> SUFFICES ASSUME OInv, DelayOK(delay), [ONext]_ovars PROVE DelayOK(delay)'
  BY OStep DEF DInv
<1>1. ASSUME NEW j \in JobIds, NEW e \in Errors, HandleFailure(j, e)
      PROVE  DelayOK(delay)'
  <2> DEFINE failed == record_failure(policy, engine, classify(e), now)
             eng(t) == next_delay(policy, failed, t)
  <2>1. PICK t1 \in Later(now), jit \in Jitter :
          /\ policy' = policy
          /\ IF grants_delay(policy, failed, t1)
               THEN delay' = calculate_delay(policy, eng(t1), jit) ELSE delay' = 0
    BY <1>1 DEF HandleFailure
  <2>2. failed \in EngineState /\ failed.attempt = engine.attempt
    BY RecordFailureFacts DEF OInv
  <2> HIDE DEF failed
  <2>3. CASE grants_delay(policy, failed, t1)
    <3>1. eng(t1) = [failed EXCEPT !.attempt = @ + 1]
      BY <2>3 DEF next_delay
    <3>2. eng(t1) \in EngineState /\ eng(t1).attempt > 0
      BY <2>2, <3>1 DEF EngineState
    <3> HIDE DEF eng
    <3>3. DelayOK(calculate_delay(policy, eng(t1), jit))
      BY <3>2, DelayType DEF OInv, StateTypes
    <3> QED BY <2>1, <2>3, <3>3 DEF DelayOK
  <2>4. CASE ~ grants_delay(policy, failed, t1)
    BY <2>1, <2>4, RetryAssumption DEF DelayOK
  <2> QED BY <2>3, <2>4
<1>2. CASE UNCHANGED <<policy, delay>>
  BY <1>2 DEF DelayOK
<1> QED BY <1>1, <1>2 DEF ONext, Tick, Run, HandleSuccess, NextRetryDelay, UpdateNetwork,
                         Reset, ovars

(* The invariant of the engine, the jobs and the delay. *)
THEOREM DelayInvariant == OSpec => []DInv
<1>1. OInit => DInv
  BY OInitInv, RetryAssumption DEF OInit, DInv, DelayOK
<1> QED BY <1>1, DelayStep, PTL DEF OSpec

(* The orchestrator's variables keep their types, for every policy, budget  *)
(* and threshold.                                                          *)
THEOREM OrchestratorTypes == OSpec => []OTypeOK
<1>1. DInv => OTypeOK
  BY DEF DInv, OInv, StateTypes, NoneGivenBack, EngineState, DelayOK, OTypeOK
<1> QED BY <1>1, DelayInvariant, PTL

(* No delay exceeds the cap by more than the jitter, for every multiplier   *)
(* and weight, any number of attempts and any network conditions.          *)
THEOREM DelaysAreCapped == OSpec => []DelayCapped
<1>1. DInv => DelayCapped
  BY DEF DInv, DelayOK, DelayCapped
<1> QED BY <1>1, DelayInvariant, PTL
=============================================================================
