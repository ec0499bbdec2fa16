---------------------------- MODULE Orchestrator ----------------------------
(***************************************************************************)
(* The retry orchestrator (src/orchestrator.rs) deciding the fate of jobs  *)
(* with one RetryEngine that all of them share.                            *)
(*                                                                         *)
(* The callers are outside this module: whoever holds a job runs it,       *)
(* reports its outcome, and may run it again when handle_failure left it   *)
(* Pending, "for retry" (l.107).  No code of the repository does the last: *)
(* the executor, the only caller, drops such a job, so its runs are those  *)
(* with one attempt per job, and what holds here of all callers holds of   *)
(* them.  That a retried job ever ends is not claimed.                     *)
(*                                                                         *)
(* A handler holds the orchestrator's mutex throughout and awaits nothing, *)
(* so it is one step; but it reads the clock three times, and the later    *)
(* readings may be larger.                                                 *)
(***************************************************************************)
EXTENDS RetryEngine, Job

CONSTANTS
  JobIds,       \* the jobs callers hold
  MaxRetries,   \* Job.max_retries (3 in Job::new)
  Policies,     \* policies to start from, a subset of RetryPolicy
  Errors,       \* error messages, as sets of Words
  Conditions,   \* network conditions: <<latency, loss>> pairs
  MaxTime       \* bound: the last instant of the clock

ASSUME OrchestratorAssumption ==
  /\ MaxRetries \in Nat \ {0} /\ MaxTime \in Nat
  /\ Policies \subseteq RetryPolicy
  /\ Errors \subseteq SUBSET Words
  /\ Conditions \subseteq Nat \X Nat

VARIABLES
  policy,   \* RetryState.policy
  engine,   \* RetryState
  job,      \* per job: its status and retry_count
  sent,     \* per job: how many events of each kind were published
  delay,    \* delay_ms of the last RetryStarted event
  granted,  \* history: the attempts granted since the last reset
  now       \* Instant::now()

ovars == <<policy, engine, job, sent, delay, granted, now>>

JobEvents == {"RetryStarted", "RetryExhausted", "JobFailed", "JobCompleted"}

OInit ==
  /\ policy \in Policies
  /\ engine = NewEngine
  /\ job = [j \in JobIds |-> [status |-> "Pending", retry_count |-> 0]]
  /\ sent = [j \in JobIds |-> [e \in JobEvents |-> 0]]
  /\ delay = 0 /\ granted = 0
  /\ now = 0

(* Time passes. *)
Tick ==
  /\ now < MaxTime
  /\ now' = now + 1
  /\ UNCHANGED <<policy, engine, job, sent, delay, granted>>

(* A caller starts a job it holds, or, which none in the repository does,   *)
(* starts one again that was left Pending for a retry.                     *)
Run(j) ==
  /\ job[j].status = "Pending"
  /\ job' = [job EXCEPT ![j].status = "Running"]
  /\ UNCHANGED <<policy, engine, sent, delay, granted, now>>

Publish(j, E) ==
  sent' = [sent EXCEPT ![j] =
             [e \in JobEvents |-> IF e \in E THEN @[e] + 1 ELSE @[e]]]

(* Instants a handler that started now may read later. *)
Later(t) == {u \in {t, t + 1} : u <= MaxTime}

(* Mutant: retries are granted whether or not the job has any left. *)
gives_up_EngineOnly(eng, class, retry_count, t) ==
  \/ ~ is_retryable(class)
  \/ ~ should_retry(policy, eng, t)

(* The two early returns of handle_failure. *)
gives_up(eng, class, retry_count, t) ==
  \/ ~ is_retryable(class)
  \/ ~ should_retry(policy, eng, t)
  \/ retry_count >= MaxRetries

(* Mutant: the non-retryable path forgets RetryExhausted. *)
failure_events_NoExhausted(class, giveUp) ==
  {"RetryStarted"} \cup
  (IF ~ giveUp THEN {}
   ELSE IF is_retryable(class) THEN {"RetryExhausted", "JobFailed"}
   ELSE {"JobFailed"})

(* What handle_failure publishes; RetryStarted goes out before it is known *)
(* whether there will be a retry.                                          *)
failure_events(class, giveUp) ==
  {"RetryStarted"} \cup (IF giveUp THEN {"RetryExhausted", "JobFailed"} ELSE {})

(* handle_failure(job, error).  The clock is read by record_failure (now),  *)
(* by next_retry (t1) and by should_retry (t2).                            *)
HandleFailure(j, error) ==
  /\ job[j].status = "Running"
  /\ \E t1 \in Later(now) : \E t2 \in Later(t1), jit \in Jitter :
    LET class == classify(error)
        failed == record_failure(policy, engine, class, now)
        eng == next_delay(policy, failed, t1)
        count == job[j].retry_count + 1
        giveUp == gives_up(eng, class, count, t2)
    IN
    /\ engine' = eng
    /\ IF grants_delay(policy, failed, t1)
         THEN delay' = calculate_delay(policy, eng, jit) /\ granted' = granted + 1
         ELSE delay' = 0 /\ jit = 0 /\ granted' = granted
    /\ job' = [job EXCEPT ![j] =
                 [status |-> IF giveUp THEN "Failed" ELSE "Pending",
                  retry_count |-> count]]
    /\ Publish(j, failure_events(class, giveUp))
    /\ now' = t2
  /\ UNCHANGED policy

(* handle_success(job). *)
HandleSuccess(j) ==
  /\ job[j].status = "Running"
  /\ engine' = record_success(engine)
  /\ job' = [job EXCEPT ![j].status = "Completed"]
  /\ Publish(j, {"JobCompleted"})
  /\ UNCHANGED <<policy, delay, granted, now>>

(* next_retry_delay(): a caller asking for a delay spends an attempt. *)
NextRetryDelay ==
  /\ grants_delay(policy, engine, now)
  /\ engine' = next_delay(policy, engine, now)
  /\ granted' = granted + 1
  /\ UNCHANGED <<policy, job, sent, delay, now>>

(* update_network(latency, loss). *)
UpdateNetwork(c) ==
  /\ engine' = with_network_conditions(engine, c[1], c[2])
  /\ UNCHANGED <<policy, job, sent, delay, granted, now>>

(* engine_mut().reset(). *)
Reset ==
  /\ engine' = reset(engine)
  /\ granted' = 0
  /\ UNCHANGED <<policy, job, sent, delay, now>>

ONext ==
  \/ Tick
  \/ \E j \in JobIds : Run(j)
  \/ \E j \in JobIds, e \in Errors : HandleFailure(j, e)
  \/ \E j \in JobIds : HandleSuccess(j)
  \/ NextRetryDelay
  \/ \E c \in Conditions : UpdateNetwork(c)
  \/ Reset

OSpec == OInit /\ [][ONext]_ovars

-----------------------------------------------------------------------------
(* The variables keep their types, and attempt its budget. *)
OTypeOK ==
  /\ policy \in RetryPolicy
  /\ engine \in EngineState /\ engine.attempt <= EngineMax
  /\ job \in [JobIds -> [status : JobStatus, retry_count : Nat]]
  /\ sent \in [JobIds -> [JobEvents -> Nat]]
  /\ delay \in Nat /\ granted \in Nat
  /\ now \in Nat /\ engine.opened_at <= now

(* The circuit is Closed exactly while the consecutive retryable failures   *)
(* are below the threshold: it cannot miss its opening, and HalfOpen is    *)
(* left towards Closed by a success alone.  Permanent failures, failures   *)
(* of several jobs and cooldowns expiring in any order do not break it.    *)
ClosedIffBelowThreshold ==
  engine.circuit = "Closed" <=> engine.consecutive_failures < Threshold(policy)

(* An open circuit is left only by a success or after the whole cooldown,   *)
(* and while it is open and hot no job is sent to another attempt.         *)
OpenHoldsUntilCooled ==
  [][engine.circuit = "Open" =>
       /\ engine'.circuit # "Open" =>
            \/ engine'.circuit = "Closed" /\ engine'.consecutive_failures = 0
            \/ now >= engine.opened_at + Cooldown(policy)
       /\ \A j \in JobIds :
            job[j].status = "Running" /\ job'[j].status = "Pending" =>
              now' >= engine.opened_at + Cooldown(policy)]_ovars

(* A job whose outcome the orchestrator decided has exactly one closing     *)
(* event, JobCompleted or JobFailed with RetryExhausted; an undecided job  *)
(* has none; and every failure was announced once.                         *)
EventsMatchOutcome ==
  \A j \in JobIds :
    LET n == sent[j] IN
    /\ n["JobCompleted"] = IF job[j].status = "Completed" THEN 1 ELSE 0
    /\ n["JobFailed"] = IF job[j].status = "Failed" THEN 1 ELSE 0
    /\ n["RetryExhausted"] = n["JobFailed"]
    /\ n["RetryStarted"] = job[j].retry_count

(* A job is sent to another attempt only while it has retries left, so it   *)
(* fails at most max_retries times, however often the shared engine is     *)
(* reset.                                                                  *)
JobBudgetHolds ==
  \A j \in JobIds :
    /\ ~ is_terminal(job[j].status) => job[j].retry_count < MaxRetries
    /\ job[j].retry_count <= MaxRetries

(* The engine's attempts are shared, by the jobs and by whoever asks for a  *)
(* delay, and nothing gives one back, a success least of all: however      *)
(* failures, successes and requests for a delay follow each other, no more *)
(* than the budget is granted between two resets, and once it is, no job   *)
(* is sent to another attempt.  Only handle_failure's reading of the clock *)
(* lets a job be retried without taking one (circuit hot when the delay is *)
(* asked for and cooled when the verdict is).                              *)
SpentBudgetStopsAllJobs ==
  [][/\ granted' <= EngineMax
     /\ \A j \in JobIds :
          job[j].status = "Running" /\ job'[j].status = "Pending" =>
            granted' < EngineMax]_ovars

(* No delay exceeds max_delay by more than the jitter, under any policy,    *)
(* network conditions and length of failure streak.                        *)
DelayCapped ==
  delay <= (IF policy = "Fixed" THEN FixedDelay ELSE MaxDelay + 4)
=============================================================================
