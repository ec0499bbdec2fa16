---------------------------- MODULE QueueManager ----------------------------
(***************************************************************************)
(* The shared job queue (src/queue_manager.rs, with Job::new of            *)
(* src/job.rs).                                                            *)
(*                                                                         *)
(* Every method takes the queue's mutex once, so each is one atomic step,  *)
(* with one exception: enqueue draws the job's id from NEXT_JOB_ID before  *)
(* it waits for the mutex, so concurrent calls may push in another order   *)
(* than they numbered.  It is two actions, JobNew and PushBack.            *)
(*                                                                         *)
(* The VecDeque is a function from stamps to jobs: push_back uses the next *)
(* stamp, the deque's order is the order of the stamps, and removing an    *)
(* element leaves a hole, which keeps the others in order.                 *)
(***************************************************************************)
EXTENDS Job, FiniteSets

CONSTANTS
  Plugins,      \* plugin names a job may carry
  Priorities,   \* the priorities callers use, a subset of JobPriority
  MaxRetries,   \* max_retries of a new job (3 in Job::new)
  MaxJobs       \* bound: jobs created in a behaviour

ASSUME QueueAssumption ==
  /\ Priorities \subseteq JobPriority
  /\ MaxRetries \in Nat
  /\ MaxJobs \in Nat

VARIABLES
  next_id,      \* NEXT_JOB_ID
  created,      \* jobs numbered by an enqueue that still waits for the mutex
  jobs,         \* QueueInner.jobs, by stamp
  tail,         \* the stamp the next push_back takes
  auto_resume,  \* QueueInner.auto_resume
  handed,       \* history: the jobs dequeue has returned
  left,         \* history: ids of the jobs remove and clear_completed dropped
  fails         \* history: how often each job was marked Failed in the queue

qvars == <<next_id, created, jobs, tail, auto_resume, handed, left, fails>>

JobRec == JobWith(Plugins, MaxRetries)

(* The ids drawn so far. *)
Issued == 1 .. (next_id - 1)

(* The ids of the jobs waiting in enqueue, in the deque, and handed out. *)
CreatedIds == {j.id : j \in created}
QueuedIds == {jobs[k].id : k \in DOMAIN jobs}
HandedIds == {j.id : j \in handed}

(* jobs.iter().find(|j| j.id == id): the stamps of the first match. *)
find(id) ==
  {k \in DOMAIN jobs : /\ jobs[k].id = id
                       /\ \A m \in DOMAIN jobs : m < k => jobs[m].id # id}

(* The deque keeping only the stamps of S. *)
Keep(S) == [k \in S |-> jobs[k]]

-----------------------------------------------------------------------------
(* Mutant: NEXT_JOB_ID starts at 0, the id ipc.rs uses for "no number". *)
QInit_IdsFromZero ==
  /\ next_id = 0
  /\ created = {}
  /\ jobs = [k \in {} |-> 0]
  /\ tail = 0
  /\ auto_resume = TRUE
  /\ handed = {}
  /\ left = {}
  /\ fails = [i \in {} |-> 0]

(* NEXT_JOB_ID and QueueManager::new. *)
QInit ==
  /\ next_id = 1
  /\ created = {}
  /\ jobs = [k \in {} |-> 0]
  /\ tail = 0
  /\ auto_resume = TRUE
  /\ handed = {}
  /\ left = {}
  /\ fails = [i \in {} |-> 0]

(* Mutant: the id is read and incremented in two steps, and another call    *)
(* drew the same one in between.                                           *)
JobNew_IdRace(plugin, priority) ==
  /\ next_id <= MaxJobs
  /\ \E taken \in Issued \cup {next_id} :
        created' = created \cup {NewJob(taken, plugin, priority, MaxRetries)}
  /\ next_id' = next_id + 1
  /\ fails' = [i \in 1 .. next_id |-> IF i = next_id THEN 0 ELSE fails[i]]
  /\ UNCHANGED <<jobs, tail, auto_resume, handed, left>>

(* First half of enqueue: Job::new draws the id with one fetch_add. *)
JobNew(plugin, priority) ==
  /\ next_id <= MaxJobs
  /\ created' = created \cup {NewJob(next_id, plugin, priority, MaxRetries)}
  /\ next_id' = next_id + 1
  /\ fails' = [i \in 1 .. next_id |-> IF i = next_id THEN 0 ELSE fails[i]]
  /\ UNCHANGED <<jobs, tail, auto_resume, handed, left>>

(* Second half of enqueue: push_back under the mutex. *)
PushBack(job) ==
  /\ job \in created
  /\ created' = created \ {job}
  /\ jobs' = [k \in DOMAIN jobs \cup {tail} |->
                IF k = tail THEN job ELSE jobs[k]]
  /\ tail' = tail + 1
  /\ UNCHANGED <<next_id, auto_resume, handed, left, fails>>

(* Mutant: the filter excludes the finished jobs instead of asking for the  *)
(* pending ones.                                                           *)
PendingStamps_NotFinished ==
  {k \in DOMAIN jobs : jobs[k].status \notin {"Completed", "Failed"}}

(* The jobs dequeue chooses from. *)
PendingStamps == {k \in DOMAIN jobs : jobs[k].status = "Pending"}

(* Mutant: the first job found is taken, whatever its priority. *)
chosen_FirstFound(k) ==
  /\ k \in PendingStamps
  /\ \A m \in PendingStamps : m >= k

(* max_by_key over the pending jobs returns the last of the maxima. *)
chosen(k) ==
  /\ k \in PendingStamps
  /\ \A m \in PendingStamps :
        \/ jobs[m].priority < jobs[k].priority
        \/ jobs[m].priority = jobs[k].priority /\ m <= k

(* dequeue returning Some(job); returning None changes nothing. *)
Dequeue(k) ==
  /\ chosen(k)
  /\ handed' = handed \cup {[jobs[k] EXCEPT !.status = "Running"]}
  /\ jobs' = Keep(DOMAIN jobs \ {k})
  /\ UNCHANGED <<next_id, created, tail, auto_resume, left, fails>>

(* update_status(id, status) on a queued id.  It answers true even when     *)
(* set_status refuses the transition; on an absent id it answers false and *)
(* changes nothing.                                                        *)
UpdateStatus(id, status) ==
  /\ \E k \in find(id) :
       LET new == set_status(jobs[k], status) IN
       /\ jobs' = [jobs EXCEPT ![k] = new]
       /\ fails' = [fails EXCEPT ![id] =
                      IF new # jobs[k] /\ status = "Failed" THEN @ + 1 ELSE @]
  /\ UNCHANGED <<next_id, created, tail, auto_resume, handed, left>>

(* remove(id). *)
Remove(id) ==
  /\ id \in QueuedIds
  /\ jobs' = Keep({k \in DOMAIN jobs : jobs[k].id # id})
  /\ left' = left \cup {id}
  /\ UNCHANGED <<next_id, created, tail, auto_resume, handed, fails>>

(* Mutant: off by one at the retry limit. *)
Retryable_OneTooMany(job) ==
  job.status = "Failed" /\ job.retry_count <= job.max_retries

(* The jobs retry_failed picks. *)
Retryable(job) == job.status = "Failed" /\ job.retry_count < job.max_retries

(* retry_failed: it assigns the status itself, past set_status. *)
RetryFailed ==
  /\ \E k \in DOMAIN jobs : Retryable(jobs[k])
  /\ jobs' = [k \in DOMAIN jobs |->
                IF Retryable(jobs[k])
                  THEN [jobs[k] EXCEPT !.retry_count = @ + 1,
                                       !.status = "Pending"]
                  ELSE jobs[k]]
  /\ UNCHANGED <<next_id, created, tail, auto_resume, handed, left, fails>>

(* resume_all: Paused becomes Pending, past set_status. *)
ResumeAll ==
  /\ \E k \in DOMAIN jobs : jobs[k].status = "Paused"
  /\ jobs' = [k \in DOMAIN jobs |->
                IF jobs[k].status = "Paused"
                  THEN [jobs[k] EXCEPT !.status = "Pending"]
                  ELSE jobs[k]]
  /\ UNCHANGED <<next_id, created, tail, auto_resume, handed, left, fails>>

CompletedStamps == {k \in DOMAIN jobs : jobs[k].status = "Completed"}

(* clear_completed. *)
ClearCompleted ==
  /\ CompletedStamps # {}
  /\ jobs' = Keep(DOMAIN jobs \ CompletedStamps)
  /\ left' = left \cup {jobs[k].id : k \in CompletedStamps}
  /\ UNCHANGED <<next_id, created, tail, auto_resume, handed, fails>>

(* set_auto_resume; nothing in the repository reads the flag to act on it. *)
SetAutoResume(enabled) ==
  /\ auto_resume' = enabled
  /\ UNCHANGED <<next_id, created, jobs, tail, handed, left, fails>>

QNext ==
  \/ \E p \in Plugins, pr \in Priorities : JobNew(p, pr)
  \/ \E j \in created : PushBack(j)
  \/ \E k \in DOMAIN jobs : Dequeue(k)
  \/ \E i \in Issued, s \in JobStatus : UpdateStatus(i, s)
  \/ \E i \in Issued : Remove(i)
  \/ RetryFailed
  \/ ResumeAll
  \/ ClearCompleted
  \/ \E b \in BOOLEAN : SetAutoResume(b)

QSpec == QInit /\ [][QNext]_qvars

-----------------------------------------------------------------------------
(* stats(): how many queued jobs have the status s. *)
CountOf(s) == Cardinality({k \in DOMAIN jobs : jobs[k].status = s})
stats ==
  [total |-> Cardinality(DOMAIN jobs), pending |-> CountOf("Pending"),
   running |-> CountOf("Running"), paused |-> CountOf("Paused"),
   completed |-> CountOf("Completed"), failed |-> CountOf("Failed")]

(* The variables keep their types. *)
QTypeOK ==
  /\ next_id \in Nat \ {0}
  /\ created \subseteq JobRec
  /\ tail \in Nat
  /\ DOMAIN jobs \subseteq 0 .. (tail - 1)
  /\ jobs \in [DOMAIN jobs -> JobRec]
  /\ auto_resume \in BOOLEAN
  /\ handed \subseteq JobRec
  /\ left \subseteq Nat
  /\ fails \in [Issued -> Nat]

(* Two jobs in the same place never share an id. *)
OneJobPerId ==
  /\ \A a, b \in created : a.id = b.id => a = b
  /\ \A a, b \in handed : a.id = b.id => a = b
  /\ \A k, m \in DOMAIN jobs : jobs[k].id = jobs[m].id => k = m

(* The four places share no id and hold every id drawn. *)
IdsPartitioned ==
  /\ CreatedIds \cap (QueuedIds \cup HandedIds \cup left) = {}
  /\ QueuedIds \cap (HandedIds \cup left) = {}
  /\ HandedIds \cap left = {}
  /\ CreatedIds \cup QueuedIds \cup HandedIds \cup left = Issued
(* Every id NEXT_JOB_ID has given out belongs to exactly one job, and that  *)
(* job is in exactly one place: waiting in enqueue, in the deque, handed   *)
(* to an executor, or dropped on purpose by remove or clear_completed.  No *)
(* job is executed twice and none disappears, however enqueue, dequeue and *)
(* the other calls interleave.                                             *)
EachJobInOnePlace == OneJobPerId /\ IdsPartitioned

(* retry_failed and the status machine together account for every failure: *)
(* a queued job has been marked Failed once per retry it was granted, plus *)
(* once more if it is Failed now.  A path out of Failed that does not pay  *)
(* for a retry, or a retry without a failure, breaks it.                   *)
FailuresMatchRetries ==
  \A k \in DOMAIN jobs :
    fails[jobs[k].id] =
      jobs[k].retry_count + (IF jobs[k].status = "Failed" THEN 1 ELSE 0)

(* A job still waiting in enqueue has neither failed nor been retried. *)
CreatedFresh ==
  \A j \in created :
    j.retry_count = 0 /\ j.status = "Pending" /\ fails[j.id] = 0

(* retry_failed never takes a job past its budget. *)
RetryWithinBudget ==
  \A k \in DOMAIN jobs : jobs[k].retry_count <= jobs[k].max_retries

(* However retry_failed, update_status and resume_all are mixed, a job is   *)
(* marked Failed at most max_retries + 1 times while it is queued.         *)
FailuresBounded ==
  \A k \in DOMAIN jobs : fails[jobs[k].id] <= jobs[k].max_retries + 1

(* A job dequeue returns leaves no pending job of a higher priority behind, *)
(* whatever order the jobs were pushed, paused and resumed in.             *)
NoPriorityInversion ==
  [][\A j \in handed' \ handed :
       \A k \in DOMAIN jobs' :
         jobs'[k].status = "Pending" => jobs'[k].priority <= j.priority]_qvars

(* A cancelled job stays as it is until remove takes it out: dequeue never *)
(* runs it, retry_failed and resume_all do not revive it, update_status     *)
(* does not move it, clear_completed does not hide it.                      *)
CancelledIsFinal ==
  [][\A k \in DOMAIN jobs :
       jobs[k].status = "Cancelled" =>
         \/ k \in DOMAIN jobs' /\ jobs'[k] = jobs[k]
         \/ Remove(jobs[k].id)]_qvars
=============================================================================
