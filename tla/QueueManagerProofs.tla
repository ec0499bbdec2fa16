------------------------- MODULE QueueManagerProofs -------------------------
(***************************************************************************)
(* Proofs about QueueManager, for every set of plugins and priorities and  *)
(* every retry budget.                                                     *)
(***************************************************************************)
EXTENDS QueueManager, TLAPS

(* The inductive invariant.  EachJobInOnePlace is needed for the retry      *)
(* accounting: fails is kept per id, so update_status may count a failure  *)
(* for the right job only if no two queued jobs share an id.               *)
QInv ==
  /\ QTypeOK
  /\ EachJobInOnePlace
  /\ CreatedFresh
  /\ FailuresMatchRetries
  /\ RetryWithinBudget

-----------------------------------------------------------------------------
(* What set_status does to a job record: the status moves to the requested *)
(* one or stays, nothing else changes, and a failed job stays failed.      *)
LEMMA SetStatusFacts ==
  ASSUME NEW j \in JobRec, NEW s \in JobStatus
  PROVE  /\ set_status(j, s) \in JobRec
         /\ set_status(j, s).id = j.id
         /\ set_status(j, s).retry_count = j.retry_count
         /\ set_status(j, s).max_retries = j.max_retries
         /\ set_status(j, s).status \in {j.status, s}
         /\ j.status = "Failed" => set_status(j, s) = j
         /\ (s = "Failed" /\ set_status(j, s) # j) =>
               /\ j.status # "Failed"
               /\ set_status(j, s).status = "Failed"
         /\ s # "Failed" /\ j.status # "Failed" =>
               set_status(j, s).status # "Failed"
BY DEF set_status, can_transition, JobRec, JobWith, JobStatus

(* The record updates of dequeue, retry_failed and resume_all give jobs. *)
LEMMA JobUpdates ==
  ASSUME NEW j \in JobRec
  PROVE  /\ \A s \in JobStatus : [j EXCEPT !.status = s] \in JobRec
         /\ [j EXCEPT !.retry_count = @ + 1, !.status = "Pending"] \in JobRec
         /\ j.id \in Nat \ {0}
<1>1. \A s \in JobStatus : [j EXCEPT !.status = s] \in JobRec
  BY DEF JobRec, JobWith, JobStatus
<1>2. [j EXCEPT !.retry_count = @ + 1] \in JobRec
  BY DEF JobRec, JobWith
<1>3. [j EXCEPT !.retry_count = @ + 1, !.status = "Pending"] =
        [[j EXCEPT !.retry_count = @ + 1] EXCEPT !.status = "Pending"]
  BY DEF JobRec, JobWith
<1>4. [j EXCEPT !.retry_count = @ + 1, !.status = "Pending"] \in JobRec
  BY <1>2, <1>3 DEF JobRec, JobWith, JobStatus
<1>5. j.id \in Nat \ {0}
  BY DEF JobRec, JobWith
<1> QED BY <1>1, <1>4, <1>5

(* The state QueueManager::new leaves satisfies the invariant. *)
LEMMA QInitInv == QInit => QInv
BY QueueAssumption DEF QInit, QInv, QTypeOK, EachJobInOnePlace, OneJobPerId,
   IdsPartitioned, CreatedIds, QueuedIds, HandedIds, Issued, CreatedFresh,
   FailuresMatchRetries, RetryWithinBudget

(* Type correctness is preserved by every method. *)
LEMMA QTypeStep == QTypeOK /\ [QNext]_qvars => QTypeOK'
<1> SUFFICES ASSUME QTypeOK, [QNext]_qvars PROVE QTypeOK'
  OBVIOUS
<1> USE QueueAssumption DEF QTypeOK, Issued
<1>1. ASSUME NEW p \in Plugins, NEW pr \in Priorities, JobNew(p, pr)
      PROVE  QTypeOK'
  <2>1. NewJob(next_id, p, pr, MaxRetries) \in JobRec
    BY DEF NewJob, JobRec, JobWith, JobStatus
  <2> QED BY <1>1, <2>1 DEF JobNew
<1>2. ASSUME NEW j \in created, PushBack(j) PROVE QTypeOK'
  BY <1>2 DEF PushBack
<1>3. ASSUME NEW k \in DOMAIN jobs, Dequeue(k) PROVE QTypeOK'
  <2>1. [jobs[k] EXCEPT !.status = "Running"] \in JobRec
    BY JobUpdates DEF JobStatus
  <2> QED BY <1>3, <2>1 DEF Dequeue, Keep
<1>4. ASSUME NEW i \in Issued, NEW s \in JobStatus, UpdateStatus(i, s)
      PROVE  QTypeOK'
  <2>1. PICK k \in find(i) :
          /\ jobs' = [jobs EXCEPT ![k] = set_status(jobs[k], s)]
          /\ fails' = [fails EXCEPT ![i] =
               IF set_status(jobs[k], s) # jobs[k] /\ s = "Failed"
                 THEN @ + 1 ELSE @]
    BY <1>4 DEF UpdateStatus
  <2>2. k \in DOMAIN jobs /\ set_status(jobs[k], s) \in JobRec
    BY <2>1, SetStatusFacts DEF find
  <2>3. jobs' \in [DOMAIN jobs' -> JobRec] /\ DOMAIN jobs' = DOMAIN jobs
    BY <2>1, <2>2
  <2>4. fails' \in [Issued -> Nat]
    BY <2>1
  <2> QED BY <1>4, <2>3, <2>4 DEF UpdateStatus
<1>5. ASSUME NEW i \in Issued, Remove(i) PROVE QTypeOK'
  BY <1>5 DEF Remove, Keep
<1>6. CASE RetryFailed
  <2>1. \A k \in DOMAIN jobs :
          [jobs[k] EXCEPT !.retry_count = @ + 1, !.status = "Pending"] \in JobRec
    BY JobUpdates
  <2> QED BY <1>6, <2>1 DEF RetryFailed
<1>7. CASE ResumeAll
  <2>1. \A k \in DOMAIN jobs : [jobs[k] EXCEPT !.status = "Pending"] \in JobRec
    BY JobUpdates DEF JobStatus
  <2> QED BY <1>7, <2>1 DEF ResumeAll
<1>8. CASE ClearCompleted
  <2>1. {jobs[k].id : k \in CompletedStamps} \subseteq Nat
    BY JobUpdates DEF CompletedStamps
  <2> QED BY <1>8, <2>1 DEF ClearCompleted, Keep
<1>9. ASSUME NEW b \in BOOLEAN, SetAutoResume(b) PROVE QTypeOK'
  BY <1>9 DEF SetAutoResume
<1>10. CASE UNCHANGED qvars
  BY <1>10 DEF qvars
<1> QED BY <1>1, <1>2, <1>3, <1>4, <1>5, <1>6, <1>7, <1>8, <1>9, <1>10
        DEF QNext

(* QueueManager's variables keep their types in every behaviour. *)
THEOREM QueueTypes == QSpec => []QTypeOK
<1>1. QInit => QTypeOK
  BY QInitInv DEF QInv
<1> QED BY <1>1, QTypeStep, PTL DEF QSpec

-----------------------------------------------------------------------------
(* A step that changes neither the ids nor the places of the jobs. *)
LEMMA SamePlaces ==
  ASSUME EachJobInOnePlace, created' = created, handed' = handed,
         left' = left, next_id' = next_id, DOMAIN jobs' = DOMAIN jobs,
         \A k \in DOMAIN jobs : jobs'[k].id = jobs[k].id
  PROVE  EachJobInOnePlace'
<1>1. /\ CreatedIds' = CreatedIds /\ HandedIds' = HandedIds
      /\ QueuedIds' = QueuedIds /\ Issued' = Issued
  BY DEF CreatedIds, HandedIds, QueuedIds, Issued
<1>2. OneJobPerId'
  BY DEF EachJobInOnePlace, OneJobPerId
<1> QED BY <1>1, <1>2 DEF EachJobInOnePlace, IdsPartitioned

(* No method duplicates a job or drops one silently. *)
LEMMA OnePlaceStep ==
  QTypeOK /\ EachJobInOnePlace /\ [QNext]_qvars => EachJobInOnePlace'
<1> SUFFICES ASSUME QTypeOK, EachJobInOnePlace, [QNext]_qvars
             PROVE  EachJobInOnePlace'
  OBVIOUS
<1>a. OneJobPerId /\ IdsPartitioned
  BY DEF EachJobInOnePlace
<1>1. ASSUME NEW p \in Plugins, NEW pr \in Priorities, JobNew(p, pr)
      PROVE  EachJobInOnePlace'
  <2> DEFINE new == NewJob(next_id, p, pr, MaxRetries)
  <2>1. new.id = next_id
    BY DEF NewJob
  <2>2. next_id \notin Issued /\ Issued' = Issued \cup {next_id}
    BY <1>1 DEF JobNew, QTypeOK, Issued
  <2>3. /\ CreatedIds' = CreatedIds \cup {next_id}
        /\ QueuedIds' = QueuedIds /\ HandedIds' = HandedIds /\ left' = left
    BY <1>1, <2>1 DEF JobNew, CreatedIds, QueuedIds, HandedIds
  <2>4. IdsPartitioned'
    BY <1>a, <2>2, <2>3 DEF IdsPartitioned
  <2>5. next_id \notin CreatedIds
    BY <1>a, <2>2 DEF IdsPartitioned
  <2>6. OneJobPerId'
    BY <1>1, <1>a, <2>1, <2>5 DEF JobNew, OneJobPerId, CreatedIds
  <2> QED BY <2>4, <2>6 DEF EachJobInOnePlace
<1>2. ASSUME NEW j \in created, PushBack(j) PROVE EachJobInOnePlace'
  <2>1. tail \notin DOMAIN jobs /\ Issued' = Issued
    BY <1>2 DEF QTypeOK, PushBack, Issued
  <2>2. /\ CreatedIds' = CreatedIds \ {j.id} /\ j.id \in CreatedIds
        /\ HandedIds' = HandedIds /\ left' = left
    BY <1>2, <1>a DEF PushBack, OneJobPerId, CreatedIds, HandedIds
  <2>3. QueuedIds' = QueuedIds \cup {j.id}
    BY <1>2, <2>1 DEF PushBack, QueuedIds
  <2>4. IdsPartitioned'
    BY <1>a, <2>1, <2>2, <2>3 DEF IdsPartitioned
  <2>5. j.id \notin QueuedIds
    BY <1>a, <2>2 DEF IdsPartitioned
  <2>6. OneJobPerId'
    BY <1>2, <1>a, <2>1, <2>5 DEF PushBack, OneJobPerId, QueuedIds
  <2> QED BY <2>4, <2>6 DEF EachJobInOnePlace
<1>3. ASSUME NEW k \in DOMAIN jobs, Dequeue(k) PROVE EachJobInOnePlace'
  <2> DEFINE out == [jobs[k] EXCEPT !.status = "Running"]
  <2>1. out.id = jobs[k].id /\ Issued' = Issued
    BY <1>3 DEF QTypeOK, JobRec, JobWith, Dequeue, Issued
  <2>2. /\ HandedIds' = HandedIds \cup {jobs[k].id}
        /\ CreatedIds' = CreatedIds /\ left' = left
    BY <1>3, <2>1 DEF Dequeue, CreatedIds, HandedIds
  <2>3. QueuedIds' = QueuedIds \ {jobs[k].id} /\ jobs[k].id \in QueuedIds
    BY <1>3, <1>a DEF Dequeue, Keep, QueuedIds, OneJobPerId
  <2>4. IdsPartitioned'
    BY <1>a, <2>1, <2>2, <2>3 DEF IdsPartitioned
  <2>5. jobs[k].id \notin HandedIds
    BY <1>a, <2>3 DEF IdsPartitioned
  <2>6. \A a, b \in handed' : a.id = b.id => a = b
    <3>1. handed' = handed \cup {out}
      BY <1>3 DEF Dequeue
    <3>2. \A a \in handed : a.id # jobs[k].id
      BY <2>5 DEF HandedIds
    <3> HIDE DEF out
    <3> QED BY <1>a, <2>1, <3>1, <3>2 DEF OneJobPerId
  <2>7. \A m, n \in DOMAIN jobs' : jobs'[m].id = jobs'[n].id => m = n
    BY <1>3, <1>a DEF Dequeue, Keep, OneJobPerId
  <2>8. OneJobPerId'
    BY <1>3, <1>a, <2>6, <2>7 DEF Dequeue, OneJobPerId
  <2> QED BY <2>4, <2>8 DEF EachJobInOnePlace
<1>4. ASSUME NEW i \in Issued, NEW s \in JobStatus, UpdateStatus(i, s)
      PROVE  EachJobInOnePlace'
  <2>1. PICK k \in find(i) : jobs' = [jobs EXCEPT ![k] = set_status(jobs[k], s)]
    BY <1>4 DEF UpdateStatus
  <2>2. k \in DOMAIN jobs /\ set_status(jobs[k], s).id = jobs[k].id
    BY <2>1, SetStatusFacts DEF find, QTypeOK
  <2>3. DOMAIN jobs' = DOMAIN jobs /\ \A m \in DOMAIN jobs : jobs'[m].id = jobs[m].id
    BY <2>1, <2>2 DEF QTypeOK
  <2> QED BY <1>4, <2>3, SamePlaces DEF UpdateStatus
<1>5. ASSUME NEW i \in Issued, Remove(i) PROVE EachJobInOnePlace'
  <2>1. /\ QueuedIds' = QueuedIds \ {i} /\ i \in QueuedIds
        /\ CreatedIds' = CreatedIds /\ HandedIds' = HandedIds
        /\ left' = left \cup {i} /\ Issued' = Issued
    BY <1>5 DEF Remove, Keep, QueuedIds, CreatedIds, HandedIds, Issued
  <2>2. IdsPartitioned'
    BY <1>a, <2>1 DEF IdsPartitioned
  <2>3. OneJobPerId'
    BY <1>5, <1>a DEF Remove, Keep, OneJobPerId
  <2> QED BY <2>2, <2>3 DEF EachJobInOnePlace
<1>6. CASE RetryFailed
  <2>1. \A j \in JobRec :
          [j EXCEPT !.retry_count = @ + 1, !.status = "Pending"].id = j.id
    BY DEF JobRec, JobWith
  <2>2. DOMAIN jobs' = DOMAIN jobs /\ \A m \in DOMAIN jobs : jobs'[m].id = jobs[m].id
    BY <1>6, <2>1 DEF RetryFailed, QTypeOK
  <2> QED BY <1>6, <2>2, SamePlaces DEF RetryFailed
<1>7. CASE ResumeAll
  <2>1. \A j \in JobRec : [j EXCEPT !.status = "Pending"].id = j.id
    BY DEF JobRec, JobWith
  <2>2. DOMAIN jobs' = DOMAIN jobs /\ \A m \in DOMAIN jobs : jobs'[m].id = jobs[m].id
    BY <1>7, <2>1 DEF ResumeAll, QTypeOK
  <2> QED BY <1>7, <2>2, SamePlaces DEF ResumeAll
<1>8. CASE ClearCompleted
  <2> DEFINE gone == {jobs[k].id : k \in CompletedStamps}
  <2>1. /\ QueuedIds' = QueuedIds \ gone /\ gone \subseteq QueuedIds
        /\ CreatedIds' = CreatedIds /\ HandedIds' = HandedIds
        /\ left' = left \cup gone /\ Issued' = Issued
    BY <1>8, <1>a DEF ClearCompleted, CompletedStamps, Keep, QueuedIds,
       CreatedIds, HandedIds, Issued, OneJobPerId
  <2>2. IdsPartitioned'
    BY <1>a, <2>1 DEF IdsPartitioned
  <2>3. OneJobPerId'
    BY <1>8, <1>a DEF ClearCompleted, CompletedStamps, Keep, OneJobPerId
  <2> QED BY <2>2, <2>3 DEF EachJobInOnePlace
<1>9. ASSUME NEW b \in BOOLEAN, SetAutoResume(b) PROVE EachJobInOnePlace'
  BY <1>9, SamePlaces DEF SetAutoResume
<1>10. CASE UNCHANGED qvars
  BY <1>10, SamePlaces DEF qvars
<1> QED BY <1>1, <1>2, <1>3, <1>4, <1>5, <1>6, <1>7, <1>8, <1>9, <1>10
        DEF QNext

-----------------------------------------------------------------------------
(* A step that leaves every queued job's failure account alone. *)
LEMMA SameAccounts ==
  ASSUME FailuresMatchRetries, RetryWithinBudget,
         DOMAIN jobs' \subseteq DOMAIN jobs,
         \A k \in DOMAIN jobs' :
            /\ jobs'[k].id = jobs[k].id
            /\ jobs'[k].retry_count = jobs[k].retry_count
            /\ jobs'[k].max_retries = jobs[k].max_retries
            /\ (jobs'[k].status = "Failed") <=> (jobs[k].status = "Failed"),
         fails' = fails
  PROVE  FailuresMatchRetries' /\ RetryWithinBudget'
BY DEF FailuresMatchRetries, RetryWithinBudget

(* Jobs waiting in enqueue stay as Job::new made them. *)
LEMMA FreshStep == QInv /\ [QNext]_qvars => CreatedFresh'
<1> SUFFICES ASSUME QInv, [QNext]_qvars PROVE CreatedFresh'
  OBVIOUS
<1>a. QTypeOK /\ IdsPartitioned /\ CreatedFresh
  BY DEF QInv, EachJobInOnePlace
<1>b. \A j \in created : j.id \in Issued /\ j.id \notin QueuedIds
  BY <1>a DEF IdsPartitioned, CreatedIds
<1>1. ASSUME NEW p \in Plugins, NEW pr \in Priorities, JobNew(p, pr)
      PROVE  CreatedFresh'
  <2>1. \A i \in Issued : fails'[i] = fails[i]
    BY <1>1, <1>a DEF JobNew, QTypeOK, Issued
  <2>2. fails'[next_id] = 0
    BY <1>1, <1>a DEF JobNew, QTypeOK
  <2> QED BY <1>1, <1>a, <1>b, <2>1, <2>2 DEF JobNew, NewJob, CreatedFresh
<1>2. ASSUME NEW i \in Issued, NEW s \in JobStatus, UpdateStatus(i, s)
      PROVE  CreatedFresh'
  <2>1. i \in QueuedIds
    BY <1>2 DEF UpdateStatus, find, QueuedIds
  <2>2. \A j \in created : fails'[j.id] = fails[j.id]
    BY <1>2, <1>a, <1>b, <2>1 DEF UpdateStatus, QTypeOK
  <2> QED BY <1>2, <1>a, <2>2 DEF UpdateStatus, CreatedFresh
<1>3. ASSUME created' \subseteq created, fails' = fails PROVE CreatedFresh'
  BY <1>3, <1>a DEF CreatedFresh
<1> QED BY <1>1, <1>2, <1>3 DEF QNext, qvars, PushBack, Dequeue, Remove,
        RetryFailed, ResumeAll, ClearCompleted, SetAutoResume

(* Failures and retries stay in step, and retries within the budget. *)
LEMMA AccountStep ==
  QInv /\ [QNext]_qvars => FailuresMatchRetries' /\ RetryWithinBudget'
<1> SUFFICES ASSUME QInv, [QNext]_qvars
             PROVE  FailuresMatchRetries' /\ RetryWithinBudget'
  OBVIOUS
<1>a. QTypeOK /\ OneJobPerId /\ IdsPartitioned /\ CreatedFresh
      /\ FailuresMatchRetries /\ RetryWithinBudget
  BY DEF QInv, EachJobInOnePlace
<1>b. \A k \in DOMAIN jobs : jobs[k] \in JobRec /\ jobs[k].id \in Issued
  BY <1>a DEF QTypeOK, IdsPartitioned, QueuedIds
<1>1. ASSUME NEW p \in Plugins, NEW pr \in Priorities, JobNew(p, pr)
      PROVE  FailuresMatchRetries' /\ RetryWithinBudget'
  <2>1. \A i \in Issued : fails'[i] = fails[i]
    BY <1>1, <1>a DEF JobNew, QTypeOK, Issued
  <2> QED BY <1>1, <1>a, <1>b, <2>1
          DEF JobNew, FailuresMatchRetries, RetryWithinBudget
<1>2. ASSUME NEW j \in created, PushBack(j)
      PROVE  FailuresMatchRetries' /\ RetryWithinBudget'
  <2>1. tail \notin DOMAIN jobs /\ fails' = fails
    BY <1>2, <1>a DEF QTypeOK, PushBack
  <2>2. /\ jobs'[tail] = j /\ DOMAIN jobs' = DOMAIN jobs \cup {tail}
        /\ \A k \in DOMAIN jobs : jobs'[k] = jobs[k]
    BY <1>2, <2>1 DEF PushBack
  <2>3. /\ j.retry_count = 0 /\ j.status = "Pending" /\ fails[j.id] = 0
        /\ j.max_retries \in Nat
    BY <1>a, QueueAssumption DEF CreatedFresh, QTypeOK, JobRec, JobWith
  <2> QED BY <1>a, <2>1, <2>2, <2>3 DEF FailuresMatchRetries, RetryWithinBudget
<1>3. ASSUME NEW k \in DOMAIN jobs, Dequeue(k)
      PROVE  FailuresMatchRetries' /\ RetryWithinBudget'
  BY <1>3, <1>a, SameAccounts DEF Dequeue, Keep
<1>4. ASSUME NEW i \in Issued, NEW s \in JobStatus, UpdateStatus(i, s)
      PROVE  FailuresMatchRetries' /\ RetryWithinBudget'
  <2>1. PICK k \in find(i) :
          /\ jobs' = [jobs EXCEPT ![k] = set_status(jobs[k], s)]
          /\ fails' = [fails EXCEPT ![i] =
               IF set_status(jobs[k], s) # jobs[k] /\ s = "Failed"
                 THEN @ + 1 ELSE @]
    BY <1>4 DEF UpdateStatus
  <2>2. k \in DOMAIN jobs /\ jobs[k].id = i
    BY <2>1 DEF find
  <2>3. \A m \in DOMAIN jobs : m # k => jobs'[m] = jobs[m] /\ jobs[m].id # i
    BY <1>a, <2>1, <2>2 DEF OneJobPerId, QTypeOK
  <2>4. jobs'[k] = set_status(jobs[k], s) /\ DOMAIN jobs' = DOMAIN jobs
    BY <1>a, <2>1, <2>2 DEF QTypeOK
  <2>5. \A m \in DOMAIN jobs : m # k => fails'[jobs[m].id] = fails[jobs[m].id]
    BY <1>a, <1>b, <2>1, <2>3 DEF QTypeOK
  <2>6. fails'[i] = jobs'[k].retry_count
                    + (IF jobs'[k].status = "Failed" THEN 1 ELSE 0)
    BY <1>a, <1>b, <2>1, <2>2, <2>4, SetStatusFacts
       DEF FailuresMatchRetries, QTypeOK, JobRec, JobWith
  <2>7. /\ jobs'[k].id = i
        /\ jobs'[k].retry_count = jobs[k].retry_count
        /\ jobs'[k].max_retries = jobs[k].max_retries
    BY <1>b, <2>2, <2>4, SetStatusFacts
  <2>8. FailuresMatchRetries'
    BY <1>a, <2>3, <2>4, <2>5, <2>6, <2>7 DEF FailuresMatchRetries
  <2>9. RetryWithinBudget'
    BY <1>a, <2>2, <2>3, <2>4, <2>7 DEF RetryWithinBudget
  <2> QED BY <2>8, <2>9
<1>5. ASSUME NEW i \in Issued, Remove(i)
      PROVE  FailuresMatchRetries' /\ RetryWithinBudget'
  BY <1>5, <1>a, SameAccounts DEF Remove, Keep
<1>6. CASE RetryFailed
  <2> DEFINE again(j) == [j EXCEPT !.retry_count = @ + 1, !.status = "Pending"]
  <2>1. \A j \in JobRec :
          /\ again(j).id = j.id /\ again(j).status = "Pending"
          /\ again(j).retry_count = j.retry_count + 1
          /\ again(j).max_retries = j.max_retries
          /\ j.retry_count \in Nat /\ j.max_retries \in Nat
    BY QueueAssumption DEF JobRec, JobWith
  <2>2. /\ DOMAIN jobs' = DOMAIN jobs /\ fails' = fails
        /\ \A k \in DOMAIN jobs :
             jobs'[k] = IF Retryable(jobs[k]) THEN again(jobs[k]) ELSE jobs[k]
    BY <1>6 DEF RetryFailed
  <2> HIDE DEF again
  <2>3. ASSUME NEW k \in DOMAIN jobs
        PROVE  /\ fails'[jobs'[k].id] = jobs'[k].retry_count
                    + (IF jobs'[k].status = "Failed" THEN 1 ELSE 0)
               /\ jobs'[k].retry_count <= jobs'[k].max_retries
    BY <1>a, <1>b, <2>1, <2>2
       DEF FailuresMatchRetries, RetryWithinBudget, Retryable
  <2> QED BY <2>2, <2>3 DEF FailuresMatchRetries, RetryWithinBudget
<1>7. CASE ResumeAll
  <2>1. \A j \in JobRec :
          /\ [j EXCEPT !.status = "Pending"].id = j.id
          /\ [j EXCEPT !.status = "Pending"].retry_count = j.retry_count
          /\ [j EXCEPT !.status = "Pending"].max_retries = j.max_retries
          /\ [j EXCEPT !.status = "Pending"].status = "Pending"
    BY DEF JobRec, JobWith
  <2> QED BY <1>7, <1>a, <1>b, <2>1, SameAccounts DEF ResumeAll
<1>8. CASE ClearCompleted
  BY <1>8, <1>a, SameAccounts DEF ClearCompleted, Keep
<1>9. ASSUME NEW b \in BOOLEAN, SetAutoResume(b)
      PROVE  FailuresMatchRetries' /\ RetryWithinBudget'
  BY <1>9, <1>a, SameAccounts DEF SetAutoResume
<1>10. CASE UNCHANGED qvars
  BY <1>10, <1>a, SameAccounts DEF qvars
<1> QED BY <1>1, <1>2, <1>3, <1>4, <1>5, <1>6, <1>7, <1>8, <1>9, <1>10
        DEF QNext

-----------------------------------------------------------------------------
(* The invariant holds in every reachable state of the queue. *)
THEOREM QueueInvariant == QSpec => []QInv
<1>1. QInv /\ [QNext]_qvars => QInv'
  BY QTypeStep, OnePlaceStep, FreshStep, AccountStep DEF QInv
<1> QED BY QInitInv, <1>1, PTL DEF QSpec

(* No job is handed out twice and none disappears: every id drawn from     *)
(* NEXT_JOB_ID is in exactly one place, whatever callers interleave.       *)
THEOREM JobsAreConserved == QSpec => []EachJobInOnePlace
<1>1. QInv => EachJobInOnePlace
  BY DEF QInv
<1> QED BY <1>1, QueueInvariant, PTL

(* A queued job is marked Failed exactly once per granted retry, and once   *)
(* more if it is Failed now.                                                *)
THEOREM RetriesMatchFailures == QSpec => []FailuresMatchRetries
<1>1. QInv => FailuresMatchRetries
  BY DEF QInv
<1> QED BY <1>1, QueueInvariant, PTL

(* A queued job is marked Failed at most max_retries + 1 times.             *)
THEOREM FailuresAreBounded == QSpec => []FailuresBounded
<1>1. QInv => FailuresBounded
  <2> SUFFICES ASSUME QInv, NEW k \in DOMAIN jobs
               PROVE  fails[jobs[k].id] <= jobs[k].max_retries + 1
    BY DEF QInv, FailuresBounded
  <2>1. jobs[k].retry_count \in Nat /\ jobs[k].max_retries \in Nat
    BY QueueAssumption DEF QInv, QTypeOK, JobRec, JobWith
  <2> QED BY <2>1 DEF QInv, FailuresMatchRetries, RetryWithinBudget
<1> QED BY <1>1, QueueInvariant, PTL

(* A job that was cancelled while queued is never executed, retried or      *)
(* resumed: only remove touches it.                                         *)
THEOREM CancelledStaysCancelled == QSpec => CancelledIsFinal
<1>1. QInv /\ [QNext]_qvars =>
        [\A k \in DOMAIN jobs :
           jobs[k].status = "Cancelled" =>
             \/ k \in DOMAIN jobs' /\ jobs'[k] = jobs[k]
             \/ Remove(jobs[k].id)]_qvars
  <2> SUFFICES ASSUME QInv, QNext, NEW k \in DOMAIN jobs,
                      jobs[k].status = "Cancelled", ~ Remove(jobs[k].id)
               PROVE  k \in DOMAIN jobs' /\ jobs'[k] = jobs[k]
    OBVIOUS
  <2>a. QTypeOK /\ jobs[k] \in JobRec
    BY DEF QInv, QTypeOK
  <2>1. ASSUME NEW i \in Issued, NEW s \in JobStatus, UpdateStatus(i, s)
        PROVE  k \in DOMAIN jobs' /\ jobs'[k] = jobs[k]
    <3>1. set_status(jobs[k], s) = jobs[k]
      BY DEF set_status, can_transition
    <3> QED BY <2>1, <2>a, <3>1 DEF UpdateStatus, find, QTypeOK
  <2>2. ASSUME NEW i \in Issued, Remove(i)
        PROVE  k \in DOMAIN jobs' /\ jobs'[k] = jobs[k]
    BY <2>2 DEF Remove, Keep
  <2>3. ASSUME NEW j \in created, PushBack(j)
        PROVE  k \in DOMAIN jobs' /\ jobs'[k] = jobs[k]
    BY <2>3, <2>a DEF PushBack, QTypeOK
  <2>4. ASSUME NEW m \in DOMAIN jobs, Dequeue(m)
        PROVE  k \in DOMAIN jobs' /\ jobs'[k] = jobs[k]
    BY <2>4 DEF Dequeue, Keep, chosen, PendingStamps
  <2>5. CASE RetryFailed
    BY <2>5 DEF RetryFailed, Retryable
  <2>6. CASE ResumeAll
    BY <2>6 DEF ResumeAll
  <2>7. CASE ClearCompleted
    BY <2>7 DEF ClearCompleted, CompletedStamps, Keep
  <2>8. ASSUME jobs' = jobs PROVE k \in DOMAIN jobs' /\ jobs'[k] = jobs[k]
    BY <2>8
  <2> QED BY <2>1, <2>2, <2>3, <2>4, <2>5, <2>6, <2>7, <2>8
          DEF QNext, JobNew, SetAutoResume
<1> QED BY <1>1, QueueInvariant, PTL DEF QSpec, CancelledIsFinal

(* dequeue returns a job of the highest priority, for any priorities and in  *)
(* whatever order the jobs came.                                           *)
THEOREM DequeueTakesTheHighest == QSpec => NoPriorityInversion
<1>1. QInv /\ [QNext]_qvars =>
        [\A j \in handed' \ handed :
           \A k \in DOMAIN jobs' :
             jobs'[k].status = "Pending" => jobs'[k].priority <= j.priority]_qvars
  <2> SUFFICES ASSUME QInv, QNext, NEW j \in handed' \ handed, NEW k \in DOMAIN jobs',
                      jobs'[k].status = "Pending"
               PROVE  jobs'[k].priority <= j.priority
    OBVIOUS
  <2>1. PICK m \in DOMAIN jobs : Dequeue(m)
    BY DEF QNext, JobNew, PushBack, UpdateStatus, Remove, RetryFailed, ResumeAll, SetAutoResume,
           ClearCompleted
  <2>2. j = [jobs[m] EXCEPT !.status = "Running"] /\ jobs[m] \in JobRec /\ chosen(m)
    BY <2>1 DEF Dequeue, QInv, QTypeOK
  <2>3. k \in DOMAIN jobs /\ jobs'[k] = jobs[k] /\ jobs[k] \in JobRec
    BY <2>1 DEF Dequeue, Keep, QInv, QTypeOK
  <2>4. j.priority = jobs[m].priority
    BY <2>2 DEF JobRec, JobWith
  <2>5. jobs[k].priority \in Nat /\ jobs[m].priority \in Nat
    BY <2>2, <2>3, QueueAssumption DEF JobRec, JobWith, JobPriority
  <2> QED BY <2>2, <2>3, <2>4, <2>5 DEF chosen, PendingStamps
<1> QED BY <1>1, QueueInvariant, PTL DEF QSpec, NoPriorityInversion
=============================================================================
