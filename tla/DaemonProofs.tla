---------------------------- MODULE DaemonProofs ----------------------------
(***************************************************************************)
(* Proofs about Daemon: where a live child may be, that the daemon         *)
(* implements JobService, what it holds and has in hand, and that a wedge  *)
(* is for good.  What the queue and the supervisor keep is taken from      *)
(* QueueManagerProofs and ProcessSupervisorProofs: the daemon is shown to  *)
(* do nothing to them that they do not allow.                              *)
(***************************************************************************)
EXTENDS Daemon, TLAPS

(* The part of the types the children need. *)
ChildTypes ==
  /\ os \in [Pids -> S!OsState]
  /\ tracked \in [Plugins -> SUBSET Pids]
  /\ proc \in Pids \cup {NoPid}
  /\ pc \in Places

(* What the supervisor tracks at each point of execute_next: nothing before  *)
(* the child is tracked and nothing but the child from then on.            *)
TracksTheJob ==
  /\ pc \in {"select", "lagged", "spawn", "track"} => S!AllTracked = {}
  /\ pc \in {"track", "poll", "cleanup"} => cur.plugin \in Plugins /\ proc \in Pids
  /\ pc \in {"poll", "cleanup"} =>
       /\ tracked[cur.plugin] = {proc}
       /\ \A pl \in Plugins : pl # cur.plugin => tracked[pl] = {}

ChildInv == ChildTypes /\ TracksTheJob /\ LiveProcessIsInHand

-----------------------------------------------------------------------------
LEMMA NothingTracked ==
  S!AllTracked = {} <=> \A pl \in Plugins : tracked[pl] = {}
BY DEF S!AllTracked

LEMMA ChildInit == DInit => ChildInv
<1> SUFFICES ASSUME DInit PROVE ChildInv
  OBVIOUS
<1>1. /\ os = [p \in Pids |-> "unused"] /\ tracked = [pl \in Plugins |-> {}]
      /\ pc = "select" /\ proc = NoPid
  BY DEF DInit, S!SInit
<1>2. ChildTypes
  BY <1>1 DEF ChildTypes, S!OsState, Places
<1>3. TracksTheJob
  BY <1>1, NothingTracked DEF TracksTheJob
<1>4. LiveProcessIsInHand
  BY <1>1 DEF LiveProcessIsInHand, S!Live
<1> QED BY <1>2, <1>3, <1>4 DEF ChildInv

(* A step that creates no child: what lives has lived before, and the       *)
(* executor stays where it may have a child in hand, or its child is dead. *)
LEMMA NoChildBorn ==
  ASSUME ChildInv, ChildTypes', TracksTheJob',
         \A p \in Pids : S!Live(p)' => S!Live(p),
         \/ /\ proc' = proc
            /\ pc' = pc \/ pc' \in {"poll", "cleanup", "dead"}
         \/ \A p \in Pids : ~ S!Live(p)'
  PROVE  ChildInv'
BY DEF ChildInv, LiveProcessIsInHand

(* What the supervisor's calls do to the kernel's processes. *)
LEMMA Terminates ==
  ASSUME ChildTypes, NEW T, S!terminate(T)
  PROVE  /\ os' \in [Pids -> S!OsState]
         /\ \A p \in Pids : S!Live(p)' => S!Live(p) /\ p \notin T
BY DEF ChildTypes, S!OsState, S!terminate, S!Live

LEMMA Spares ==
  ASSUME ChildTypes, NEW T, S!try_wait(T) \/ S!stop(T) \/ S!cont(T)
  PROVE  /\ os' \in [Pids -> S!OsState]
         /\ \A p \in Pids : S!Live(p)' <=> S!Live(p)
BY DEF ChildTypes, S!OsState, S!try_wait, S!stop, S!cont, S!Live

-----------------------------------------------------------------------------
(* The executor between jobs. *)

(* A step that changes neither the executor's place nor what is tracked. *)
LEMMA SamePlace ==
  ASSUME ChildInv, UNCHANGED <<tracked, pc, cur, proc>>, os' \in [Pids -> S!OsState],
         \A p \in Pids : S!Live(p)' => S!Live(p)
  PROVE  ChildInv'
<1>1. ChildTypes'
  BY DEF ChildInv, ChildTypes
<1>2. TracksTheJob'
  BY DEF ChildInv, TracksTheJob, S!AllTracked
<1> QED BY <1>1, <1>2, NoChildBorn

LEMMA KernelStep == ASSUME ChildInv, Kernel PROVE ChildInv'
<1>1. os' \in [Pids -> S!OsState] /\ tracked' = tracked
  BY DEF Kernel, S!Kernel, S!Exit, S!Recycle, ChildInv, ChildTypes, S!OsState
<1>2. \A p \in Pids : S!Live(p)' => S!Live(p)
  BY DEF Kernel, S!Kernel, S!Exit, S!Recycle, ChildInv, ChildTypes, S!Live
<1>3. UNCHANGED <<pc, cur, proc>>
  BY DEF Kernel, xvars
<1> QED BY <1>1, <1>2, <1>3, SamePlace

LEMMA RecvStep == ASSUME ChildInv, ExecRecv PROVE ChildInv'
<1>1. UNCHANGED <<pc, cur, proc>> /\ pc = "select"
  BY DEF ExecRecv, xvars
<1>2. S!AllTracked = {}
  BY <1>1 DEF ChildInv, TracksTheJob
<1> DEFINE e == B!oldest(bus, "executor")
<1>3. \/ \E j \in listed(e[2]) : S!StopAll(j.plugin) \/ S!ContAll(j.plugin) \/ S!Cleanup(j.plugin)
      \/ UNCHANGED svars
  BY DEF ExecRecv, pause_job, resume_job, cancel_job
<1>4. CASE UNCHANGED svars
  BY <1>1, <1>4, SamePlace DEF svars, ChildInv, ChildTypes, S!Live
<1>5. ASSUME NEW j \in listed(e[2]), S!StopAll(j.plugin) \/ S!ContAll(j.plugin)
      PROVE  ChildInv'
  <2>1. S!stop(tracked[j.plugin]) \/ S!cont(tracked[j.plugin])
    BY <1>5 DEF S!StopAll, S!ContAll
  <2>2. tracked' = tracked
    BY <1>5 DEF S!StopAll, S!ContAll
  <2> QED BY <1>1, <2>1, <2>2, Spares, SamePlace DEF ChildInv
<1>6. ASSUME NEW j \in listed(e[2]), S!Cleanup(j.plugin)
      PROVE  ChildInv'
  <2>1. S!terminate(tracked[j.plugin]) /\ tracked' = [tracked EXCEPT ![j.plugin] = {}]
    BY <1>6 DEF S!Cleanup
  <2>2. tracked' = tracked
    BY <1>2, <2>1, NothingTracked DEF ChildInv, ChildTypes
  <2> QED BY <1>1, <2>1, <2>2, Terminates, SamePlace DEF ChildInv
<1> QED BY <1>3, <1>4, <1>5, <1>6

LEMMA LaggedStep == ASSUME ChildInv, ExecLagged PROVE ChildInv'
<1>1. /\ pc = "select" /\ pc' = "lagged"
      /\ UNCHANGED <<os, tracked, cur, proc>>
  BY DEF ExecLagged, svars
<1>2. ChildTypes' /\ TracksTheJob'
  BY <1>1 DEF ChildInv, ChildTypes, TracksTheJob, S!AllTracked, Places
<1>3. LiveProcessIsInHand'
  BY <1>1 DEF ChildInv, LiveProcessIsInHand, S!Live
<1> QED BY <1>2, <1>3 DEF ChildInv

(* all_running in the sleep branch, with or without a job to start. *)
LEMMA SleepStep ==
  ASSUME ChildInv, pc \in {"select", "lagged"}, S!AllRunning, proc' = proc,
         pc' \in {"select", "spawn"}
  PROVE  ChildInv'
<1>1. S!try_wait(S!AllTracked) /\ tracked' = tracked
  BY DEF S!AllRunning
<1>2. os' \in [Pids -> S!OsState] /\ \A p \in Pids : S!Live(p)' <=> S!Live(p)
  BY <1>1, Spares DEF ChildInv
<1>3. ChildTypes' /\ TracksTheJob'
  BY <1>1, <1>2 DEF ChildInv, ChildTypes, TracksTheJob, S!AllTracked, Places
<1>4. \A p \in Pids : ~ S!Live(p)
  BY DEF ChildInv, LiveProcessIsInHand
<1> QED BY <1>2, <1>3, <1>4, NoChildBorn

-----------------------------------------------------------------------------
(* execute_next. *)

(* A step that only leaves for a place where nothing is asked of the         *)
(* supervisor, or stays with the same child.                               *)
LEMMA GoOn ==
  ASSUME ChildInv, UNCHANGED <<os, tracked, cur, proc>>,
         \/ pc' = "dead" /\ pc \in {"spawn", "poll"}
         \/ pc' \in {"poll", "cleanup"} /\ pc = "poll"
  PROVE  ChildInv'
<1>1. ChildTypes' /\ TracksTheJob'
  BY DEF ChildInv, ChildTypes, TracksTheJob, S!AllTracked, Places
<1>2. LiveProcessIsInHand'
  BY DEF ChildInv, LiveProcessIsInHand, S!Live
<1> QED BY <1>1, <1>2 DEF ChildInv

(* A return before a child is started. *)
LEMMA ReturnsBefore ==
  ASSUME ChildInv, pc = "spawn", Return, UNCHANGED svars PROVE ChildInv'
<1>1. pc' = "select" /\ proc' = NoPid /\ UNCHANGED <<os, tracked>>
  BY DEF Return, svars
<1>2. ChildTypes' /\ TracksTheJob'
  BY <1>1 DEF ChildInv, ChildTypes, TracksTheJob, S!AllTracked, Places
<1>3. \A p \in Pids : ~ S!Live(p)'
  BY <1>1 DEF ChildInv, LiveProcessIsInHand, S!Live
<1> QED BY <1>2, <1>3, NoChildBorn

LEMMA SpawnFailsStep == ASSUME ChildInv, SpawnFails PROVE ChildInv'
<1>1. pc = "spawn" /\ UNCHANGED svars /\ UNCHANGED <<os, tracked>>
  BY DEF SpawnFails, svars
<1>2. CASE Return
  BY <1>1, <1>2, ReturnsBefore
<1>3. CASE Panic
  BY <1>1, <1>3, GoOn DEF Panic
<1> QED BY <1>2, <1>3 DEF SpawnFails

LEMMA SpawnStartsStep == ASSUME ChildInv, NEW p \in Pids, SpawnStarts(p) PROVE ChildInv'
<1>1. /\ pc = "spawn" /\ pc' = "track" /\ proc' = p /\ cur' = cur /\ tracked' = tracked
      /\ os' = [os EXCEPT ![p] = "running"] /\ cur.plugin \in Plugins
  BY DaemonAssumption DEF SpawnStarts, S!Start
<1>2. ChildTypes' /\ TracksTheJob'
  BY <1>1 DEF ChildInv, ChildTypes, TracksTheJob, S!AllTracked, Places, S!OsState
<1>3. \A q \in Pids : S!Live(q)' => q = p
  BY <1>1 DEF ChildInv, ChildTypes, LiveProcessIsInHand, S!Live
<1> QED BY <1>1, <1>2, <1>3 DEF ChildInv, LiveProcessIsInHand

LEMMA SpawnTracksStep == ASSUME ChildInv, SpawnTracks PROVE ChildInv'
<1>1. /\ pc = "track" /\ pc' = "poll" /\ UNCHANGED <<os, cur, proc>>
      /\ tracked' = [tracked EXCEPT ![cur.plugin] = @ \cup {proc}]
  BY DEF SpawnTracks, S!Track
<1>2. /\ cur.plugin \in Plugins /\ proc \in Pids
      /\ \A pl \in Plugins : tracked[pl] = {}
  BY <1>1, NothingTracked DEF ChildInv, TracksTheJob
<1>3. ChildTypes'
  BY <1>1, <1>2 DEF ChildInv, ChildTypes, Places
<1>4. TracksTheJob'
  BY <1>1, <1>2 DEF ChildInv, ChildTypes, TracksTheJob
<1> QED BY <1>1, <1>3, <1>4, NoChildBorn DEF S!Live

LEMMA TimeoutStep == ASSUME ChildInv, PollTimeout PROVE ChildInv'
<1>1. pc = "poll" /\ pc' \in {"cleanup", "dead"} /\ UNCHANGED <<cur, proc, tracked>>
      /\ S!terminate({proc})
  BY DEF PollTimeout, S!Terminate, GoTo, Panic
<1>2. os' \in [Pids -> S!OsState] /\ \A p \in Pids : S!Live(p)' => S!Live(p)
  BY <1>1, Terminates DEF ChildInv
<1>3. ChildTypes' /\ TracksTheJob'
  BY <1>1, <1>2 DEF ChildInv, ChildTypes, TracksTheJob, Places
<1> QED BY <1>1, <1>2, <1>3, NoChildBorn

(* The child has exited. *)
LEMMA GoneStep == ASSUME ChildInv, PollSuccess \/ PollFailure PROVE ChildInv'
<1>1. pc = "poll" /\ pc' \in {"cleanup", "dead", "await_pm"} /\ UNCHANGED <<cur, proc, tracked>>
      /\ S!Gone(proc) /\ S!try_wait({proc})
  BY DEF PollSuccess, PollFailure, S!TryWait, GoTo, Panic
<1>2. os' \in [Pids -> S!OsState] /\ \A p \in Pids : S!Live(p)' <=> S!Live(p)
  BY <1>1, Spares DEF ChildInv
<1>3. ChildTypes' /\ TracksTheJob'
  BY <1>1, <1>2 DEF ChildInv, ChildTypes, TracksTheJob, Places
<1>4. \A p \in Pids : ~ S!Live(p)
  BY <1>1 DEF ChildInv, LiveProcessIsInHand, S!Gone, S!Live
<1> QED BY <1>2, <1>3, <1>4, NoChildBorn

LEMMA CleanupStep == ASSUME ChildInv, ExecCleanup PROVE ChildInv'
<1>1. /\ pc = "cleanup" /\ pc' = "select" /\ proc' = NoPid
      /\ S!terminate(tracked[cur.plugin])
      /\ tracked' = [tracked EXCEPT ![cur.plugin] = {}]
  BY DEF ExecCleanup, Return, S!Cleanup
<1>2. /\ cur.plugin \in Plugins /\ tracked[cur.plugin] = {proc}
      /\ \A pl \in Plugins : pl # cur.plugin => tracked[pl] = {}
  BY <1>1 DEF ChildInv, TracksTheJob
<1>3. os' \in [Pids -> S!OsState]
      /\ \A p \in Pids : S!Live(p)' => S!Live(p) /\ p # proc
  BY <1>1, <1>2, Terminates DEF ChildInv
<1>4. \A pl \in Plugins : tracked'[pl] = {}
  BY <1>1, <1>2 DEF ChildInv, ChildTypes
<1>5. ChildTypes'
  BY <1>1, <1>3 DEF ChildInv, ChildTypes, Places
<1>6. TracksTheJob'
  BY <1>1, <1>4 DEF TracksTheJob, S!AllTracked
<1>7. \A p \in Pids : ~ S!Live(p)'
  BY <1>3 DEF ChildInv, LiveProcessIsInHand
<1> QED BY <1>5, <1>6, <1>7, NoChildBorn

LEMMA ExecutorStep == ASSUME ChildInv, Executor PROVE ChildInv'
<1>1. CASE ExecRecv
  BY <1>1, RecvStep
<1>2. CASE ExecLagged
  BY <1>2, LaggedStep
<1>3. ASSUME NEW k \in DOMAIN jobs, ExecStart(k) PROVE ChildInv'
  BY <1>3, SleepStep DEF ExecStart
<1>4. CASE ExecIdle
  BY <1>4, SleepStep DEF ExecIdle
<1>5. CASE PluginMissing
  BY <1>5, ReturnsBefore DEF PluginMissing
<1>6. CASE SpawnFails
  BY <1>6, SpawnFailsStep
<1>7. ASSUME NEW p \in Pids, SpawnStarts(p) PROVE ChildInv'
  BY <1>7, SpawnStartsStep
<1>8. CASE SpawnTracks
  BY <1>8, SpawnTracksStep
<1>9. CASE PollTimeout
  BY <1>9, TimeoutStep
<1>10. CASE PollSuccess \/ PollFailure
  BY <1>10, GoneStep
<1>11. CASE PollRunning
  BY <1>11, GoOn DEF PollRunning, svars
<1>12. CASE PollError
  BY <1>12, GoOn DEF PollError, svars, GoTo, Panic
<1>13. CASE ExecCleanup
  BY <1>13, CleanupStep
<1> QED
  BY <1>1, <1>2, <1>3, <1>4, <1>5, <1>6, <1>7, <1>8, <1>9, <1>10, <1>11, <1>12, <1>13
  DEF Executor

LEMMA ChildNext == ChildInv /\ [DNext]_dvars => ChildInv'
<1> SUFFICES ASSUME ChildInv, [DNext]_dvars PROVE ChildInv'
  OBVIOUS
<1>1. CASE UNCHANGED <<svars, xvars>>
  BY <1>1, SamePlace DEF svars, xvars, ChildInv, ChildTypes, S!Live
<1>2. CASE Enqueue \/ OtherEvent \/ MainRecv \/ MainLagged \/ CtrlC \/ UNCHANGED dvars
  BY <1>1, <1>2 DEF Enqueue, OtherEvent, MainRecv, MainLagged, CtrlC, dvars
<1>3. ASSUME NEW kind \in Control, NEW id \in 0 .. MaxJobs, IpcCommand(kind, id)
      PROVE  ChildInv'
  BY <1>1, <1>3 DEF IpcCommand
<1>4. CASE Kernel
  BY <1>4, KernelStep
<1>5. CASE Executor
  BY <1>5, ExecutorStep
<1> QED BY <1>2, <1>3, <1>4, <1>5 DEF DNext

(* Where children and handles may be, at each point of execute_next. *)
THEOREM ChildInvariant == DSafetySpec => []ChildInv
<1> QED BY ChildInit, ChildNext, PTL DEF DSafetySpec

(* However jobs end, whatever is commanded and wherever the task panics, a  *)
(* live child is the one of the job in hand.                               *)
THEOREM LiveProcessesAreInHand == DSafetySpec => []LiveProcessIsInHand
<1>1. ChildInv => LiveProcessIsInHand
  BY DEF ChildInv
<1> QED BY <1>1, ChildInvariant, PTL

(* The supervisor tracks nothing while the executor reads commands. *)
THEOREM CommandsFindNoProcess == DSafetySpec => []ControlFindsNoProcess
<1>1. ChildInv => ControlFindsNoProcess
  BY DEF ChildInv, TracksTheJob, ControlFindsNoProcess
<1> QED BY <1>1, ChildInvariant, PTL

-----------------------------------------------------------------------------
(* The queue. *)

QP == INSTANCE QueueManagerProofs

(* Daemon's own instance of the queue and the one of its proofs. *)
LEMMA SameQueue ==
  /\ Q!QInit => QP!QInit
  /\ \A pl, pr : Q!JobNew(pl, pr) => QP!JobNew(pl, pr)
  /\ \A j : Q!PushBack(j) => QP!PushBack(j)
  /\ \A k : Q!Dequeue(k) => QP!Dequeue(k)
  /\ \A i, st : Q!UpdateStatus(i, st) => QP!UpdateStatus(i, st)
  /\ Q!QueuedIds = QP!QueuedIds /\ Q!HandedIds = QP!HandedIds
  /\ \A i : Q!find(i) = QP!find(i)
<1>1. Q!QInit => QP!QInit
  BY DEF Q!QInit, QP!QInit
<1>2. \A pl, pr : Q!JobNew(pl, pr) => QP!JobNew(pl, pr)
  BY DEF Q!JobNew, QP!JobNew, Q!NewJob, QP!NewJob
<1>3. \A j : Q!PushBack(j) => QP!PushBack(j)
  BY DEF Q!PushBack, QP!PushBack
<1>4. \A k : Q!Dequeue(k) => QP!Dequeue(k)
  BY DEF Q!Dequeue, QP!Dequeue, Q!chosen, QP!chosen, Q!PendingStamps, QP!PendingStamps,
         Q!Keep, QP!Keep
<1>5. \A i : Q!find(i) = QP!find(i)
  BY DEF Q!find, QP!find
<1>6. \A i, st : Q!UpdateStatus(i, st) => QP!UpdateStatus(i, st)
  BY <1>5 DEF Q!UpdateStatus, QP!UpdateStatus, Q!set_status, QP!set_status,
              Q!can_transition, QP!can_transition
<1>7. Q!QueuedIds = QP!QueuedIds /\ Q!HandedIds = QP!HandedIds
  BY DEF Q!QueuedIds, QP!QueuedIds, Q!HandedIds, QP!HandedIds
<1> QED BY <1>1, <1>2, <1>3, <1>4, <1>5, <1>6, <1>7

(* What the invariant of the queue says in Daemon's words. *)
LEMMA QueueFacts ==
  ASSUME QP!QInv
  PROVE  /\ \A k \in DOMAIN jobs :
              /\ jobs[k].id \in Nat \ {0} /\ jobs[k].plugin \in Plugins
              /\ jobs[k].status \in JobStatus
              /\ \A m \in DOMAIN jobs : jobs[m].id = jobs[k].id => m = k
         /\ \A k \in DOMAIN jobs : k \in Nat /\ k < tail
         /\ \A j \in created :
              /\ j.status = "Pending" /\ j.id \in Nat \ {0}
              /\ j.id \notin Q!QueuedIds /\ j.id \notin Q!HandedIds
         /\ Q!QueuedIds \cap Q!HandedIds = {}
         /\ Q!QueuedIds \cup Q!HandedIds \subseteq 1 .. (next_id - 1)
         /\ next_id \in Nat /\ tail \in Nat
<1>1. QP!QTypeOK /\ QP!OneJobPerId /\ QP!IdsPartitioned /\ QP!CreatedFresh
  BY DEF QP!QInv, QP!EachJobInOnePlace
<1>2. \A k \in DOMAIN jobs : jobs[k] \in QP!JobRec
  BY <1>1 DEF QP!QTypeOK
<1>3. \A j \in created : j \in QP!JobRec
  BY <1>1 DEF QP!QTypeOK
<1>4. \A j \in QP!JobRec : j.id \in Nat \ {0} /\ j.plugin \in Plugins /\ j.status \in JobStatus
  BY DEF QP!JobRec, QP!JobWith, QP!JobStatus, JobStatus
<1>5. \A k \in DOMAIN jobs : \A m \in DOMAIN jobs : jobs[m].id = jobs[k].id => m = k
  BY <1>1 DEF QP!OneJobPerId
<1>6. /\ next_id \in Nat /\ tail \in Nat
      /\ \A k \in DOMAIN jobs : k \in Nat /\ k < tail
  BY <1>1 DEF QP!QTypeOK
<1>7. /\ Q!QueuedIds \cap Q!HandedIds = {}
      /\ Q!QueuedIds \cup Q!HandedIds \subseteq 1 .. (next_id - 1)
      /\ \A j \in created : j.id \notin Q!QueuedIds /\ j.id \notin Q!HandedIds
  BY <1>1, SameQueue DEF QP!IdsPartitioned, QP!Issued, QP!CreatedIds
<1>8. \A j \in created : j.status = "Pending"
  BY <1>1 DEF QP!CreatedFresh
<1> QED BY <1>2, <1>3, <1>4, <1>5, <1>6, <1>7, <1>8

(* The job in hand has been handed out; there is none between two jobs.      *)
InHandIsHanded ==
  /\ cur.id = 0 \/ cur.id \in Q!HandedIds
  /\ pc \in {"select", "lagged"} => cur.id = 0

ServiceInv == QP!QInv /\ InHandIsHanded

(* What a step of the daemon does to the queue and to the job in hand. *)
Keeps == UNCHANGED qvars /\ (cur' = cur \/ cur' = NoJob)
Submits ==
  /\ cur' = cur
  /\ \/ \E pl \in Plugins, pr \in Priorities : Q!JobNew(pl, pr)
     \/ \E j \in created : Q!PushBack(j)
Commands ==
  /\ cur' = cur
  /\ \E id \in Q!QueuedIds, st \in {"Paused", "Running", "Cancelled"} : Q!UpdateStatus(id, st)
Begins ==
  \E k \in DOMAIN jobs : Q!Dequeue(k) /\ cur.id = 0 /\ cur'.id = jobs[k].id
BetweenJobs ==
  pc' \in {"select", "lagged"} =>
    cur' = NoJob \/ (cur' = cur /\ pc \in {"select", "lagged"})
QueueStep == (Keeps \/ Submits \/ Commands \/ Begins) /\ BetweenJobs

LEMMA ResultsMissTheQueue ==
  ASSUME ServiceInv, NEW st, update_status(cur.id, st) PROVE UNCHANGED qvars
<1>1. cur.id \notin Q!QueuedIds
  BY QueueFacts DEF ServiceInv, InHandIsHanded
<1> QED BY <1>1 DEF update_status

LEMMA CommandsStep == ASSUME ServiceInv, ExecRecv PROVE QueueStep
<1> DEFINE e == B!oldest(bus, "executor")
<1>1. cur' = cur /\ pc' = pc /\ pc = "select"
  BY DEF ExecRecv, xvars
<1>2. \/ \E st \in {"Paused", "Running", "Cancelled"} : update_status(e[2], st)
      \/ UNCHANGED qvars
  BY DEF ExecRecv, pause_job, resume_job, cancel_job
<1>3. Keeps \/ Commands
  BY <1>1, <1>2 DEF update_status, Keeps, Commands
<1> QED BY <1>1, <1>3 DEF QueueStep, BetweenJobs

LEMMA DaemonSteps == ASSUME ServiceInv, [DNext]_dvars PROVE QueueStep
<1>1. CASE Enqueue
  <2>1. cur' = cur /\ pc' = pc
    BY <1>1 DEF Enqueue, xvars
  <2>2. Submits
    BY <1>1, <2>1 DEF Enqueue, Submits
  <2> QED BY <2>1, <2>2 DEF QueueStep, BetweenJobs
<1>2. CASE UNCHANGED <<qvars, xvars>>
  BY <1>2 DEF xvars, QueueStep, Keeps, BetweenJobs
<1>3. CASE Kernel \/ OtherEvent \/ MainRecv \/ MainLagged \/ CtrlC \/ UNCHANGED dvars
  BY <1>2, <1>3 DEF Kernel, OtherEvent, MainRecv, MainLagged, CtrlC, dvars
<1>4. ASSUME NEW kind \in Control, NEW id \in 0 .. MaxJobs, IpcCommand(kind, id)
      PROVE  QueueStep
  BY <1>2, <1>4 DEF IpcCommand
<1>5. CASE Executor
  <2>1. CASE ExecRecv
    BY <2>1, CommandsStep
  <2>2. CASE ExecLagged \/ ExecIdle
    BY <2>2 DEF ExecLagged, ExecIdle, QueueStep, Keeps, BetweenJobs
  <2>3. ASSUME NEW k \in DOMAIN jobs, ExecStart(k) PROVE QueueStep
    <3>1. Q!Dequeue(k) /\ cur'.id = jobs[k].id /\ pc' = "spawn" /\ cur.id = 0
      BY <2>3 DEF ExecStart, ServiceInv, InHandIsHanded
    <3> QED BY <3>1 DEF QueueStep, Begins, BetweenJobs
  <2>4. CASE PluginMissing \/ SpawnFails \/ PollTimeout \/ PollSuccess \/ PollError
    <3>1. UNCHANGED qvars
      BY <2>4, ResultsMissTheQueue
      DEF PluginMissing, SpawnFails, PollTimeout, PollSuccess, PollError
    <3>2. cur' = NoJob \/ (cur' = cur /\ pc' \in {"cleanup", "dead"})
      BY <2>4 DEF PluginMissing, SpawnFails, PollTimeout, PollSuccess, PollError, Return,
                  Panic, GoTo
    <3> QED BY <3>1, <3>2 DEF QueueStep, Keeps, BetweenJobs
  <2>5. ASSUME NEW p \in Pids, SpawnStarts(p) PROVE QueueStep
    BY <2>5 DEF SpawnStarts, QueueStep, Keeps, BetweenJobs
  <2>6. CASE SpawnTracks \/ PollFailure \/ PollRunning
    BY <2>6 DEF SpawnTracks, PollFailure, PollRunning, GoTo, QueueStep, Keeps, BetweenJobs
  <2>7. CASE ExecCleanup
    BY <2>7 DEF ExecCleanup, Return, QueueStep, Keeps, BetweenJobs
  <2> QED BY <1>5, <2>1, <2>2, <2>3, <2>4, <2>5, <2>6, <2>7 DEF Executor
<1> QED BY <1>1, <1>3, <1>4, <1>5 DEF DNext


(* The daemon calls the queue's methods and does nothing else to it. *)
LEMMA QueueIsCalled ==
  ASSUME ServiceInv, QueueStep PROVE [QP!QNext]_(QP!qvars) /\ QP!QInv'
<1>1. [QP!QNext]_(QP!qvars)
  <2>1. CASE Keeps
    BY <2>1 DEF Keeps, qvars, QP!qvars
  <2>2. CASE Submits
    BY <2>2, SameQueue DEF Submits, QP!QNext
  <2>3. CASE Commands
    <3>1. PICK id \in Q!QueuedIds, st \in {"Paused", "Running", "Cancelled"} :
            Q!UpdateStatus(id, st)
      BY <2>3 DEF Commands
    <3>2. id \in QP!Issued /\ st \in QP!JobStatus
      BY QueueFacts DEF ServiceInv, QP!Issued, QP!JobStatus
    <3> QED BY <3>1, <3>2, SameQueue DEF QP!QNext
  <2>4. CASE Begins
    BY <2>4, SameQueue DEF Begins, QP!QNext
  <2> QED BY <2>1, <2>2, <2>3, <2>4 DEF QueueStep
<1>2. QP!QueueAssumption
  BY DaemonAssumption DEF QP!QueueAssumption, QP!JobPriority, JobPriority
<1> QED BY <1>1, <1>2, QP!QTypeStep, QP!OnePlaceStep, QP!FreshStep, QP!AccountStep
        DEF ServiceInv, QP!QInv

(* What a command does to the queue: one entry gets another status, or the   *)
(* same.                                                                   *)
LEMMA CommandFacts ==
  ASSUME QP!QInv, NEW id \in Q!QueuedIds, NEW st \in {"Paused", "Running", "Cancelled"},
         Q!UpdateStatus(id, st)
  PROVE  \E k \in DOMAIN jobs :
           /\ jobs[k].id = id
           /\ DOMAIN jobs' = DOMAIN jobs
           /\ \A m \in DOMAIN jobs \ {k} : jobs'[m] = jobs[m]
           /\ jobs'[k].id = id /\ jobs'[k].status \in {jobs[k].status, st}
           /\ handed' = handed
<1>1. PICK k \in Q!find(id) : jobs' = [jobs EXCEPT ![k] = Q!set_status(jobs[k], st)]
  BY DEF Q!UpdateStatus
<1>2. k \in DOMAIN jobs /\ jobs[k].id = id
  BY DEF Q!find
<1>3. jobs[k] \in QP!JobRec
  BY <1>2 DEF QP!QInv, QP!QTypeOK
<1> DEFINE new == Q!set_status(jobs[k], st)
<1>4. new.id = id /\ new.status \in {jobs[k].status, st}
  BY <1>2, <1>3 DEF Q!set_status, QP!JobRec, QP!JobWith
<1>5. jobs' = [jobs EXCEPT ![k] = new]
  BY <1>1
<1> HIDE DEF new
<1>6. handed' = handed
  BY DEF Q!UpdateStatus
<1> QED BY <1>2, <1>4, <1>5, <1>6

(* What dequeue does. *)
LEMMA BeginFacts ==
  ASSUME QP!QInv, NEW k \in DOMAIN jobs, Q!Dequeue(k)
  PROVE  /\ jobs[k].status = "Pending"
         /\ DOMAIN jobs' = DOMAIN jobs \ {k}
         /\ \A m \in DOMAIN jobs' : jobs'[m] = jobs[m]
         /\ Q!HandedIds' = Q!HandedIds \cup {jobs[k].id}
<1>1. jobs[k].status = "Pending" /\ jobs' = [m \in DOMAIN jobs \ {k} |-> jobs[m]]
  BY DEF Q!Dequeue, Q!chosen, Q!PendingStamps, Q!Keep
<1>2. jobs[k] \in QP!JobRec
  BY DEF QP!QInv, QP!QTypeOK
<1>3. [jobs[k] EXCEPT !.status = "Running"].id = jobs[k].id
  BY <1>2 DEF QP!JobRec, QP!JobWith
<1>4. handed' = handed \cup {[jobs[k] EXCEPT !.status = "Running"]}
  BY DEF Q!Dequeue
<1>5. Q!HandedIds' = Q!HandedIds \cup {jobs[k].id}
  BY <1>3, <1>4 DEF Q!HandedIds
<1> QED BY <1>1, <1>5

LEMMA SubmitFacts ==
  ASSUME QP!QInv, NEW j \in created, Q!PushBack(j)
  PROVE  /\ tail \notin DOMAIN jobs
         /\ DOMAIN jobs' = DOMAIN jobs \cup {tail} /\ jobs'[tail] = j
         /\ \A m \in DOMAIN jobs : jobs'[m] = jobs[m]
         /\ handed' = handed
BY QueueFacts DEF Q!PushBack

LEMMA ServiceInitInv == DInit => ServiceInv
<1> SUFFICES ASSUME DInit PROVE ServiceInv
  OBVIOUS
<1>1. QP!QInv
  <2>1. QP!QueueAssumption
    BY DaemonAssumption DEF QP!QueueAssumption, QP!JobPriority, JobPriority
  <2> QED BY <2>1, SameQueue, QP!QInitInv DEF DInit
<1>2. cur.id = 0 /\ DOMAIN jobs = {}
  BY DEF DInit, NoJob, Q!QInit
<1> QED BY <1>1, <1>2 DEF ServiceInv, InHandIsHanded

LEMMA ServiceInvStep == ASSUME ServiceInv, QueueStep PROVE ServiceInv'
<1>1. QP!QInv'
  BY QueueIsCalled
<1>2. NoJob.id = 0
  BY DEF NoJob
<1>3. InHandIsHanded'
  <2>1. CASE Keeps
    <3>1. Q!HandedIds' = Q!HandedIds
      BY <2>1 DEF Keeps, qvars, Q!HandedIds
    <3> QED BY <2>1, <3>1, <1>2
            DEF Keeps, ServiceInv, InHandIsHanded, QueueStep, BetweenJobs
  <2>2. CASE Submits
    <3>1. handed' = handed
      BY <2>2 DEF Submits, Q!JobNew, Q!PushBack
    <3> QED BY <2>2, <3>1, <1>2
            DEF Submits, ServiceInv, InHandIsHanded, QueueStep, BetweenJobs, Q!HandedIds
  <2>3. CASE Commands
    <3>1. handed' = handed
      BY <2>3 DEF Commands, Q!UpdateStatus
    <3> QED BY <2>3, <3>1, <1>2
            DEF Commands, ServiceInv, InHandIsHanded, QueueStep, BetweenJobs, Q!HandedIds
  <2>4. CASE Begins
    <3>1. PICK k \in DOMAIN jobs : Q!Dequeue(k) /\ cur.id = 0 /\ cur'.id = jobs[k].id
      BY <2>4 DEF Begins
    <3>2. cur'.id \in Q!HandedIds'
      BY <3>1, BeginFacts DEF ServiceInv
    <3>3. pc' \in {"select", "lagged"} => cur'.id = 0
      BY <3>1, <1>2 DEF QueueStep, BetweenJobs
    <3> QED BY <3>2, <3>3 DEF InHandIsHanded
  <2> QED BY <2>1, <2>2, <2>3, <2>4 DEF QueueStep
<1> QED BY <1>1, <1>3 DEF ServiceInv

-----------------------------------------------------------------------------
(* The refinement. *)

Waiting == QueuedWith({"Pending"})
Shelved == QueuedWith(JobStatus \ {"Pending"})

LEMMA ServiceStep == ASSUME ServiceInv, QueueStep PROVE [Service!JNext]_(Service!jvars)
<1>q. QP!QInv
  BY DEF ServiceInv
<1>0. InHand \subseteq Q!HandedIds
  BY DEF ServiceInv, InHandIsHanded, InHand
<1>n. NoJob.id = 0
  BY DEF NoJob
<1>1. CASE Keeps
  <2>1. Waiting' = Waiting /\ Shelved' = Shelved /\ Q!HandedIds' = Q!HandedIds
    BY <1>1 DEF Keeps, qvars, Waiting, Shelved, QueuedWith, Q!HandedIds
  <2>2. InHand' = InHand \/ InHand' = {}
    BY <1>1, <1>n DEF Keeps, InHand
  <2>3. CASE InHand' = InHand
    BY <2>1, <2>3 DEF Service!jvars, Waiting, Shelved
  <2>4. CASE InHand' = {}
    <3>1. Service!End
      BY <2>1, <2>4, <1>0 DEF Service!End, Waiting, Shelved
    <3> QED BY <3>1 DEF Service!JNext
  <2> QED BY <2>2, <2>3, <2>4
<1>2. CASE Submits
  <2>1. InHand' = InHand
    BY <1>2 DEF Submits, InHand
  <2>2. ASSUME NEW pl \in Plugins, NEW pr \in Priorities, Q!JobNew(pl, pr)
        PROVE  UNCHANGED Service!jvars
    BY <2>1, <2>2 DEF Q!JobNew, Service!jvars, QueuedWith, Q!HandedIds
  <2>3. ASSUME NEW j \in created, Q!PushBack(j) PROVE Service!JNext
    <3>1. j.status = "Pending" /\ j.id \notin Q!QueuedIds /\ j.id \notin Q!HandedIds
      BY <1>q, QueueFacts
    <3>2. Waiting' = Waiting \cup {j.id} /\ Shelved' = Shelved /\ Q!HandedIds' = Q!HandedIds
      BY <1>q, <2>3, <3>1, SubmitFacts DEF Waiting, Shelved, QueuedWith, Q!HandedIds
    <3>3. j.id \notin Waiting \cup Shelved
      BY <3>1 DEF Waiting, Shelved, QueuedWith, Q!QueuedIds
    <3>4. Service!Submit(j.id)
      BY <2>1, <3>1, <3>2, <3>3, <1>0 DEF Service!Submit, Service!Known, Waiting, Shelved
    <3> QED BY <3>2, <3>4 DEF Service!JNext, Waiting
  <2> QED BY <1>2, <2>2, <2>3 DEF Submits
<1>3. CASE Commands
  <2>1. InHand' = InHand
    BY <1>3 DEF Commands, InHand
  <2>2. PICK id \in Q!QueuedIds, st \in {"Paused", "Running", "Cancelled"} :
          Q!UpdateStatus(id, st)
    BY <1>3 DEF Commands
  <2>3. PICK k \in DOMAIN jobs :
          /\ jobs[k].id = id
          /\ DOMAIN jobs' = DOMAIN jobs
          /\ \A m \in DOMAIN jobs \ {k} : jobs'[m] = jobs[m]
          /\ jobs'[k].id = id /\ jobs'[k].status \in {jobs[k].status, st}
          /\ handed' = handed
    BY <2>2, <1>q, CommandFacts
  <2>4. Q!HandedIds' = Q!HandedIds
    BY <2>3 DEF Q!HandedIds
  <2>5. /\ jobs[k].status \in JobStatus /\ st \in JobStatus /\ st # "Pending"
        /\ \A m \in DOMAIN jobs \ {k} : jobs[m].id # id
    BY <1>q, <2>2, <2>3, QueueFacts DEF JobStatus
  <2>6. CASE jobs'[k].status = "Pending" <=> jobs[k].status = "Pending"
    <3>1. Waiting' = Waiting
      BY <2>3, <2>6 DEF Waiting, QueuedWith
    <3>2. Shelved' = Shelved
      BY <2>3, <2>5, <2>6 DEF Shelved, QueuedWith
    <3> QED BY <2>1, <2>4, <3>1, <3>2 DEF Service!jvars, Waiting, Shelved
  <2>7. CASE jobs[k].status = "Pending" /\ jobs'[k].status # "Pending"
    <3>1. id \in Waiting /\ Waiting' = Waiting \ {id}
      BY <2>3, <2>5, <2>7 DEF Waiting, QueuedWith
    <3>2. Shelved' = Shelved \cup {id}
      BY <2>3, <2>5, <2>7 DEF Shelved, QueuedWith
    <3>3. Service!Shelve(id)
      BY <2>1, <2>4, <3>1, <3>2 DEF Service!Shelve, Waiting, Shelved
    <3> QED BY <3>1, <3>3 DEF Service!JNext, Waiting
  <2> QED BY <2>3, <2>5, <2>6, <2>7
<1>4. CASE Begins
  <2>1. PICK k \in DOMAIN jobs : Q!Dequeue(k) /\ cur.id = 0 /\ cur'.id = jobs[k].id
    BY <1>4 DEF Begins
  <2> DEFINE i == jobs[k].id
  <2>2. /\ jobs[k].status = "Pending"
        /\ DOMAIN jobs' = DOMAIN jobs \ {k}
        /\ \A m \in DOMAIN jobs' : jobs'[m] = jobs[m]
        /\ Q!HandedIds' = Q!HandedIds \cup {i}
    BY <2>1, <1>q, BeginFacts
  <2>3. /\ i # 0 /\ i \notin Q!HandedIds
        /\ \A m \in DOMAIN jobs \ {k} : jobs[m].id # i
    BY <1>q, QueueFacts DEF Q!QueuedIds
  <2>4. InHand = {} /\ InHand' = {i}
    BY <2>1, <2>3 DEF InHand
  <2>5. i \in Waiting /\ Waiting' = Waiting \ {i}
    BY <2>2, <2>3 DEF Waiting, QueuedWith
  <2>6. Shelved' = Shelved
    BY <2>2 DEF Shelved, QueuedWith
  <2>7. Service!Begin(i)
    BY <2>2, <2>3, <2>4, <2>5, <2>6 DEF Service!Begin, Waiting, Shelved
  <2> QED BY <2>5, <2>7 DEF Service!JNext, Waiting
<1> QED BY <1>1, <1>2, <1>3, <1>4 DEF QueueStep

LEMMA ServiceInit == DInit => Service!JInit
BY DEF DInit, Q!QInit, NoJob, Service!JInit, QueuedWith, InHand, Q!HandedIds

(* The invariant of the queue holds in the daemon, which calls its methods   *)
(* only, and the job in hand has been handed out.                          *)
THEOREM ServiceInvariant == DSafetySpec => []ServiceInv
<1>1. ServiceInv /\ [DNext]_dvars => ServiceInv'
  BY DaemonSteps, ServiceInvStep
<1> QED BY <1>1, ServiceInitInv, PTL DEF DSafetySpec

(* The daemon implements JobService, for any plugins, priorities, bus and    *)
(* number of jobs: each job is executed once at most, one at a time, and   *)
(* none that a command has shelved.                                        *)
THEOREM DaemonImplementsJobService == DSafetySpec => ImplementsJobService
<1>1. ServiceInv /\ [DNext]_dvars => [Service!JNext]_(Service!jvars)
  BY DaemonSteps, ServiceStep
<1> QED BY <1>1, ServiceInit, ServiceInvariant, PTL
        DEF DSafetySpec, ImplementsJobService, Service!JSpec

(* What JobService promises, said of the daemon: a job is in one place, a     *)
(* job that has been executed or shelved (paused, resumed or cancelled while *)
(* it waited) is never executed afterwards, and neither set loses a job.   *)
Over == Q!HandedIds \ InHand
Apart ==
  /\ Waiting \cap Shelved = {}
  /\ (Waiting \cup Shelved) \cap (InHand \cup Over) = {}
NeverExecutedAgain ==
  [][/\ (Shelved \cup Over) \cap InHand' = {}
     /\ Shelved \subseteq Shelved' /\ Over \subseteq Over']_dvars

LEMMA ApartFacts == ASSUME ServiceInv PROVE Apart
<1>1. Waiting \cup Shelved \subseteq Q!QueuedIds
  BY DEF Waiting, Shelved, QueuedWith, Q!QueuedIds
<1>2. InHand \cup Over = Q!HandedIds /\ Q!QueuedIds \cap Q!HandedIds = {}
  BY QueueFacts DEF ServiceInv, InHandIsHanded, InHand, Over
<1>3. Waiting \cap Shelved = {}
  BY QueueFacts DEF ServiceInv, Waiting, Shelved, QueuedWith
<1> QED BY <1>1, <1>2, <1>3 DEF Apart

(* No job is executed again once its execution ended, or once a command has *)
(* shelved it in the queue.                                                *)
THEOREM ExecutedOrShelvedIsFinal == DSafetySpec => NeverExecutedAgain
<1> DEFINE Final == /\ (Shelved \cup Over) \cap InHand' = {}
                    /\ Shelved \subseteq Shelved' /\ Over \subseteq Over'
<1>1. ASSUME ServiceInv, [DNext]_dvars PROVE Final
  <2>1. Apart /\ InHand \cap Over = {}
    BY <1>1, ApartFacts DEF Over
  <2>2. [Service!JNext]_(Service!jvars)
    BY <1>1, DaemonSteps, ServiceStep
  <2>3. CASE UNCHANGED Service!jvars
    BY <2>1, <2>3 DEF Service!jvars, Apart, Waiting, Shelved, Over
  <2>4. CASE Service!End
    BY <2>1, <2>4 DEF Service!End, Apart, Waiting, Shelved, Over
  <2>5. ASSUME NEW i, Service!Submit(i) PROVE Final
    BY <2>1, <2>5 DEF Service!Submit, Apart, Waiting, Shelved, Over
  <2>6. ASSUME NEW i, Service!Shelve(i) PROVE Final
    BY <2>1, <2>6 DEF Service!Shelve, Apart, Waiting, Shelved, Over
  <2>7. ASSUME NEW i, Service!Begin(i) PROVE Final
    BY <2>1, <2>7 DEF Service!Begin, Apart, Waiting, Shelved, Over
  <2> QED BY <2>2, <2>3, <2>4, <2>5, <2>6, <2>7 DEF Service!JNext
<1> QED BY <1>1, ServiceInvariant, PTL DEF DSafetySpec, NeverExecutedAgain

(* The daemon does nothing to the queue that the queue does not allow, so    *)
(* whatever holds of QueueManager alone holds of the queue in the daemon.  *)
THEOREM DaemonCallsTheQueue == DSafetySpec => QP!QSpec
<1>1. DInit => QP!QInit
  BY SameQueue DEF DInit
<1>2. ServiceInv /\ [DNext]_dvars => [QP!QNext]_(QP!qvars)
  BY DaemonSteps, QueueIsCalled
<1> QED BY <1>1, <1>2, ServiceInvariant, PTL DEF DSafetySpec, QP!QSpec

-----------------------------------------------------------------------------
(* The supervisor. *)

SP == INSTANCE ProcessSupervisorProofs

(* Daemon's own instance of the supervisor and the one of its proofs. *)
LEMMA SameSupervisor ==
  /\ S!SInit => SP!SInit
  /\ S!Kernel => SP!Kernel
  /\ S!AllRunning => SP!AllRunning
  /\ \A pl : /\ S!StopAll(pl) => SP!StopAll(pl)
             /\ S!ContAll(pl) => SP!ContAll(pl)
             /\ S!Cleanup(pl) => SP!Cleanup(pl)
  /\ \A p : S!TryWait(p) => SP!TryWait(p)
  /\ \A p : S!Terminate(p) => SP!Terminate(p)
  /\ \A pl, p : S!Start(pl, p) => SP!Start(pl, p)
  /\ \A pl, p : S!Track(pl, p) => SP!Track(pl, p)
<1>1. S!SInit => SP!SInit
  BY DEF S!SInit, SP!SInit
<1>2. S!Kernel => SP!Kernel
  BY DEF S!Kernel, SP!Kernel, S!Exit, SP!Exit, S!Recycle, SP!Recycle
<1>3. /\ \A T : S!stop(T) => SP!stop(T)
      /\ \A T : S!cont(T) => SP!cont(T)
      /\ \A T : S!try_wait(T) => SP!try_wait(T)
      /\ \A T : S!terminate(T) => SP!terminate(T)
  <2>1. \A p : /\ S!Live(p) = SP!Live(p) /\ S!Gone(p) = SP!Gone(p)
               /\ S!Signalled(p) = SP!Signalled(p)
    BY DEF S!Live, SP!Live, S!Gone, SP!Gone, S!Signalled, SP!Signalled
  <2>2. \A T : S!stop(T) => SP!stop(T)
    BY <2>1 DEF S!stop, SP!stop
  <2>3. \A T : S!cont(T) => SP!cont(T)
    BY <2>1 DEF S!cont, SP!cont
  <2>4. \A T : S!try_wait(T) => SP!try_wait(T)
    BY <2>1 DEF S!try_wait, SP!try_wait
  <2>5. \A T : S!terminate(T) => SP!terminate(T)
    BY <2>1 DEF S!terminate, SP!terminate, S!BySignal, SP!BySignal
  <2> QED BY <2>2, <2>3, <2>4, <2>5
<1>4. S!AllRunning => SP!AllRunning
  BY <1>3 DEF S!AllRunning, SP!AllRunning, S!AllTracked, SP!AllTracked
<1>5. \A pl : /\ S!StopAll(pl) => SP!StopAll(pl)
              /\ S!ContAll(pl) => SP!ContAll(pl)
              /\ S!Cleanup(pl) => SP!Cleanup(pl)
  BY <1>3 DEF S!StopAll, SP!StopAll, S!ContAll, SP!ContAll, S!Cleanup, SP!Cleanup
<1>6. \A p : S!TryWait(p) => SP!TryWait(p)
  BY <1>3 DEF S!TryWait, SP!TryWait
<1>7. \A p : S!Terminate(p) => SP!Terminate(p)
  BY <1>3 DEF S!Terminate, SP!Terminate
<1>8. \A pl, p : S!Start(pl, p) => SP!Start(pl, p)
  BY DEF S!Start, SP!Start
<1>9. \A pl, p : S!Track(pl, p) => SP!Track(pl, p)
  BY DEF S!Track, SP!Track
<1> QED BY <1>1, <1>2, <1>4, <1>5, <1>6, <1>7, <1>8, <1>9

(* The calls go out for plugins the daemon knows and for the child it has in *)
(* hand.                                                                   *)
LEMMA SupervisorIsCalled ==
  ASSUME ServiceInv, ChildInv, [DNext]_dvars PROVE [SP!SNext]_(SP!svars)
<1>0. ASSUME UNCHANGED svars PROVE [SP!SNext]_(SP!svars)
  BY <1>0 DEF svars, SP!svars
<1>1. CASE \/ Enqueue \/ OtherEvent \/ MainRecv \/ MainLagged \/ CtrlC \/ UNCHANGED dvars
           \/ \E kind \in Control, id \in 0 .. MaxJobs : IpcCommand(kind, id)
  BY <1>0, <1>1 DEF Enqueue, OtherEvent, MainRecv, MainLagged, CtrlC, IpcCommand, dvars
<1>2. CASE Kernel
  BY <1>2, SameSupervisor DEF Kernel, SP!SNext
<1>3. CASE Executor
  <2>1. CASE ExecRecv
    <3> DEFINE e == B!oldest(bus, "executor")
    <3>1. \/ \E j \in listed(e[2]) :
               S!StopAll(j.plugin) \/ S!ContAll(j.plugin) \/ S!Cleanup(j.plugin)
          \/ UNCHANGED svars
      BY <2>1 DEF ExecRecv, pause_job, resume_job, cancel_job
    <3>2. \A j \in listed(e[2]) : j.plugin \in Plugins
      BY QueueFacts DEF listed, Q!find, ServiceInv
    <3> HIDE DEF e
    <3> QED BY <1>0, <3>1, <3>2, SameSupervisor DEF SP!SNext
  <2>2. ASSUME NEW k \in DOMAIN jobs, ExecStart(k) PROVE [SP!SNext]_(SP!svars)
    BY <2>2, SameSupervisor DEF ExecStart, SP!SNext
  <2>3. CASE ExecIdle
    BY <2>3, SameSupervisor DEF ExecIdle, SP!SNext
  <2>4. CASE ExecLagged \/ PluginMissing \/ SpawnFails \/ PollRunning \/ PollError
    BY <1>0, <2>4 DEF ExecLagged, PluginMissing, SpawnFails, PollRunning, PollError
  <2>5. ASSUME NEW p \in Pids, SpawnStarts(p) PROVE [SP!SNext]_(SP!svars)
    <3>1. S!Start(cur.plugin, p) /\ cur.plugin \in Plugins
      BY <2>5, DaemonAssumption DEF SpawnStarts
    <3> QED BY <3>1, SameSupervisor DEF SP!SNext
  <2>6. CASE SpawnTracks
    <3>1. S!Track(cur.plugin, proc) /\ cur.plugin \in Plugins /\ proc \in Pids
      BY <2>6 DEF SpawnTracks, ChildInv, TracksTheJob
    <3> QED BY <3>1, SameSupervisor DEF SP!SNext
  <2>7. CASE PollTimeout \/ PollSuccess \/ PollFailure
    <3>1. (S!Terminate(proc) \/ S!TryWait(proc)) /\ proc \in Pids
      BY <2>7 DEF PollTimeout, PollSuccess, PollFailure, ChildInv, TracksTheJob
    <3> QED BY <3>1, SameSupervisor DEF SP!SNext
  <2>8. CASE ExecCleanup
    <3>1. S!Cleanup(cur.plugin) /\ cur.plugin \in Plugins
      BY <2>8 DEF ExecCleanup, ChildInv, TracksTheJob
    <3> QED BY <3>1, SameSupervisor DEF SP!SNext
  <2> QED BY <1>3, <2>1, <2>2, <2>3, <2>4, <2>5, <2>6, <2>7, <2>8 DEF Executor
<1> QED BY <1>1, <1>2, <1>3 DEF DNext

(* The daemon calls the supervisor's methods and does nothing else to the    *)
(* children, so whatever holds of ProcessSupervisor alone holds here.      *)
THEOREM DaemonCallsTheSupervisor == DSafetySpec => SP!SSpec
<1>1. DInit => SP!SInit
  BY SameSupervisor DEF DInit
<1>2. ServiceInv /\ ChildInv /\ [DNext]_dvars => [SP!SNext]_(SP!svars)
  BY SupervisorIsCalled
<1> QED BY <1>1, <1>2, ServiceInvariant, ChildInvariant, PTL DEF DSafetySpec, SP!SSpec

(* In the daemon, too, no child is forgotten while it lives, and one that is *)
(* reported ended is dead.                                                 *)
THEOREM ChildrenAreTracked == DSafetySpec => [](S!LiveIsTracked /\ S!EndedIsDead)
<1>1. SP!SupervisorAssumption
  BY DaemonAssumption DEF SP!SupervisorAssumption
<1>2. SP!SSpec => []SP!SInv
  BY <1>1, SP!SupervisorInvariant
<1>3. SP!SInv => S!LiveIsTracked /\ S!EndedIsDead
  <2>1. \A p : S!Live(p) = SP!Live(p) /\ S!Holders(p) = SP!Holders(p)
    BY DEF S!Live, SP!Live, S!Holders, SP!Holders
  <2> QED BY <2>1 DEF SP!SInv, S!LiveIsTracked, SP!LiveIsTracked, S!EndedIsDead, SP!EndedIsDead
<1> QED BY <1>2, <1>3, DaemonCallsTheSupervisor, PTL

-----------------------------------------------------------------------------
(* The event bus. *)

BusReceivers == {"executor", "main"}
Events == (Control \cup {"Info"}) \X Nat

(* A receiver that has missed events has the buffer full: it hears of the    *)
(* loss before it reads on.                                                *)
BusOf(b) ==
  /\ b \in [BusReceivers -> [unread : Seq(Events), missed : BOOLEAN]]
  /\ \A r \in BusReceivers : /\ Len(b[r].unread) <= Capacity
                             /\ b[r].missed => Len(b[r].unread) = Capacity

LEMMA PublishFits ==
  ASSUME NEW b, BusOf(b), NEW e \in Events PROVE BusOf(B!publish(b, e))
<1> DEFINE new(r) == IF Len(b[r].unread) < Capacity
                       THEN [b[r] EXCEPT !.unread = Append(@, e)]
                       ELSE [unread |-> Append(Tail(b[r].unread), e), missed |-> TRUE]
<1>1. B!publish(b, e) = [r \in BusReceivers |-> new(r)]
  BY DEF B!publish, BusReceivers
<1>2. ASSUME NEW r \in BusReceivers
      PROVE  /\ new(r) \in [unread : Seq(Events), missed : BOOLEAN]
             /\ Len(new(r).unread) <= Capacity
             /\ new(r).missed => Len(new(r).unread) = Capacity
  <2> DEFINE u == b[r].unread
  <2>1. /\ b[r] \in [unread : Seq(Events), missed : BOOLEAN] /\ u \in Seq(Events)
        /\ Len(u) \in Nat /\ Len(u) <= Capacity /\ Capacity \in Nat \ {0}
        /\ b[r].missed => Len(u) = Capacity
    BY DaemonAssumption DEF BusOf
  <2>2. CASE Len(u) < Capacity
    <3>1. Append(u, e) \in Seq(Events) /\ Len(Append(u, e)) = Len(u) + 1
      BY <2>1
    <3>2. new(r) = [unread |-> Append(u, e), missed |-> b[r].missed]
      BY <2>1, <2>2
    <3>3. b[r].missed \in BOOLEAN /\ ~ b[r].missed
      BY <2>1, <2>2
    <3> HIDE DEF new, u
    <3> QED BY <2>1, <2>2, <3>1, <3>2, <3>3
  <2>3. CASE ~ (Len(u) < Capacity)
    <3>1. u # << >> /\ Len(u) = Capacity
      BY <2>1, <2>3
    <3>2. Tail(u) \in Seq(Events) /\ Len(Tail(u)) = Len(u) - 1
      BY <2>1, <3>1
    <3>3. /\ Append(Tail(u), e) \in Seq(Events)
          /\ Len(Append(Tail(u), e)) = Len(Tail(u)) + 1
      BY <3>2
    <3>4. new(r) = [unread |-> Append(Tail(u), e), missed |-> TRUE]
      BY <2>3
    <3> HIDE DEF new, u
    <3> QED BY <2>1, <3>1, <3>2, <3>3, <3>4
  <2> QED BY <2>2, <2>3
<1> HIDE DEF new
<1> QED BY <1>1, <1>2 DEF BusOf

LEMMA RecvFits ==
  ASSUME NEW b, BusOf(b), NEW r \in BusReceivers, B!has_event(b, r) \/ B!is_lagged(b, r)
  PROVE  BusOf(B!recv(b, r))
<1>0. /\ b \in [BusReceivers -> [unread : Seq(Events), missed : BOOLEAN]]
      /\ b[r].unread \in Seq(Events) /\ Capacity \in Nat
  BY DaemonAssumption DEF BusOf
<1>1. CASE B!is_lagged(b, r)
  <2> DEFINE new == [b[r] EXCEPT !.missed = FALSE]
  <2>1. B!recv(b, r) = [b EXCEPT ![r] = new]
    BY <1>1 DEF B!recv
  <2>2. new \in [unread : Seq(Events), missed : BOOLEAN] /\ new.unread = b[r].unread /\ ~ new.missed
    BY <1>0
  <2> HIDE DEF new
  <2> QED BY <1>0, <2>1, <2>2 DEF BusOf
<1>2. CASE ~ B!is_lagged(b, r)
  <2> DEFINE new == [b[r] EXCEPT !.unread = Tail(b[r].unread)]
  <2>1. B!recv(b, r) = [b EXCEPT ![r] = new]
    BY <1>2 DEF B!recv
  <2>2. b[r].unread # << >> /\ ~ b[r].missed
    BY <1>2 DEF B!has_event, B!is_lagged
  <2>3. /\ Tail(b[r].unread) \in Seq(Events)
        /\ Len(Tail(b[r].unread)) = Len(b[r].unread) - 1 /\ Len(b[r].unread) \in Nat
    BY <1>0, <2>2
  <2>4. new \in [unread : Seq(Events), missed : BOOLEAN]
        /\ new.unread = Tail(b[r].unread) /\ ~ new.missed
    BY <1>0, <2>2, <2>3
  <2> HIDE DEF new
  <2> QED BY <1>0, <2>1, <2>3, <2>4 DEF BusOf
<1> QED BY <1>1, <1>2

LEMMA BusStep == ASSUME BusOf(bus), [DNext]_dvars PROVE BusOf(bus')
<1>1. Info \in Events /\ \A kind \in Control, id \in 0 .. MaxJobs : <<kind, id>> \in Events
  BY DaemonAssumption DEF Info, Events, Control
<1>2. BusOf(B!publish(bus, Info)) /\ BusOf(B!publish(B!publish(bus, Info), Info))
  BY <1>1, PublishFits
<1>3. CASE OtherEvent \/ \E kind \in Control, id \in 0 .. MaxJobs : IpcCommand(kind, id)
  BY <1>1, <1>3, PublishFits DEF OtherEvent, IpcCommand
<1>4. CASE ExecRecv \/ ExecLagged \/ MainRecv
  BY <1>4, RecvFits DEF ExecRecv, ExecLagged, MainRecv, BusReceivers
<1>5. CASE Executor /\ ~ ExecRecv /\ ~ ExecLagged
  <2>1. bus' \in {bus, B!publish(bus, Info), B!publish(B!publish(bus, Info), Info)}
    BY <1>5 DEF Executor, ExecStart, ExecIdle, PluginMissing, SpawnFails, SpawnStarts,
                SpawnTracks, PollTimeout, PollSuccess, PollFailure, PollRunning, PollError,
                ExecCleanup
  <2> QED BY <2>1, <1>2
<1>6. CASE Enqueue \/ Kernel \/ MainLagged \/ CtrlC \/ UNCHANGED dvars
  BY <1>6 DEF Enqueue, Kernel, MainLagged, CtrlC, dvars
<1> QED BY <1>3, <1>4, <1>5, <1>6 DEF DNext

-----------------------------------------------------------------------------
(* The executor's variables. *)

Executing == {"spawn", "track", "poll", "cleanup", "await_pm"}

(* While a job is executed the plugin manager is locked; the orchestrator is *)
(* locked exactly by the task that waits for the plugin manager, and it is *)
(* that task which holds it.                                               *)
LocksHeld ==
  /\ pm_locked \in BOOLEAN /\ (pm_locked <=> pc \in Executing)
  /\ orch_locked \in BOOLEAN /\ (orch_locked <=> pc = "await_pm")

TaskTypes ==
  /\ cur \in [id : 0 .. MaxJobs, plugin : Plugins]
  /\ pc \in Executing => cur.id # 0
  /\ elapsed \in 0 .. (Timeout + 1)
  /\ DOMAIN downloads \subseteq 1 .. MaxJobs
  /\ stopped \in {"no", "signal", "lag"}
  /\ next_id <= MaxJobs + 1

TaskInv == ServiceInv /\ ChildInv /\ LocksHeld /\ TaskTypes /\ BusOf(bus)

LEMMA NoJobType == NoJob \in [id : 0 .. MaxJobs, plugin : Plugins] /\ NoJob.id = 0
BY DaemonAssumption DEF NoJob

LEMMA DownloadsKeepIds ==
  /\ \A dl, id : DOMAIN D!track(dl, id) = DOMAIN dl \cup {id}
  /\ \A dl, id, n, t : DOMAIN D!update_progress(dl, id, n, t) = DOMAIN dl
  /\ \A dl, id, t : DOMAIN D!complete(dl, id, t) = DOMAIN dl
BY DEF D!track, D!update_progress, D!complete

LEMMA TaskInit == DInit => TaskInv
<1> SUFFICES ASSUME DInit PROVE TaskInv
  OBVIOUS
<1>1. LocksHeld
  BY DEF DInit, LocksHeld, Executing
<1>2. TaskTypes
  <2>1. cur \in [id : 0 .. MaxJobs, plugin : Plugins] /\ pc \notin Executing
    BY NoJobType DEF DInit, Executing
  <2>2. next_id <= MaxJobs + 1 /\ elapsed \in 0 .. (Timeout + 1)
    BY DaemonAssumption DEF DInit, Q!QInit
  <2>3. DOMAIN downloads = {} /\ stopped = "no"
    BY DEF DInit, D!NoDownloads
  <2> QED BY <2>1, <2>2, <2>3 DEF TaskTypes
<1>3. BusOf(bus)
  <2>1. bus = [r \in BusReceivers |-> [unread |-> << >>, missed |-> FALSE]]
    BY DEF DInit, B!subscribed, BusReceivers
  <2>2. << >> \in Seq(Events) /\ Len(<< >>) = 0
    OBVIOUS
  <2> QED BY <2>1, <2>2, DaemonAssumption DEF BusOf
<1> QED BY <1>1, <1>2, <1>3, ServiceInitInv, ChildInit DEF TaskInv

LEMMA LocksStep == ASSUME LocksHeld, [DNext]_dvars PROVE LocksHeld'
<1>0. /\ pm_locked \in BOOLEAN /\ orch_locked \in BOOLEAN
      /\ pm_locked <=> pc \in Executing
      /\ orch_locked <=> pc = "await_pm"
  BY DEF LocksHeld
<1>1. CASE UNCHANGED <<pc, pm_locked, orch_locked>>
  BY <1>1 DEF LocksHeld
<1>2. CASE /\ pc' = "spawn" /\ pm_locked' = TRUE /\ orch_locked' = orch_locked
           /\ pc \in {"select", "lagged"}
  BY <1>0, <1>2 DEF LocksHeld, Executing
<1>3. CASE /\ pc' \in {"select", "dead"} /\ pm_locked' = FALSE
           /\ orch_locked' = orch_locked /\ pc # "await_pm"
  BY <1>0, <1>3 DEF LocksHeld, Executing
<1>4. CASE /\ pc' \in {"track", "poll", "cleanup"} /\ pm_locked' = pm_locked
           /\ orch_locked' = orch_locked /\ pc \in {"spawn", "track", "poll"}
  BY <1>0, <1>4 DEF LocksHeld, Executing
<1>5. CASE /\ pc' = "await_pm" /\ pm_locked' = pm_locked /\ orch_locked' = TRUE /\ pc = "poll"
  BY <1>0, <1>5 DEF LocksHeld, Executing
<1>6. CASE /\ pc' \in {"select", "lagged"} /\ pc \in {"select", "lagged"}
           /\ UNCHANGED <<pm_locked, orch_locked>>
  BY <1>0, <1>6 DEF LocksHeld, Executing
<1>7. CASE Executor
  <2>1. CASE ExecRecv \/ ExecLagged \/ ExecIdle
    BY <2>1, <1>1, <1>6 DEF ExecRecv, ExecLagged, ExecIdle, xvars
  <2>2. CASE \E k \in DOMAIN jobs : ExecStart(k)
    BY <2>2, <1>2 DEF ExecStart
  <2>3. CASE PluginMissing \/ SpawnFails \/ ExecCleanup
    BY <2>3, <1>3 DEF PluginMissing, SpawnFails, ExecCleanup, Return, Panic
  <2>4. CASE PollTimeout \/ PollSuccess \/ PollError
    BY <2>4, <1>3, <1>4 DEF PollTimeout, PollSuccess, PollError, Panic, GoTo
  <2>5. CASE (\E p \in Pids : SpawnStarts(p)) \/ SpawnTracks
    BY <2>5, <1>4 DEF SpawnStarts, SpawnTracks
  <2>6. CASE PollFailure
    BY <2>6, <1>5 DEF PollFailure, GoTo
  <2>7. CASE PollRunning
    BY <2>7, <1>1 DEF PollRunning
  <2> QED BY <1>7, <2>1, <2>2, <2>3, <2>4, <2>5, <2>6, <2>7 DEF Executor
<1>8. CASE \/ Enqueue \/ Kernel \/ OtherEvent \/ MainRecv \/ MainLagged \/ CtrlC \/ UNCHANGED dvars
           \/ \E kind \in Control, id \in 0 .. MaxJobs : IpcCommand(kind, id)
  BY <1>1, <1>8 DEF Enqueue, Kernel, OtherEvent, MainRecv, MainLagged, CtrlC, IpcCommand, dvars, xvars
<1> QED BY <1>7, <1>8 DEF DNext

LEMMA IdsStep ==
  ASSUME ServiceInv, QueueStep, next_id <= MaxJobs + 1 PROVE next_id' <= MaxJobs + 1
<1>1. next_id \in Nat /\ MaxJobs \in Nat
  BY QueueFacts, DaemonAssumption DEF ServiceInv
<1>2. CASE \E pl \in Plugins, pr \in Priorities : Q!JobNew(pl, pr)
  BY <1>1, <1>2 DEF Q!JobNew
<1>3. next_id' = next_id \/ \E pl \in Plugins, pr \in Priorities : Q!JobNew(pl, pr)
  BY DEF QueueStep, Keeps, Submits, Commands, Begins, qvars, Q!PushBack, Q!UpdateStatus,
         Q!Dequeue
<1> QED BY <1>2, <1>3

LEMMA TaskTypesStep == ASSUME TaskInv, [DNext]_dvars PROVE TaskTypes'
<1>0. /\ cur \in [id : 0 .. MaxJobs, plugin : Plugins] /\ elapsed \in 0 .. (Timeout + 1)
      /\ DOMAIN downloads \subseteq 1 .. MaxJobs /\ MaxJobs \in Nat /\ Timeout \in Nat
      /\ pc \in Executing => cur.id # 0
      /\ stopped \in {"no", "signal", "lag"}
  BY DaemonAssumption DEF TaskInv, TaskTypes
<1>1. next_id' <= MaxJobs + 1
  BY DaemonSteps, IdsStep DEF TaskInv, TaskTypes
<1>2. stopped' \in {"no", "signal", "lag"}
  BY <1>0 DEF DNext, Executor, Enqueue, IpcCommand, Kernel, OtherEvent, MainRecv, MainLagged, CtrlC, dvars,
              evars, ExecRecv, ExecLagged, ExecStart, ExecIdle, PluginMissing, SpawnFails,
              SpawnStarts, SpawnTracks, PollTimeout, PollSuccess, PollFailure, PollRunning,
              PollError, ExecCleanup
<1>3. CASE UNCHANGED xvars
  BY <1>0, <1>1, <1>2, <1>3 DEF xvars, TaskTypes
<1>4. ASSUME NEW k \in DOMAIN jobs, ExecStart(k) PROVE TaskTypes'
  <2>1. jobs[k].id \in 1 .. MaxJobs /\ jobs[k].plugin \in Plugins
    <3>1. jobs[k].id \in 1 .. (next_id - 1) /\ next_id \in Nat /\ next_id <= MaxJobs + 1
          /\ jobs[k].plugin \in Plugins
      BY QueueFacts DEF TaskInv, ServiceInv, TaskTypes, Q!QueuedIds
    <3> QED BY <1>0, <3>1
  <2>2. cur' = [id |-> jobs[k].id, plugin |-> jobs[k].plugin] /\ UNCHANGED <<elapsed, downloads>>
    BY <1>4 DEF ExecStart
  <2> QED BY <1>0, <1>1, <1>2, <2>1, <2>2 DEF TaskTypes
<1>5. CASE SpawnTracks
  <2>1. /\ UNCHANGED cur /\ elapsed' = 0 /\ cur.id # 0
        /\ downloads' = D!track(downloads, cur.id) \/ downloads' = downloads
    BY <1>0, <1>5 DEF SpawnTracks, Executing
  <2>2. cur.id \in 1 .. MaxJobs
    BY <1>0, <2>1
  <2>3. DOMAIN downloads' \subseteq 1 .. MaxJobs
    <3>1. DOMAIN D!track(downloads, cur.id) = DOMAIN downloads \cup {cur.id}
      BY DownloadsKeepIds
    <3>2. CASE downloads' = D!track(downloads, cur.id)
      <4>1. DOMAIN downloads' = DOMAIN downloads \cup {cur.id}
        BY <3>1, <3>2
      <4> QED BY <1>0, <2>2, <4>1
    <3>3. CASE downloads' = downloads
      BY <1>0, <3>3
    <3> QED BY <2>1, <3>2, <3>3
  <2> QED BY <1>0, <1>1, <1>2, <2>1, <2>3 DEF TaskTypes
<1>6. CASE PollRunning
  <2>1. elapsed' = elapsed + 1 /\ elapsed <= Timeout /\ UNCHANGED <<cur, pc>>
        /\ DOMAIN downloads' = DOMAIN downloads
    BY <1>6, DownloadsKeepIds DEF PollRunning
  <2> QED BY <1>0, <1>1, <1>2, <2>1 DEF TaskTypes
<1>7. CASE PluginMissing \/ SpawnFails \/ PollTimeout \/ PollSuccess \/ PollError \/ ExecCleanup
  <2>1. DOMAIN downloads' = DOMAIN downloads
    BY <1>7, DownloadsKeepIds DEF PluginMissing, SpawnFails, PollTimeout, PollSuccess, PollError,
                                  ExecCleanup
  <2>2. \/ cur' = NoJob /\ elapsed' = 0 /\ pc' = "select"
        \/ cur' = cur /\ elapsed' = elapsed /\ (pc' = "dead" \/ pc \in Executing)
    BY <1>7 DEF PluginMissing, SpawnFails, PollTimeout, PollSuccess, PollError, ExecCleanup,
                Return, Panic, GoTo, Executing
  <2>3. "select" \notin Executing /\ "dead" \notin Executing
    BY DEF Executing
  <2> QED BY <1>0, <1>1, <1>2, <2>1, <2>2, <2>3, NoJobType DEF TaskTypes
<1>8. CASE ExecLagged \/ ExecIdle \/ (\E p \in Pids : SpawnStarts(p)) \/ PollFailure
  <2>1. UNCHANGED <<cur, elapsed, downloads>> /\ (pc' \in Executing => pc \in Executing)
    BY <1>8 DEF ExecLagged, ExecIdle, SpawnStarts, PollFailure, GoTo, Executing
  <2> QED BY <1>0, <1>1, <1>2, <2>1 DEF TaskTypes
<1>9. CASE \/ Enqueue \/ Kernel \/ OtherEvent \/ MainRecv \/ MainLagged \/ CtrlC \/ UNCHANGED dvars \/ ExecRecv
           \/ \E kind \in Control, id \in 0 .. MaxJobs : IpcCommand(kind, id)
  BY <1>3, <1>9 DEF Enqueue, Kernel, OtherEvent, MainRecv, MainLagged, CtrlC, IpcCommand, dvars, ExecRecv
<1> QED BY <1>4, <1>5, <1>6, <1>7, <1>8, <1>9 DEF DNext, Executor

(* What the executor holds and has in hand at each point of execute_next,    *)
(* and what its receivers have not read.                                   *)
THEOREM TaskInvariant == DSafetySpec => []TaskInv
<1>1. TaskInv /\ [DNext]_dvars => TaskInv'
  BY DaemonSteps, ServiceInvStep, ChildNext, LocksStep, TaskTypesStep, BusStep DEF TaskInv
<1> QED BY <1>1, TaskInit, PTL DEF DSafetySpec

(* The variables of the executor and of the main loop keep their types, and  *)
(* no receiver is kept more events than the channel holds.                 *)
THEOREM DaemonTypes == DSafetySpec => []DTypeOK
<1>1. TaskInv => DTypeOK
  <2> SUFFICES ASSUME TaskInv PROVE DTypeOK
    OBVIOUS
  <2>1. pc \in Places /\ proc \in Pids \cup {NoPid}
    BY DEF TaskInv, ChildInv, ChildTypes
  <2>2. pm_locked \in BOOLEAN /\ orch_locked \in BOOLEAN
    BY DEF TaskInv, LocksHeld
  <2>3. \A r \in {"executor", "main"} : Len(bus[r].unread) <= Capacity
    BY DEF TaskInv, BusOf, BusReceivers
  <2> QED BY <2>1, <2>2, <2>3 DEF TaskInv, TaskTypes, DTypeOK
<1> QED BY <1>1, TaskInvariant, PTL

(* A wedged executor does not move and hands out no further job.             *)
WedgedForGood == [][Wedged => UNCHANGED <<xvars, handed>>]_dvars

(* A wedge is for good: once the task waits at line 167 for the lock it      *)
(* holds, or has panicked in metrics, it never moves again, keeps its      *)
(* locks, and dequeues nothing more.                                       *)
THEOREM WedgeIsForGood == DSafetySpec => WedgedForGood
<1>1. [DNext]_dvars => [Wedged => UNCHANGED <<xvars, handed>>]_dvars
  <2> SUFFICES ASSUME DNext, Wedged PROVE UNCHANGED <<xvars, handed>>
    OBVIOUS
  <2>1. ~ Executor
    BY DEF Wedged, Executor, ExecRecv, ExecLagged, ExecStart, ExecIdle, PluginMissing, SpawnFails,
           SpawnStarts, SpawnTracks, PollTimeout, PollSuccess, PollFailure, PollRunning,
           PollError, ExecCleanup
  <2>2. CASE Enqueue
    BY <2>2 DEF Enqueue, Q!JobNew, Q!PushBack
  <2>3. CASE \/ Kernel \/ OtherEvent \/ MainRecv \/ MainLagged \/ CtrlC
             \/ \E kind \in Control, id \in 0 .. MaxJobs : IpcCommand(kind, id)
    BY <2>3 DEF Kernel, OtherEvent, MainRecv, MainLagged, CtrlC, IpcCommand, qvars
  <2> QED BY <2>1, <2>2, <2>3 DEF DNext
<1> QED BY <1>1, PTL DEF DSafetySpec, WedgedForGood
=============================================================================
