------------------------------- MODULE Daemon -------------------------------
(***************************************************************************)
(* The daemon: the executor task (src/executor.rs) between the queue, the  *)
(* process supervisor, the event bus and the download manager, the control *)
(* commands of the IPC server (src/ipc.rs) and the main loop of cmd_daemon *)
(* (src/main.rs).                                                          *)
(*                                                                         *)
(* execute_loop awaits execute_next inside its select!, so one task does   *)
(* everything in turn: it reads its next event only when the job in hand   *)
(* is over.  pc is where that task waits:                                  *)
(*   select    in select!, both branches armed                             *)
(*   lagged    in select!, the recv branch disabled by a Lagged error      *)
(*   spawn     execute_next, the job dequeued and the plugin manager locked *)
(*   track     supervisor.spawn, the child started, waiting for the map    *)
(*   poll      the polling loop                                            *)
(*   cleanup   after the loop                                              *)
(*   await_pm  line 167, waiting for the lock the task itself holds        *)
(*   dead      the task panicked in metrics (try_lock().unwrap())          *)
(*                                                                         *)
(* elapsed counts the progress intervals of the polling loop; the polls of *)
(* one interval are one step, which ends with the JobProgress event.       *)
(***************************************************************************)
EXTENDS Job, FiniteSets, Sequences

CONSTANTS
  Plugins, Priorities, MaxRetries, MaxJobs,     \* of QueueManager
  Pids, Recycled,                               \* of ProcessSupervisor
  Capacity,                                     \* of EventBus
  Loaded,        \* plugins the plugin manager has
  Downloaders,   \* plugins whose jobs run curl or wget, tracked as downloads
  MaxConcurrent, \* max_concurrent (3 in JobExecutor::new)
  NoPid,         \* no process in hand
  Timeout,       \* progress intervals in the hour a job may take
  MaxRequests    \* bound: control commands sent over IPC

ASSUME DaemonAssumption ==
  /\ Priorities \subseteq JobPriority /\ MaxRetries \in Nat /\ MaxJobs \in Nat
  /\ Recycled \subseteq Pids
  /\ Loaded \subseteq Plugins /\ Plugins # {}
  /\ NoPid \notin Pids
  /\ Capacity \in Nat \ {0} /\ MaxConcurrent \in Nat \ {0}
  /\ Timeout \in Nat /\ MaxRequests \in Nat

VARIABLES
  next_id, created, jobs, tail, auto_resume, handed, left, fails,
  os, code, status, starting, tracked,
  bus,           \* event bus: the executor's and the main loop's receivers
  pc,            \* where the executor task is
  cur,           \* the job in its hand: id and plugin, id 0 if none
  proc,          \* the pid of its process
  elapsed,       \* time it has been polled, in progress intervals
  downloads,     \* DownloadInner.jobs
  pm_locked,     \* the plugin manager's mutex
  orch_locked,   \* the orchestrator's mutex
  stopped,       \* why the daemon has exited: "no", "signal" or "lag"
  requests,      \* control commands sent so far
  early_cancel   \* history: jobs a cancel was requested for as they started

qvars == <<next_id, created, jobs, tail, auto_resume, handed, left, fails>>
svars == <<os, code, status, starting, tracked>>
xvars == <<pc, cur, proc, elapsed, downloads, pm_locked, orch_locked>>
evars == <<stopped, requests, early_cancel>>
dvars == <<qvars, svars, bus, xvars, evars>>

Q == INSTANCE QueueManager
S == INSTANCE ProcessSupervisor
B == INSTANCE EventBus WITH Receivers <- {"executor", "main"}
D == INSTANCE DownloadManager

NoJob == [id |-> 0, plugin |-> CHOOSE p \in Plugins : TRUE]

(* The events some receiver acts on; the others are all Info. *)
Control == {"JobControlPause", "JobControlResume", "JobControlCancel"}
Info == <<"Info", 0>>

DInit ==
  /\ Q!QInit /\ S!SInit
  /\ bus = B!subscribed
  /\ pc = "select" /\ cur = NoJob /\ proc = NoPid /\ elapsed = 0
  /\ downloads = D!NoDownloads
  /\ pm_locked = FALSE /\ orch_locked = FALSE
  /\ stopped = "no" /\ requests = 0 /\ early_cancel = {}

Up == stopped = "no"

-----------------------------------------------------------------------------
(* The clients of the daemon. *)

(* enqueue by a holder of the QueueManager. *)
Enqueue ==
  /\ Up
  /\ \/ \E pl \in Plugins, pr \in Priorities : Q!JobNew(pl, pr)
     \/ \E j \in created : Q!PushBack(j)
  /\ UNCHANGED <<svars, bus, xvars, evars>>

(* pause_job, resume_job and cancel_job: the connection's task publishes     *)
(* the event; an id that does not parse is 0.                              *)
IpcCommand(kind, id) ==
  /\ Up /\ requests < MaxRequests
  /\ requests' = requests + 1
  /\ bus' = B!publish(bus, <<kind, id>>)
  /\ early_cancel' =
       IF kind = "JobControlCancel" /\ pc = "poll" /\ elapsed = 0 /\ cur.id = id
         THEN early_cancel \cup {id} ELSE early_cancel
  /\ UNCHANGED <<qvars, svars, xvars, stopped>>

(* The monitor task publishes a change of connectivity; to the receivers, a  *)
(* command for a job that is not in the queue is the same.  There may be    *)
(* any number of these.                                                    *)
OtherEvent ==
  /\ Up
  /\ bus' = B!publish(bus, Info)
  /\ UNCHANGED <<qvars, svars, xvars, evars>>

(* Children run whether the daemon is up or not. *)
Kernel == S!Kernel /\ UNCHANGED <<qvars, bus, xvars, evars>>

-----------------------------------------------------------------------------
(* The executor between jobs. *)

(* qm.update_status(id, st) as the executor calls it: without effect on an  *)
(* id that is not in the queue.                                            *)
update_status(id, st) ==
  IF id \in Q!QueuedIds THEN Q!UpdateStatus(id, st) ELSE UNCHANGED qvars

(* The job of id in qm.list(). *)
listed(id) == {jobs[k] : k \in Q!find(id)}

pause_job(id) ==
  \E j \in listed(id) :
    S!StopAll(j.plugin) /\ update_status(id, "Paused")

resume_job(id) ==
  \E j \in listed(id) :
    S!ContAll(j.plugin) /\ update_status(id, "Running")

(* The map is locked for terminate_all and again for cleanup, which finds   *)
(* the same processes, all dead by then: the two are one terminate.        *)
cancel_job(id) ==
  \E j \in listed(id) :
    S!Cleanup(j.plugin) /\ update_status(id, "Cancelled")

(* The recv branch of execute_loop; an event of another kind, or one for a  *)
(* job that is not in the queue, is consumed and nothing else.             *)
ExecRecv ==
  /\ Up /\ pc = "select" /\ B!has_event(bus, "executor")
  /\ bus' = B!recv(bus, "executor")
  /\ LET e == B!oldest(bus, "executor") IN
     \/ e[1] = "JobControlPause" /\ pause_job(e[2])
     \/ e[1] = "JobControlResume" /\ resume_job(e[2])
     \/ e[1] = "JobControlCancel" /\ cancel_job(e[2])
     \/ (e[1] \notin Control \/ listed(e[2]) = {}) /\ UNCHANGED <<qvars, svars>>
  /\ UNCHANGED <<xvars, evars>>

(* Err(Lagged) does not match Ok(event): only the sleep branch is left. *)
ExecLagged ==
  /\ Up /\ pc = "select" /\ B!is_lagged(bus, "executor")
  /\ bus' = B!recv(bus, "executor")
  /\ pc' = "lagged"
  /\ UNCHANGED <<qvars, svars, cur, proc, elapsed, downloads, pm_locked,
                 orch_locked, evars>>

(* Mutant: the comparison with max_concurrent is turned round. *)
may_start_Reversed(active) == active > MaxConcurrent

(* active < self.max_concurrent. *)
may_start(active) == active < MaxConcurrent

(* The sleep branch with a job to run: execute_next up to the plugin        *)
(* manager's lock.                                                         *)
ExecStart(k) ==
  /\ Up /\ pc \in {"select", "lagged"} /\ ~ pm_locked
  /\ may_start(Cardinality(S!Active))
  /\ S!AllRunning
  /\ Q!Dequeue(k)
  /\ cur' = [id |-> jobs[k].id, plugin |-> jobs[k].plugin]
  /\ bus' = B!publish(bus, Info)                             \* JobStarted
  /\ pm_locked' = TRUE
  /\ pc' = "spawn"
  /\ UNCHANGED <<proc, elapsed, downloads, orch_locked, evars>>

(* The sleep branch when execute_next is not called or finds no job. *)
ExecIdle ==
  /\ Up /\ pc \in {"select", "lagged"}
  /\ may_start(Cardinality(S!Active)) => Q!PendingStamps = {}
  /\ S!AllRunning
  /\ pc' = "select"
  /\ UNCHANGED <<qvars, bus, cur, proc, elapsed, downloads, pm_locked,
                 orch_locked, evars>>

-----------------------------------------------------------------------------
(* execute_next. *)

(* A return from execute_next drops the guard of the plugin manager. *)
Return ==
  /\ pc' = "select" /\ cur' = NoJob /\ proc' = NoPid /\ elapsed' = 0
  /\ pm_locked' = FALSE

(* metrics.record_operation, then next: if another task is inside the      *)
(* metrics mutex, try_lock().unwrap() panics, which ends the task and      *)
(* drops its guards.                                                       *)
Panic == pc' = "dead" /\ pm_locked' = FALSE /\ UNCHANGED <<cur, proc, elapsed>>
GoTo(next) == pc' = next /\ UNCHANGED <<cur, proc, elapsed, pm_locked>>

(* The plugin is not registered: no event, no metrics. *)
PluginMissing ==
  /\ Up /\ pc = "spawn" /\ cur.plugin \notin Loaded
  /\ update_status(cur.id, "Failed")
  /\ Return
  /\ UNCHANGED <<svars, bus, downloads, orch_locked, evars>>

(* The child cannot be started. *)
SpawnFails ==
  /\ Up /\ pc = "spawn" /\ cur.plugin \in Loaded
  /\ update_status(cur.id, "Failed")
  /\ bus' = B!publish(bus, Info)                             \* JobFailed
  /\ Return \/ Panic
  /\ UNCHANGED <<svars, downloads, orch_locked, evars>>

(* The child is started... *)
SpawnStarts(p) ==
  /\ Up /\ pc = "spawn" /\ cur.plugin \in Loaded
  /\ S!Start(cur.plugin, p)
  /\ proc' = p
  /\ pc' = "track"
  /\ UNCHANGED <<qvars, bus, cur, elapsed, downloads, pm_locked, orch_locked,
                 evars>>

(* ...then tracked, and so is the download. *)
SpawnTracks ==
  /\ Up /\ pc = "track"
  /\ S!Track(cur.plugin, proc)
  /\ downloads' = IF cur.plugin \in Downloaders
                    THEN D!track(downloads, cur.id) ELSE downloads
  /\ pc' = "poll" /\ elapsed' = 0
  /\ UNCHANGED <<qvars, bus, cur, proc, pm_locked, orch_locked, evars>>

(* Mutant: the loop is left without its cleanup. *)
PollTimeout_NoKill ==
  /\ Up /\ pc = "poll" /\ elapsed > Timeout
  /\ update_status(cur.id, "Failed")
  /\ bus' = B!publish(bus, Info)
  /\ Return \/ Panic
  /\ UNCHANGED <<svars, downloads, orch_locked, evars>>

(* start.elapsed() > timeout. *)
PollTimeout ==
  /\ Up /\ pc = "poll" /\ elapsed > Timeout
  /\ S!Terminate(proc)
  /\ update_status(cur.id, "Failed")
  /\ bus' = B!publish(bus, Info)                             \* JobFailed
  /\ GoTo("cleanup") \/ Panic
  /\ UNCHANGED <<downloads, orch_locked, evars>>

(* try_wait: exit code 0.  The orchestrator's lock is free and dropped at   *)
(* the end of the branch.                                                  *)
PollSuccess ==
  /\ Up /\ pc = "poll" /\ elapsed <= Timeout
  /\ S!Gone(proc) /\ code[proc] = 0 /\ ~ orch_locked
  /\ S!TryWait(proc)
  /\ update_status(cur.id, "Completed")
  /\ downloads' = D!complete(downloads, cur.id, 0)
  /\ bus' = B!publish(B!publish(bus, Info), Info)   \* JobCompleted, DownloadCompleted
  /\ GoTo("cleanup") \/ Panic
  /\ UNCHANGED <<orch_locked, evars>>

(* try_wait: another exit code.  The orchestrator is locked, then the       *)
(* argument &self.pm.lock().await waits for the guard execute_next has     *)
(* held since it looked the plugin up.  No other task locks the plugin     *)
(* manager, so nothing after this point runs: handle_failure, dm.fail, the *)
(* metrics, the cleanup.                                                   *)
PollFailure ==
  /\ Up /\ pc = "poll" /\ elapsed <= Timeout
  /\ S!Gone(proc) /\ code[proc] # 0 /\ ~ orch_locked
  /\ S!TryWait(proc)
  /\ orch_locked' = TRUE
  /\ GoTo("await_pm")
  /\ UNCHANGED <<qvars, bus, downloads, evars>>

(* Mutant: the start of the job is taken anew at each poll. *)
PollRunning_ClockRestarts ==
  /\ Up /\ pc = "poll" /\ elapsed <= Timeout
  /\ S!Live(proc)
  /\ elapsed' = IF elapsed = 0 THEN 1 ELSE 0
  /\ downloads' = D!update_progress(downloads, cur.id, elapsed, Timeout + 1)
  /\ bus' = B!publish(bus, Info)
  /\ UNCHANGED <<qvars, svars, pc, cur, proc, pm_locked, orch_locked, evars>>

(* try_wait: still running; one progress interval passes. *)
PollRunning ==
  /\ Up /\ pc = "poll" /\ elapsed <= Timeout
  /\ S!Live(proc)
  /\ elapsed' = elapsed + 1
  /\ downloads' = D!update_progress(downloads, cur.id, elapsed, Timeout + 1)
  /\ bus' = B!publish(bus, Info)                             \* JobProgress
  /\ UNCHANGED <<qvars, svars, pc, cur, proc, pm_locked, orch_locked, evars>>

(* Mutant: the error branch returns instead of leaving the loop. *)
PollError_Returns ==
  /\ Up /\ pc = "poll" /\ elapsed <= Timeout
  /\ update_status(cur.id, "Failed")
  /\ Return
  /\ UNCHANGED <<svars, bus, downloads, orch_locked, evars>>

(* try_wait fails: no event. *)
PollError ==
  /\ Up /\ pc = "poll" /\ elapsed <= Timeout
  /\ update_status(cur.id, "Failed")
  /\ GoTo("cleanup") \/ Panic
  /\ UNCHANGED <<svars, bus, downloads, orch_locked, evars>>

(* supervisor.cleanup, and the end of execute_next. *)
ExecCleanup ==
  /\ Up /\ pc = "cleanup"
  /\ S!Cleanup(cur.plugin)
  /\ Return
  /\ UNCHANGED <<qvars, bus, downloads, orch_locked, evars>>

Executor ==
  \/ ExecRecv
  \/ ExecLagged
  \/ \E k \in DOMAIN jobs : ExecStart(k)
  \/ ExecIdle
  \/ PluginMissing
  \/ SpawnFails
  \/ \E p \in Pids : SpawnStarts(p)
  \/ SpawnTracks
  \/ PollTimeout
  \/ PollSuccess
  \/ PollFailure
  \/ PollRunning
  \/ PollError
  \/ ExecCleanup

-----------------------------------------------------------------------------
(* The event loop of cmd_daemon. *)

(* An event is logged. *)
MainRecv ==
  /\ Up /\ B!has_event(bus, "main")
  /\ bus' = B!recv(bus, "main")
  /\ UNCHANGED <<qvars, svars, xvars, evars>>

(* Any error of recv, Lagged included, leaves the loop, and the process     *)
(* exits without the cleanup of the signal branch.                         *)
MainLagged ==
  /\ Up /\ B!is_lagged(bus, "main")
  /\ stopped' = "lag"
  /\ UNCHANGED <<qvars, svars, bus, xvars, requests, early_cancel>>

(* Ctrl-C: supervisor.terminate_all("") finds no plugin of that name. *)
CtrlC ==
  /\ Up
  /\ stopped' = "signal"
  /\ UNCHANGED <<qvars, svars, bus, xvars, requests, early_cancel>>

DNext ==
  \/ Enqueue
  \/ \E kind \in Control, id \in 0 .. MaxJobs : IpcCommand(kind, id)
  \/ OtherEvent
  \/ Kernel
  \/ Executor
  \/ MainRecv
  \/ MainLagged
  \/ CtrlC

DSafetySpec == DInit /\ [][DNext]_dvars

(* The tasks are scheduled: the executor and the main loop take the steps   *)
(* they can, and an enqueue that drew its id gets the queue's mutex.       *)
(* Clients, the kernel and the operator owe nothing.                       *)
DSpec ==
  /\ DSafetySpec
  /\ WF_dvars(Executor)
  /\ WF_dvars(MainRecv \/ MainLagged)
  /\ WF_dvars(Enqueue /\ next_id' = next_id)

-----------------------------------------------------------------------------
Places == {"select", "lagged", "spawn", "track", "poll", "cleanup",
           "await_pm", "dead"}

(* The variables of the executor and of the main loop keep their types. *)
DTypeOK ==
  /\ pc \in Places
  /\ cur \in [id : 0 .. MaxJobs, plugin : Plugins]
  /\ proc \in Pids \cup {NoPid} /\ elapsed \in 0 .. (Timeout + 1)
  /\ DOMAIN downloads \subseteq 1 .. MaxJobs
  /\ pm_locked \in BOOLEAN /\ orch_locked \in BOOLEAN
  /\ stopped \in {"no", "signal", "lag"}
  /\ \A r \in {"executor", "main"} : Len(bus[r].unread) <= Capacity

(* A live child is always the process of the job in hand: the executor      *)
(* never starts a job with the process of another alive, whichever way the *)
(* earlier one ended (timeout, exit, wait error, panic), so max_concurrent *)
(* is never reached, and a daemon that exits orphans one process at most.  *)
LiveProcessIsInHand ==
  \A p \in Pids :
    S!Live(p) => p = proc /\ pc \in {"track", "poll", "cleanup", "dead"}

(* Whenever the executor attends to control commands, the supervisor tracks *)
(* nothing that could be signalled: pause, resume and cancel act on queue   *)
(* entries alone.                                                          *)
ControlFindsNoProcess ==
  pc \in {"select", "lagged"} => S!AllTracked = {}

(* The daemon implements JobService: whatever enqueues, control commands,   *)
(* exits, panics and shutdowns interleave, each job is executed at most    *)
(* once, never two at a time, and never after a pause, resume or cancel    *)
(* command moved it out of Pending.                                        *)
QueuedWith(Statuses) ==
  {jobs[k].id : k \in {m \in DOMAIN jobs : jobs[m].status \in Statuses}}
InHand == IF cur.id = 0 THEN {} ELSE {cur.id}
Service == INSTANCE JobService WITH
  waiting <- QueuedWith({"Pending"}),
  shelved <- QueuedWith(JobStatus \ {"Pending"}),
  executing <- InHand,
  over <- Q!HandedIds \ InHand
ImplementsJobService == Service!JSpec

(* The executor gets through every job: it comes back to its select!, or it *)
(* is in one of two dead ends (waiting at line 167, or panicked), or the   *)
(* daemon has exited.  A child that never exits does not hold it up.       *)
Wedged == pc \in {"await_pm", "dead"}
JobsEnd == pc \notin {"select", "lagged"} ~> (pc = "select" \/ Wedged \/ ~ Up)

(* Once the events of others cease, no pending job stays pending, unless the *)
(* executor is wedged or the daemon has exited.  While they come one within *)
(* the 200 ms of the sleep branch of another, that branch is never taken:   *)
(* its sleep starts again with each event, and the job waits.              *)
IsPending(id) == \E k \in DOMAIN jobs : jobs[k].id = id /\ jobs[k].status = "Pending"
PendingJobsTaken ==
  <>[][~ OtherEvent]_dvars =>
    \A id \in 1 .. MaxJobs : IsPending(id) ~> (~ IsPending(id) \/ Wedged \/ ~ Up)

(* src/executor.rs:164, "Failure - hand to retry orchestrator": the branch  *)
(* that locks the orchestrator for a failed job gets to handle_failure.    *)
FailureReachesOrchestrator == pc = "await_pm" ~> (pc # "await_pm" \/ ~ Up)

(* src/main.rs:556, "Kill all managed processes before exit": after a       *)
(* shutdown signal no child that the supervisor tracks is alive.           *)
ShutdownKillsManaged ==
  stopped = "signal" => \A p \in S!AllTracked : ~ S!Live(p)

(* src/cli.rs:73, "Cancel a running or paused job": a job whose cancellation *)
(* was requested as it started is not left to run into its timeout.        *)
CancelBeatsTimeout ==
  [][cur.id \in early_cancel => ~ PollTimeout]_dvars
=============================================================================
