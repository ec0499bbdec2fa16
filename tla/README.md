# NetGuardian in TLA+

NetGuardian is a daemon and a command line tool (Rust, tokio) that runs network
commands (git, curl, wget, ssh, ...) as jobs: it queues them, runs each in a
child process, watches it, retries what failed and reacts to the state of the
network. This directory holds TLA+ modules of its core, the TLC configurations
that check them on small instances and TLAPS proofs of what matters most.
Paths below are relative to the repository; `l.` is a line of the file named.

    tlc -workers 2 -config MCQueueManager.cfg MCQueueManager     # a run
    tlapm QueueManagerProofs.tla                                 # a proof

## 1. Inventory

| Component (file in `src/`) | State | Operations | What makes it correct |
|---|---|---|---|
| Job (`job.rs`) | status, retry_count, max_retries | new, can_transition, set_status, is_terminal | a final status is left only by an explicit retry |
| Queue manager (`queue_manager.rs`) | a `VecDeque<Job>` and the auto_resume flag under one mutex; the global `NEXT_JOB_ID` | enqueue, dequeue, update_status, remove, retry_failed, resume_all, clear_completed, stats | no job lost, doubled or revived; priorities respected; retries bounded |
| Retry engine (`retry_engine.rs`) | attempt, consecutive failures, circuit (Closed, Open, HalfOpen) and when it opened, network conditions | record_failure/success, should_retry, next_retry, reset | the circuit opens and closes when it should, delays are capped |
| Retry orchestrator (`orchestrator.rs`) | one engine for the jobs of all callers | handle_failure, handle_success, update_network | each failure is retried or given up once, within both budgets, and announced once |
| Process supervisor (`process_supervisor.rs`) | a map from plugin to process handles under a mutex; each handle's status | spawn, stop/cont/terminate_all, cleanup, all_running; try_wait on handles | no live child is dropped, no live child is reported ended |
| Job executor (`executor.rs`) | one task; `max_concurrent` | execute_loop, execute_next, pause/resume/cancel_job | every job taken ends, and its process with it |
| Event bus (`event_bus/`) | a tokio broadcast channel | publish, subscribe | a receiver that lags is told so |
| Download manager (`download_manager.rs`) | entries by job id under a mutex | track, update_progress, complete, fail, stats | tracked downloads end |
| Daemon (`main.rs`, `cmd_daemon`) | the components, four tasks | event loop, Ctrl-C, monitor task | nothing is left running |
| IPC server (`ipc.rs`) | none | control commands (published as events), queries | a command reaches the job it names |
| Metrics (`metrics.rs`) | atomics and a mutex taken with `try_lock().unwrap()` | record_*, snapshot | totals add up; recording never stops a caller |
| Cache manager (`cache_manager.rs`) | a `Vec` of entries under a mutex, and the files | get, put, put_path, remove, clear | files and entries agree, size bounded, least used out first |
| Network monitor (`monitor/`) | none | probes and a verdict | the verdict follows the probes |
| Rule engine (`rule_engine.rs`) | rules, the times they fired | evaluate | cooldowns respected |
| Adaptive scheduler (`adaptive_scheduler.rs`) | counters, last failure | suggest_concurrency, record_* | the suggestion stays in its bounds and follows quality and failures |
| Storage (`storage.rs`) | a process's copy of the jobs and its dirty mark; the files of jobs and configuration; an event log | save, save_if_dirty, load, insert, get_mut, remove | what was saved survives; the user's configuration is not replaced |
| Plugin manager (`plugin_manager.rs`) | a map from names to plugins behind a mutex each, the manager itself behind another | register, unload, discover_builtin, get, the `*_all` batches, retry/cancel_plugin | batches do what they say among other callers; nothing unloaded keeps running; no call hangs |
| Community plugins (`community_plugins.rs`) | installed plugins in a process's copy and on disk; a state each | install, remove, load, is_compatible | installs are not lost, nothing incompatible is let in |
| Command line (`cli.rs`, the other commands of `main.rs`) | none | prints reports | - |

How they interact. `cmd_daemon` starts the executor task, the IPC server and
the monitor task and then runs the event loop. Clients put jobs into the queue;
the executor takes them out with `dequeue` (a job in execution is *not* in the
queue), runs each under the supervisor, and publishes events. IPC control
commands are events on the bus that the executor reads in its `select!`. The
orchestrator is handed failed jobs; the plugin manager sits behind a mutex of
the daemon. The metrics are shared by all tasks.

What is hard: the interleavings of enqueues with the queue's other methods; one
task that both runs jobs and reads their control commands; locks held across
awaits; a retry engine shared by all jobs; children that exit, stop, are
reaped and have their pids reused while several handles describe them; panics
in the middle of a job; receivers that lag; a cache whose entries share files;
processes that rewrite the same files without a lock and die while they do;
plugins that the manager and tasks with handles call at the same time.
`PROJECT.json` lists these hazards at their lines with the properties aimed at
them.

## 2. Modules

| Module | Models | Kind |
|---|---|---|
| `Job` | `job.rs` | operators |
| `QueueManager` | `queue_manager.rs` | state machine |
| `RetryEngine` | `retry_engine.rs` | operators on the engine's record |
| `Orchestrator` | `orchestrator.rs` over `RetryEngine` | state machine |
| `ProcessSupervisor` | `process_supervisor.rs` over a kernel | state machine |
| `EventBus` | `event_bus/bus.rs`, tokio's broadcast channel | operators |
| `DownloadManager` | what the executor calls of `download_manager.rs` | operators |
| `Daemon` | `executor.rs`, `cmd_daemon`, IPC control, composing the above | state machine |
| `JobService` | what the daemon promises about jobs | abstract specification |
| `CacheManager` | `cache_manager.rs` | state machine |
| `Network` | the monitor task of `cmd_daemon` with `monitor/`, `metrics.rs`, `rule_engine.rs` | state machine |
| `AdaptiveScheduler` | `adaptive_scheduler.rs`, over the readings of `Network` | operators |
| `Storage` | `storage.rs` and the registry of `community_plugins.rs`: processes that share files | state machine |
| `PluginManager` | `plugin_manager.rs` and the plugins' life cycle, among tasks with handles | state machine |
| `MC*` | constants for TLC | |
| `*Proofs` | theorems for TLAPS | |

**QueueManager.** `jobs` is the `VecDeque` as a function from stamps (the order
of `push_back`) to records, so that removing from the middle is a restriction
of the function. `enqueue` is two steps, `JobNew` (the id is drawn, l.46) and
`PushBack` (under the mutex, l.48-51), because it awaits in between; every
other method is one step. `handed`, `left` and `fails` are history: ids
dequeued, ids removed, and how often a job was marked Failed in the queue.

**RetryEngine, Orchestrator.** Error texts are sets of the words `classify`
looks for. Time is a counter; `handle_failure` reads the clock three times
(l.53, 59, 86), so two of the readings may be later than the first (`Later`).
Delays are integers; the exponential (`growth`, a recursive function), the network factors, the jitter
and the cap are kept. `sent` counts the events about each job, `granted` (history) the attempts
the engine has handed out since the last reset. `Run` lets a caller run a job again that was
left Pending. No code of the repository does: the executor, the only caller, neither
puts the job back nor runs it. The safety properties hold for every caller, whether it runs a
job once or again; that a retried job ever ends holds for none, and is not claimed.

**ProcessSupervisor.** The kernel has a state per pid: free, running, stopped,
zombie, reaped, or reused by a foreign process. `Start` and `Track` are the two
halves of `spawn` around the map's lock (l.202-204). `TryWait` and `Terminate`
act on a clone of a handle, as the executor does. `terminate` sends SIGTERM,
waits and sends SIGKILL; a child that dies of the first is an `Exit` before it.
An end by a signal has no code in the source (`-1`); it is `BySignal` here. Lines
161-163 call `Child::try_wait`, which needs `&mut`, through a shared borrow, and
are modelled as the call that is meant.

**Daemon.** `pc` is where the executor task waits; each step is the code between
two awaits that another task's step may come between. The plugin manager's
mutex is held from l.74 to the end of `execute_next`; `await_pm` is l.167, where
the same task locks it again. `record_operation` may panic at
`try_lock().unwrap()` whenever another task is inside the metrics mutex, hence
`... \/ Panic`. `OtherEvent` publishes what the executor and the event loop read and
ignore, such as the monitor task's events, in any number: they fill the channel, and they
wake the executor's `select!`. `elapsed` counts intervals of the polling loop, `Timeout` is the
hour in that unit. Children run on after the daemon's exit. The engine's state
is left out because `handle_failure` is never reached. At this commit nothing
in the daemon calls `enqueue`; the model has clients that hold the
`QueueManager`, as its `Clone` handle invites.

**JobService** is the daemon as a user sees it: jobs wait, are executed one at a
time and at most once, and a job shelved by a command while it waits is never
executed. `Daemon!ImplementsJobService` states that the daemon implements it
under the mapping waiting = queued and Pending, shelved = queued otherwise,
executing = the job in hand, over = the other ids handed out.

**CacheManager.** The `Vec` is a function from stamps to entries. `FileOf` is
`sanitize_filename`, which maps several keys to one name. A put is `Put` (the file is
written, the entry pushed), any number of `EvictOne` and `PutReturns`, during which the
mutex keeps the other methods out but not whoever deletes files, nor the end of the process.
The directory outlives the process: `CInit` finds any files there, and `Restart` may come
between any two steps. `disk` are the files this process wrote, with the put that wrote
them; `lost` are the others: those of earlier processes, those a failing write has
truncated (`PutFails`), those whose `remove_file` failed while their entry was dropped (`Drop`), and copies whose source
changed while `put_path` read it twice. No entry stands for a lost file's content,
and the cache's limit says nothing of them.

**Network.** One iteration of the monitor task (`main.rs` l.501-548) is `Collect`,
`Record`, `RecordTotals`, `Announce`, `Sleep`: between them lie the await of the
probes, the gap between the atomics of `record_online`/`record_offline` and their
`try_lock().unwrap()`, and the sleep. The unwrap may panic, which ends the task
(`dead`). A network is what the probes find on it; `Failing` is one on which a
probe returns an error, which the task takes for no answer. `verdict` keeps the
thresholds; replies beyond the probes sent (duplicates) make
`total_probes - succeeded` wrap round in a release build (`Wrapped`) and panic in
a debug build. `Snapshot` is an IPC client's; it writes to the totals it reports.
The cooldown of a rule is measured from its *first* entry in the log, as
`find` does. `EvalResult`s are dropped by the daemon, so `hits` is only kept for
the property. The two events published here reach no receiver that acts on
them; on `Daemon`'s bus they are its `OtherEvent`.

**AdaptiveScheduler** extends `Network`: `suggest_concurrency` is applied to what the
monitor task has just read, for every configuration and every history of
failures up to `MaxFailures` (the penalty stops growing at four). Nothing in the
program calls the scheduler, so it has no place in a step of the daemon; its
answers are checked where a caller would ask, at each reading. The penalty of
half an operation per failure is truncated by the code's cast, hence `\div`. With a cooldown
of zero no failure is ever less than the cooldown ago; one of the settings checked has it.

**Storage.** A process starts (`Boot`, which loads the configuration and may
rewrite it), opens one file, changes its copy in memory and saves it, and may
be killed anywhere (`Stop`). `fs::write` is `Truncate`, after which the file is
`garbled` for everyone, and `Write`; each has a failing twin. A load of a file that is
absent or garbled gives the default, as `unwrap_or_default` does; garbled is also a user's
configuration that leaves out a field, which `from_str` rejects. Reading a file that is
whole may fail: `Open` then starts with nothing, and `Boot` overwrites the configuration with the
defaults (`storage.rs` l.210-217). `missed` (history) is that a start overlapped the last edit of the
configuration or failed to read what it left. `stale` marks a
copy that is not what the file holds: opened by
`CommunityPluginRegistry::new()`, loaded while another process writes, or
outrun by another's save. `kept` is what the saves that returned have
promised, `spoiled` the files on which that promise is off, with the reason at the action
that puts them there. `work` fixes the file a behaviour is about: the three
files share nothing, and checking them together would only multiply states.

**PluginManager.** `call` is the manager's method in progress with the plugins it
has still to visit; the manager's mutex is held while it is not idle. `Visit`
waits for the plugin's own mutex, which a task may hold (`Lock`, `Use`, `Unlock`).
`retry_plugin` and `cancel_plugin` lock the plugin twice: `CheckCapability` takes the first
lock in the manager's name, `DropLock` is its `drop` (l.711, 727), and `Visit` the second lock with the call.
In between a task may get the lock.
All plugins of the source have the same state machine (`after`), and differ in
whether they have the capability Resume. Plugin objects are numbered as they
are made, because a handle outlives the map's entry and a second object may be
registered under the name. `loose` is history: objects replaced by `register`, or
called by a task after they had left the map.

## 3. Runs

| Run | Module | Bounds | What it shows |
|---|---|---|---|
| `queue` | MCQueueManager | 3 jobs, 2 priorities, 1 retry; 360,200 states | ids conserved, no priority inversion, failures bounded, cancel final |
| `retry` | MCOrchestrator | 2 jobs of 2 retries, engine of 3 attempts, 5 policies, time to 2; 38,752 states | circuit, budgets, events, delay cap |
| `supervisor` | MCProcessSupervisor | 2 plugins, 3 pids, one reusable; 285,981 states | live children stay tracked, ended ones are dead |
| `daemon` | MCDaemon | 2 jobs, 2 plugins (one not loaded), 2 pids, bus of 2, 2 commands, any number of other events, timeout at once; 3.19 million states | the daemon's invariants and the refinement of JobService |
| `daemon_liveness` | MCDaemon | the same without commands but with any number of other events, one interval before the timeout, no symmetry; 78,570 states | jobs end; pending jobs are taken once other events cease |
| `cache` | MCCacheManager | 4 keys on 3 files, sizes 1 and 3, limit 3, 5 puts or hits, any files there at the start; 287,772 states | files, entries and limit agree at each step of a put; eviction order |
| `network` | MCNetwork | 5 networks and a failing one, 3 changes, clock to 4, cooldown 2, log of 2; 4 settings of the scheduler, one without cooldown, 5 failures; 82,425 states | metrics and events agree, uptime and downtime disjoint, rules muted no longer than their cooldown, a lasting change is noticed; the scheduler's suggestions |
| `storage` | MCStorage | 2 processes at a time, 3 in all, 2 job ids, 4 manifests, 2 edits; 970,018 states | saves are kept, the user's configuration stays where it could be read, nothing incompatible is installed |
| `plugins` | MCPluginManager | 3 names, 2 plugin objects, 2 tasks; 345,636 states | batches, unloads and that every call returns |
| `daemon_failure` | MCDaemon | 1 job | violated, see below |
| `daemon_shutdown` | MCDaemon | 1 job | violated, see below |
| `daemon_cancel` | MCDaemon | 1 job, commands | violated, see below |

Why the bounds are enough: two jobs of a shared engine already show one
spending the other's attempts, three queued jobs of two priorities show every
relation that `dequeue` decides on, an engine threshold of 1 and 2 with cooldown
1 and 2 lets the circuit open, cool, half-open, reopen and close; three pids let
one be reused while two others are tracked; a bus of two events lags on the
third; a limit of 3 with sizes 1 and 3, three files and two keys on one of them gives evictions
of shared files, of the fresh entry and of several entries by one put.
A network flips at most three times: good, lost, back, lost again, so each counter
moves twice and a stretch of each kind begins and ends. A log of two entries
overflows with the third rule that fires. Two processes show every overlap of a load with
a save, the third loads what they leave; two ids let a process collide with a job it
loaded and have one it did not; the manifests lie on, below and above the
current version, and one has none. Two plugin objects let one
replace the other, share a batch with it or outlive it in a handle, and two tasks contend for a
plugin with the manager and with each other. (A third object has been checked with one
task: 1.8 million states, nothing new.) `MaxStarts`, `MaxEdits`, `MaxId`, `MaxPlugins`,
`MaxFailures`, `MaxJobs`, `MaxRequests`, `MaxTime`,
`MaxClock`, `MaxFlips`, `LogSize`, `Cooldown` and `Timeout` are the bounds; the last
three stand for constants of the code (1000 entries, 30 s, an hour), the
others for unbounded inputs, and each is a guard of the action that uses it.

`CHECK_DEADLOCK FALSE` is set where a behaviour may end: the daemon exits and
its children die, the executor panics or waits for itself; every process has been started and has ended. It is also set for the plugins, where TLC would
report a manager that waits for ever as a deadlock without naming `CallsReturn`, which excludes it.
The queue, the orchestrator, the supervisor, the metrics and the cache always have a step, and are checked for deadlock.

**Fairness.** The daemon's tasks are scheduled by tokio (`DSpec`): weak fairness of the executor
task, of the event loop, and of an enqueue that has drawn its id and waits for
the queue's mutex, which tokio grants in turn. The monitor task has weak fairness too (`NSpec`): its probes
have timeouts and its sleep ends. A method of the plugin manager goes on when the plugin it waits for is
unlocked again and again (`SF` of `CheckCapability` and of `Visit` in `PluginSpec`: tokio's mutexes are granted in
turn; `WF` of `DropLock`, which waits for nothing), and a task that has locked a plugin lets go of it. Clients, the kernel, the network and the
operator owe nothing: a child need not exit, and the jobs end all the same by
their timeout. Nor is the executor promised its turn to start a job: `select!` (`executor.rs` l.207) makes
a new `sleep(200 ms)` at each turn of its loop (l.222), so events that keep coming closer than that
keep it from ever calling `execute_next`. `OtherEvent` shows it; `PendingJobsTaken` is
therefore about the behaviours in which such events cease, and fails without that premise.

**What the violated runs show.**

* `daemon_failure`: `executor.rs` l.164 says "Failure — hand to retry
  orchestrator", but l.167 locks the plugin manager's mutex while the guard of
  l.74 is alive. The task waits for itself; from the first job with a non-zero
  exit code on, no job runs and no command is read.
* `daemon_shutdown`: `main.rs` l.556 says "Kill all managed processes before
  exit", but l.557 asks for the processes of plugin `""`, and there are none.
* `daemon_cancel`: `cli.rs` l.73 says "Cancel a running or paused job", but the
  executor reads commands only between jobs, and by then the job is in neither
  the queue nor the supervisor's map.

Disagreements met without a run: README l.42 says signals go to "the entire
process group", and the code signals the positive pid; the assertions of
`test_retry_failed` (`queue_manager.rs` l.251) and `test_resume_all` (l.265) do not
follow from the code they call; `retry.circuit_breaker_threshold` of the
configuration is not passed to the engine. `snapshot` overwrites the totals with the
current stretch, which the next change of state adds once more, so that
"Total uptime" (`metrics.rs` l.254) may exceed the daemon's life: hence the
condition of `TotalsWithinLife`. README l.38 calls the rules "cooldown-gated", and
once a rule's first firing is older than its cooldown nothing mutes it until
that entry leaves the log. `cmd_community` starts from
`CommunityPluginRegistry::new()` (`main.rs` l.206), which never loads the installed
file: `remove` finds nothing and `install` replaces what was there. The comment
on `pause_all` says "Pause capability" (`plugin_manager.rs` l.673) and the code asks
for Cancel, so podman is paused, and `resume_all` does not resume it; `register_named`
drops the plugin it replaces as it is, running or not; `version_lt` takes 0.1 for
older than 0.1.0. README l.228 calls a setting "Default max retries per job";
`handle_failure` increments the count (`orchestrator.rs` l.54) before it compares with
`>=` (l.86), so there is one retry less. "Re-enqueue for retry" (`orchestrator.rs` l.107)
only sets the status to Pending on the caller's copy of the job, and the executor (l.163-173) drops that copy: a
granted retry is never run. The executor records each outcome with `update_status`
(l.151, 168), which finds nothing, as `dequeue` has taken the job out: the queue keeps no result, where README l.47-48 shows
jobs that go from Running to a final state. README l.207 calls the configuration
"auto-created with defaults on first run"; `AppConfig::load` also overwrites one
that is there and that it cannot read or parse, a field left out included. `max_size` of the cache
bounds the files its entries stand for, not the directory: files of
an earlier process and those `remove_file` failed on stay for good.

## 4. Proofs

Checked by tlapm with Z3, Zenon and LS4, for every value of the constants that
satisfies the named assumptions of the modules (types: naturals,
and positive where the code divides by them or needs at least one). Every
invariant and every action property of the passing runs is a theorem.

Where a definition recurses over data (sums over sets, the exponential, the fold
over the rules, the order of versions), the library's induction theorems cannot
be used, as the provers cannot instantiate their operator parameter. Minimal
counterexamples replace them: if a fact fails for some number (or finite set), it
fails for a least one (`LeastNat`, `LeastSubset`, from the library's
well-foundedness of `<` and of the strict subsets of a finite set), and the definition unfolded
there once is a contradiction.

**QueueManagerProofs.** `QInv` is the type invariant, `EachJobInOnePlace`, that an
id not yet drawn is nowhere, and the account `FailuresMatchRetries`. The
strengthening is needed because `retry_failed` writes past `set_status`: that the
failures are bounded follows only from failures = retries granted (+1 while
Failed) together with retry_count <= max_retries. Theorems: `QueueTypes`,
`QueueInvariant`, `JobsAreConserved`, `RetriesMatchFailures`, `FailuresAreBounded`,
`CancelledStaysCancelled`, `DequeueTakesTheHighest`.

**OrchestratorProofs.** `OInv` is the part of the types that does not depend on the
size of a delay, `ClosedIffBelowThreshold`, `JobBudgetHolds`,
`EventsMatchOutcome`, and that what was granted since the last reset is what the engine counts as spent
(`NoneGivenBack`), on which `SpentBudgetIsFinal` rests. Each action is reduced to what it does to the engine (a
lemma on `record_failure` and `update_circuit_state`) and to the job's record.
`DInv` adds that the delay last granted is a natural and within its cap (`DelayOK`),
which rests on `growth` unfolding (`GrowthUnfolds`) and having values in the
naturals, and on the `min` with `max_delay` coming after every factor. Theorems:
`OrchestratorInvariant`, `CircuitMatchesFailures`, `JobBudgetsHold`,
`EventsAccountForJobs`, `SpentBudgetIsFinal`, `OpenCircuitHolds`, `DelayInvariant`,
`OrchestratorTypes`, `DelaysAreCapped`.

**ProcessSupervisorProofs.** `SInv` adds to the three invariants of the run that a
pid not yet used is held by no handle (`FreshIsHeldNowhere`), without which
`Start` could hand out a pid that is tracked. Theorems: `SupervisorInvariant`,
`SupervisorTypes`, `LiveChildrenAreTracked`, `EndedProcessesAreDead`.

**NetworkProofs.** `NInv` is the types, `Accounts` and `Stretches`. Neither property is
inductive: between the swap of `is_online` and the end of the iteration the
metrics are ahead of the events by what `Accounts` says for each `pc`, and the
totals are behind `is_online` by the stretch that `RecordTotals` is about to add;
`Stretches` says they end where the current stretch begins. Theorems:
`NetworkInvariant`, `MetricsAndEventsAgree`, `TotalsAreDisjoint`.

`NAllTypes` adds the clock, the reading and the rules' log with its bound.
`evaluate` folds over the rules; `Visited` says what holds after the first n of them (what
is new in the log is of those rules, and those whose condition held and that
stayed silent have a firing within the cooldown), and `EvaluateVisits` that the
fold passes through such states. Entries are dropped from the
log meanwhile, so what silences a rule must be traced to the log before the
evaluation: it is there because all that is new is of rules visited already. For the scheduler, `Suggested` is what
`suggest_concurrency` returns with the step for the quality as a parameter: monotone in the step, so each comparison
of `SuggestionFits` is one of penalties (`PenaltyMonotone`) or of qualities
(`QualityMonotone`). Theorems: `NetworkAllTypes`, `NetworkTypes`,
`RulesAreNotMutedLonger`, `SuggestionsFit`.

**StorageProofs.** `SInv` is the shapes of files, processes and promises (each copy
has the keys of its own file), `OpenedFirst`, `CleanIsUnchanged`, `WritesAlone`, `CopiesAgree` and
`SavedIsKept`. What a save has promised survives the next save only because that
one's copy was right: `CopiesAgree` says that a copy that is not stale differs
from the promise just where its process has changed it, and `WritesAlone` that
while a process has truncated a file every other copy of it is stale, so that no
second writer can bring back what it replaces. `CleanIsUnchanged` is the dirty
mark: without it `save_if_dirty` might skip a change. For the configuration
`ConfigInv` adds `NoneReplaces`: unless a start overlapped the edit or failed to read what it left (`missed`),
no process is about to replace a configuration that is being edited or that the user has left complete. Theorems: `StorageInvariant`,
`SavesAreKept`, `ConfigStaysTheUsers`.

`HoldInv` adds what may be under each key of each file, of each promise (`FilesFit`) and of each
process's copy (`CopiesFit`): a plugin is only installed if a manifest of that name supports
this version. Versions are sequences of any length, a missing part being 0
(`Part`), compared at the least part in which they differ (`NotNewer`); `VersionsInOrder` is that a
version which `version_lt` does not put before another one is not older, which
`is_compatible` takes for granted. Theorems: `FilesHoldTheirData`,
`StorageTypes`.

**PluginManagerProofs.** `PInv` adds to the two properties the types and that every
method but `unload` has only plugins of the map left to visit (`CallShape`): a visit
by such a method leaves a plugin in the map, so only `unload`'s own visit, which shuts
it down, takes one out of both. Actions of the manager that start are reduced to
`BeginStep`, those that make plugins to `CreateStep`, those of the tasks to `HandleStep`.
Theorems: `PluginInvariant`, `BatchesAreDone`, `UnloadedPluginsAreDown`.

**CacheManagerProofs.** `CInv` is `CTypeOK` and `FilesHaveTheirEntry`, inductive as they
are: whatever `remove_file` does, an entry that goes leaves no file that is still said to be its own (`Drop`). `LimitInv` adds
`EntriesWithinLimit`: the sum of the entries' sizes exceeds `max_size` by the put in progress at
most. The lemmas on `SumFunction` (a part's sum
is no larger, an element taken out takes its value along, a smaller sum is
reached along an injection) are proved from its definition by minimal
counterexample; `DiskWithinLimit` follows as every file is charged to an entry of its own.
That evictions go by use rests on a put's rounds taking a least used entry each, so that the
highest count evicted (`most`) is never above one that is left. Theorems: `CacheInvariant`, `CacheTypes`,
`FilesAreAccountedFor`, `EntriesFit`, `DiskStaysWithinLimit`, `LeastUsedGoFirstHolds`.

**DaemonProofs.** `ChildInv` is the types of the kernel's processes, what the supervisor
tracks at each `pc` (`TracksTheJob`: nothing before `Track`, only the child in hand after it), and
`LiveProcessIsInHand`. Both it and `ControlFindsNoProcess` need `TracksTheJob`: that a command
finds no process follows from where `execute_next` takes a child out of the map,
not from the commands. `ServiceInv` is the queue's `QInv` and that the job in hand was handed out
(`InHandIsHanded`). `QInv` is not proved again: every step of the daemon is shown to
leave the queue alone, to submit, to command or to begin (`QueueStep`), the last
three being steps of `QNext`, and the step lemma of `QueueManagerProofs` is cited through INSTANCE.
The same four cases give the refinement of `JobService`, whose promise is then said of the daemon
(`ExecutedOrShelvedIsFinal`), and that of the queue's own specification
(`DaemonCallsTheQueue`): what `QueueManagerProofs` shows of the queue alone, it shows of the queue in
the daemon. `DaemonCallsTheSupervisor` is the same for the children, under `ChildInv`, whence
`ChildrenAreTracked`.

`TaskInv` joins both with `LocksHeld` (the plugin manager is locked exactly
while a job is executed, the orchestrator exactly at l.167), `TaskTypes` and
`BusOf` (a receiver that has missed events has a full buffer, so `Lagged`
comes before any event it reads); it gives `DTypeOK`. `WedgeIsForGood`: a task
that waits at l.167 or has panicked never moves, for any number of jobs. It is the
other half of the run `daemon_failure`, which finds the way into it. Theorems:
`ChildInvariant`, `LiveProcessesAreInHand`, `CommandsFindNoProcess`, `ServiceInvariant`,
`DaemonImplementsJobService`, `ExecutedOrShelvedIsFinal`,
`DaemonCallsTheQueue`, `DaemonCallsTheSupervisor`, `ChildrenAreTracked`,
`TaskInvariant`, `DaemonTypes`, `WedgeIsForGood`.

Only model-checked: the liveness properties (`JobsEnd`, `PendingJobsTaken`,
`VerdictCatchesUp`, `CallsReturn`), as TLAPS does not
reason about fairness and ENABLED here, and the counterexamples of the three runs that expect one.

## 5. Not modelled, and the plan

Not modelled: texts, logging, progress numbers, owners and metadata; the
commands of `main.rs` that print; `cli.rs`; the network probes and the downloads
themselves (I/O); the index of community plugins, its search and its refresh (data); the
event log of `storage.rs` (a bounded list of text nobody reads back); the scheduler's windows of
readings, active count and queue depth (reported only). `IpcServer`'s queries
only read. `DownloadManager::set_active_limit` and `remove` have no caller in the
daemon. Of the metrics, bandwidth, samples and the operation log are left out;
`Daemon` has them only as the panic of `try_lock().unwrap()`.

Next, in this order:

1. `cmd_monitor`: a second monitor loop beside the daemon's, over the same probes.
2. Abstract specifications of the cache (a map of bounded size whose files are
   its values) and of the files of `Storage` (registers that a kill leaves old,
   new or default), and that the modules implement them.
3. The order of events on the bus as a theorem of `EventBus` alone, for any number of
   receivers.
