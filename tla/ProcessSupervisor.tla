-------------------------- MODULE ProcessSupervisor --------------------------
(***************************************************************************)
(* Child processes and the supervisor that tracks them per plugin          *)
(* (src/process_supervisor.rs), with the part of the kernel they rely on.  *)
(*                                                                         *)
(* The kernel keeps a pid until its parent has waited for it and may give  *)
(* it to a foreign process afterwards.  A ManagedProcess and its clones    *)
(* share one status.  The Vec of a plugin is the set of its pids: nothing  *)
(* depends on the order in which they are signalled.  Children have a      *)
(* process group each, but every signal goes to the child alone, so the    *)
(* rest of its group is not modelled.                                      *)
(***************************************************************************)
EXTENDS Naturals, FiniteSets

CONSTANTS
  Plugins,      \* keys of the process map
  Pids,         \* bound: pids the kernel hands out
  Recycled      \* the pids the kernel gives to a foreign process after a wait

ASSUME SupervisorAssumption == Recycled \subseteq Pids

VARIABLES
  os,        \* kernel: the state of the process a pid denotes
  code,      \* kernel: its exit code (256 stands for killed by a signal)
  status,    \* ManagedProcess.status, shared by the clones of the handle
  starting,  \* spawned, but spawn still waits for the mutex of the map
  tracked    \* ProcessSupervisor.processes

svars == <<os, code, status, starting, tracked>>

BySignal == 256
OsState == {"unused", "running", "stopped", "zombie", "waited", "foreign"}
ProcessStatus == {"None", "Running", "Stopped", "Exited", "Killed"}

SInit ==
  /\ os = [p \in Pids |-> "unused"]
  /\ code = [p \in Pids |-> 0]
  /\ status = [p \in Pids |-> "None"]
  /\ starting = [pl \in Plugins |-> {}]
  /\ tracked = [pl \in Plugins |-> {}]

Live(p) == os[p] \in {"running", "stopped"}

-----------------------------------------------------------------------------
(* The kernel. *)

(* A running process exits by itself. *)
Exit(p, c) ==
  /\ os[p] = "running"
  /\ os' = [os EXCEPT ![p] = "zombie"]
  /\ code' = [code EXCEPT ![p] = c]
  /\ UNCHANGED <<status, starting, tracked>>

(* A pid that was waited for is given to a foreign process. *)
Recycle(p) ==
  /\ p \in Recycled /\ os[p] = "waited"
  /\ os' = [os EXCEPT ![p] = "foreign"]
  /\ UNCHANGED <<code, status, starting, tracked>>

-----------------------------------------------------------------------------
(* ManagedProcess: what its methods do to the handles in S. *)

(* kill(pid, signal) with a positive pid reaches that process alone, and    *)
(* succeeds as long as the pid denotes some process, a zombie included.    *)
Signalled(p) == os[p] \in {"running", "stopped", "zombie", "foreign"}

(* stop() on every handle of S. *)
stop(S) ==
  /\ os' = [p \in Pids |->
              IF p \in S /\ os[p] = "running" THEN "stopped" ELSE os[p]]
  /\ status' = [p \in Pids |->
                  IF p \in S /\ Signalled(p) THEN "Stopped" ELSE status[p]]
  /\ UNCHANGED code

(* cont() on every handle of S. *)
cont(S) ==
  /\ os' = [p \in Pids |->
              IF p \in S /\ os[p] = "stopped" THEN "running" ELSE os[p]]
  /\ status' = [p \in Pids |->
                  IF p \in S /\ Signalled(p) THEN "Running" ELSE status[p]]
  /\ UNCHANGED code

(* Mutant: SIGTERM without the SIGKILL; a stopped process does not take it. *)
terminate_TermOnly(S) ==
  /\ os' = [p \in Pids |->
              IF p \in S /\ os[p] = "running" THEN "zombie"
              ELSE IF p \in S /\ os[p] = "foreign" THEN "unused"
              ELSE os[p]]
  /\ code' = [p \in Pids |->
                IF p \in S /\ os[p] = "running" THEN BySignal ELSE code[p]]
  /\ status' = [p \in Pids |-> IF p \in S THEN "Killed" ELSE status[p]]

(* Mutant: the exit code of a killed child is given the way a shell does. *)
terminate_ShellCode(S) ==
  /\ os' = [p \in Pids |->
              IF p \in S /\ Live(p) THEN "zombie"
              ELSE IF p \in S /\ os[p] = "foreign" THEN "unused"
              ELSE os[p]]
  /\ code' = [p \in Pids |-> IF p \in S /\ Live(p) THEN 128 + 9 ELSE code[p]]
  /\ status' = [p \in Pids |-> IF p \in S THEN "Killed" ELSE status[p]]

(* terminate(grace) on every handle of S: SIGTERM, the grace period, then   *)
(* SIGKILL, and Killed whatever the process was.  A foreign process that   *)
(* has the pid by now dies with it.                                        *)
terminate(S) ==
  /\ os' = [p \in Pids |->
              IF p \in S /\ Live(p) THEN "zombie"
              ELSE IF p \in S /\ os[p] = "foreign" THEN "unused"
              ELSE os[p]]
  /\ code' = [p \in Pids |-> IF p \in S /\ Live(p) THEN BySignal ELSE code[p]]
  /\ status' = [p \in Pids |-> IF p \in S THEN "Killed" ELSE status[p]]

(* try_wait() on every handle of S: an exited child is waited for, once;    *)
(* std's Child remembers the exit status and answers the same from then on. *)
Gone(p) == os[p] \in {"zombie", "waited", "foreign"}
try_wait(S) ==
  /\ os' = [p \in Pids |->
              IF p \in S /\ os[p] = "zombie" THEN "waited" ELSE os[p]]
  /\ status' = [p \in Pids |->
                  IF p \in S /\ Gone(p) THEN "Exited" ELSE status[p]]
  /\ UNCHANGED code

-----------------------------------------------------------------------------
(* ProcessSupervisor. *)

(* spawn, first half: spawn_with_pgroup starts the child. *)
Start(pl, p) ==
  /\ os[p] = "unused" /\ status[p] = "None"
  /\ os' = [os EXCEPT ![p] = "running"]
  /\ status' = [status EXCEPT ![p] = "Running"]
  /\ starting' = [starting EXCEPT ![pl] = @ \cup {p}]
  /\ UNCHANGED <<code, tracked>>

(* spawn, second half: the handle enters the map. *)
Track(pl, p) ==
  /\ p \in starting[pl]
  /\ starting' = [starting EXCEPT ![pl] = @ \ {p}]
  /\ tracked' = [tracked EXCEPT ![pl] = @ \cup {p}]
  /\ UNCHANGED <<os, code, status>>

(* try_wait by the caller that spawn returned the handle to. *)
TryWait(p) ==
  /\ status[p] # "None"
  /\ try_wait({p})
  /\ UNCHANGED <<starting, tracked>>

(* terminate by the same caller. *)
Terminate(p) ==
  /\ status[p] # "None"
  /\ terminate({p})
  /\ UNCHANGED <<starting, tracked>>

StopAll(pl) == stop(tracked[pl]) /\ UNCHANGED <<starting, tracked>>
ContAll(pl) == cont(tracked[pl]) /\ UNCHANGED <<starting, tracked>>
TerminateAll(pl) == terminate(tracked[pl]) /\ UNCHANGED <<starting, tracked>>

(* Mutant: cleanup forgets the processes without ending them. *)
Cleanup_NoTerminate(pl) ==
  /\ tracked' = [tracked EXCEPT ![pl] = {}]
  /\ UNCHANGED <<os, code, status, starting>>

(* cleanup: the entry is removed and its processes terminated. *)
Cleanup(pl) ==
  /\ terminate(tracked[pl])
  /\ tracked' = [tracked EXCEPT ![pl] = {}]
  /\ UNCHANGED starting

(* all_running: try_wait on every tracked handle. *)
AllTracked == UNION {tracked[pl] : pl \in Plugins}
Active == {p \in AllTracked : ~ Gone(p)}
AllRunning == try_wait(AllTracked) /\ UNCHANGED <<starting, tracked>>

Kernel ==
  \/ \E p \in Pids, c \in {0, 1} : Exit(p, c)
  \/ \E p \in Pids : Recycle(p)

SNext ==
  \/ Kernel
  \/ \E pl \in Plugins, p \in Pids : Start(pl, p)
  \/ \E pl \in Plugins, p \in Pids : Track(pl, p)
  \/ \E p \in Pids : TryWait(p)
  \/ \E p \in Pids : Terminate(p)
  \/ \E pl \in Plugins : StopAll(pl)
  \/ \E pl \in Plugins : ContAll(pl)
  \/ \E pl \in Plugins : TerminateAll(pl)
  \/ \E pl \in Plugins : Cleanup(pl)
  \/ AllRunning

SSpec == SInit /\ [][SNext]_svars

-----------------------------------------------------------------------------
(* The variables keep their types. *)
STypeOK ==
  /\ os \in [Pids -> OsState]
  /\ code \in [Pids -> {0, 1, BySignal}]
  /\ status \in [Pids -> ProcessStatus]
  /\ starting \in [Plugins -> SUBSET Pids]
  /\ tracked \in [Plugins -> SUBSET Pids]

(* No child is forgotten while it lives: it is in the map, under the one    *)
(* plugin it was started for, or its spawn is still on the way there.      *)
(* cleanup, terminate_all and all_running in any order do not lose one.    *)
Holders(p) == {pl \in Plugins : p \in starting[pl] \cup tracked[pl]}
LiveIsTracked ==
  \A p \in Pids :
    /\ Live(p) => \E pl \in Plugins : p \in starting[pl] \cup tracked[pl]
    /\ \A pl, other \in Holders(p) : pl = other

(* What the supervisor says of a process is never better than the truth:    *)
(* one reported Exited or Killed is not alive, not even stopped.           *)
EndedIsDead ==
  \A p \in Pids : status[p] \in {"Exited", "Killed"} => ~ Live(p)

==============================================================================
