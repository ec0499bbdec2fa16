--------------------------------- MODULE Job ---------------------------------
(***************************************************************************)
(* The job record and its status machine (src/job.rs).                     *)
(*                                                                         *)
(* A job keeps the fields the rest of the daemon decides on: id, plugin,   *)
(* priority, status, retry_count and max_retries.  The text of a failure,  *)
(* the description, the owner, the metadata and the time stamps are data   *)
(* no decision reads, and are left out.                                    *)
(***************************************************************************)
EXTENDS Naturals

(* enum JobPriority; the discriminants are the order dequeue compares. *)
JobPriority == 0 .. 3

(* enum JobStatus; Failed carries a message in the code. *)
JobStatus ==
  {"Pending", "Running", "Paused", "Completed", "Failed", "Cancelled"}

(* Job records whose retry budget is max. *)
JobWith(Plugins, max) ==
  [id : Nat \ {0}, plugin : Plugins, priority : JobPriority,
   status : JobStatus, retry_count : Nat, max_retries : {max}]

(* Job::new, once NEXT_JOB_ID has given it an id. *)
NewJob(id, plugin, priority, max) ==
  [id |-> id, plugin |-> plugin, priority |-> priority,
   status |-> "Pending", retry_count |-> 0, max_retries |-> max]

(* Job::is_terminal. *)
is_terminal(status) == status \in {"Completed", "Failed", "Cancelled"}

(* Mutant: a failed job may be set running again without a retry. *)
can_transition_FailedRestarts(old, new) ==
  <<old, new>> \in ({"Pending"} \X {"Running", "Cancelled"})
    \cup ({"Running"} \X {"Paused", "Completed", "Failed", "Cancelled"})
    \cup ({"Paused", "Failed"} \X {"Running", "Cancelled"})

(* Mutant: a cancelled job may be resumed. *)
can_transition_CancelledResumes(old, new) ==
  <<old, new>> \in ({"Pending"} \X {"Running", "Cancelled"})
    \cup ({"Running"} \X {"Paused", "Completed", "Failed", "Cancelled"})
    \cup ({"Paused", "Cancelled"} \X {"Running", "Cancelled"})

(* Job::can_transition. *)
can_transition(old, new) ==
  <<old, new>> \in ({"Pending"} \X {"Running", "Cancelled"})
    \cup ({"Running"} \X {"Paused", "Completed", "Failed", "Cancelled"})
    \cup ({"Paused"} \X {"Running", "Cancelled"})

(* Job::set_status; a refused transition is an Err and changes nothing. *)
set_status(job, status) ==
  IF can_transition(job.status, status)
    THEN [job EXCEPT !.status = status]
    ELSE job
==============================================================================
