----------------------------- MODULE JobService -----------------------------
(***************************************************************************)
(* What the daemon promises about jobs, without queue, processes or locks: *)
(* a submitted job waits; jobs are executed one at a time, each at most    *)
(* once; a job that was shelved while it waited is never executed.         *)
(***************************************************************************)
VARIABLES
  waiting,   \* submitted and to be executed
  shelved,   \* paused, resumed or cancelled while waiting
  executing, \* being executed
  over       \* executed

jvars == <<waiting, shelved, executing, over>>

Known == waiting \cup shelved \cup executing \cup over

JInit == waiting = {} /\ shelved = {} /\ executing = {} /\ over = {}

Submit(i) ==
  /\ i \notin Known
  /\ waiting' = waiting \cup {i}
  /\ UNCHANGED <<shelved, executing, over>>

Shelve(i) ==
  /\ i \in waiting
  /\ waiting' = waiting \ {i}
  /\ shelved' = shelved \cup {i}
  /\ UNCHANGED <<executing, over>>

Begin(i) ==
  /\ i \in waiting /\ executing = {}
  /\ waiting' = waiting \ {i}
  /\ executing' = {i}
  /\ UNCHANGED <<shelved, over>>

End ==
  /\ executing' = {}
  /\ over' = over \cup executing
  /\ UNCHANGED <<waiting, shelved>>

JNext ==
  \/ \E i \in waiting' : Submit(i)
  \/ \E i \in waiting : Shelve(i) \/ Begin(i)
  \/ End

JSpec == JInit /\ [][JNext]_jvars
=============================================================================
