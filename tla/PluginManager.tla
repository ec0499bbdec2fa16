---------------------------- MODULE PluginManager ----------------------------
(***************************************************************************)
(* The plugin manager and the plugins' life cycle                          *)
(* (src/plugin_manager.rs, CommunityPlugin of src/community_plugins.rs).   *)
(*                                                                         *)
(* Tasks call the manager through the mutex the daemon wraps it in, so one *)
(* method runs at a time, with an await at every plugin's own mutex.       *)
(* Tasks also hold the handles that get returns, lock such a plugin and    *)
(* call it directly, while a method is waiting for it or between two of    *)
(* its plugins, and after the manager has let go of it.                    *)
(***************************************************************************)
EXTENDS Integers, Sequences, FiniteSets, Functions

CONSTANTS
  Builtin,     \* names of discover_builtin
  Community,   \* names register_with may bring
  Resumable,   \* names of plugins with the capability Resume
  Tasks,       \* tasks that use handles
  MaxPlugins,  \* bound: plugin objects ever created
  Manager,     \* the owner of a plugin's lock that is not a task
  Free         \* no plugin, no owner

ASSUME PluginAssumption ==
  /\ Builtin \cap Community = {}
  /\ Resumable \subseteq Builtin \cup Community
  /\ IsFiniteSet(Builtin) /\ MaxPlugins \in Nat /\ Free \notin 1 .. MaxPlugins /\ {Free, Manager} \cap Tasks = {}
  /\ Free # Manager

Names == Builtin \cup Community
Plugins == 1 .. MaxPlugins
States == {"Loaded", "Running", "Paused", "Shutdown"}
Capabilities(n) ==
  {"Cancel", "Retry"} \cup (IF n \in Resumable THEN {"Resume"} ELSE {})

VARIABLES
  plugins,   \* PluginManager.plugins: the plugin under each name, or Free
  made,      \* the names of the plugin objects created so far
  state,     \* the state of each
  guard,     \* who is inside each plugin's mutex: a task, the Manager or Free
  handle,    \* the handle each task holds, or Free
  call,      \* the manager's method in progress
  unchecked, \* the plugin whose capability it has still to check
  loose      \* history: plugins that were replaced, or called by a task after
             \* they had left the map

pvars == <<plugins, made, state, guard, handle, call, unchecked, loose>>

(* The plugins it has still to visit; those it has visited and no task has  *)
(* called since (history).                                                 *)
None == [op |-> "none", left |-> {}, done |-> {}]

PInit ==
  /\ plugins = [n \in Names |-> Free]
  /\ made = << >>
  /\ state = [x \in Plugins |-> "Loaded"]
  /\ guard = [x \in Plugins |-> Free]
  /\ handle = [t \in Tasks |-> Free]
  /\ call = None /\ unchecked = {} /\ loose = {}

Registered == {n \in Names : plugins[n] # Free}
InMap == {plugins[n] : n \in Registered}

-----------------------------------------------------------------------------
(* The methods of a plugin, the same for all: the state after a call; an    *)
(* error leaves it alone.                                                  *)
Methods == {"initialize", "start", "pause", "resume", "retry", "cancel", "health_check",
            "shutdown"}

after(method, s) ==
  [initialize |-> "Loaded", cancel |-> "Loaded",
   start |-> IF s \in {"Loaded", "Paused"} THEN "Running" ELSE s,
   pause |-> IF s = "Running" THEN "Paused" ELSE s,
   resume |-> IF s = "Paused" THEN "Running" ELSE s,
   retry |-> s, health_check |-> s,
   shutdown |-> "Shutdown"][method]

-----------------------------------------------------------------------------
(* The manager. *)

Idle == call.op = "none"
GetsMutex(op, left) ==
  /\ Idle
  /\ call' = [op |-> op, left |-> left, done |-> {}]
  /\ unchecked' = IF op \in {"retry", "cancel"} THEN left ELSE {}

(* register, register_named: what was under the name is dropped as it is.   *)
(* Nobody else knows the plugin yet, so its lock is free.                  *)
Register(n) ==
  /\ Idle
  /\ Len(made) < MaxPlugins
  /\ made' = Append(made, n)
  /\ plugins' = [plugins EXCEPT ![n] = Len(made')]
  /\ loose' = (loose \cup {plugins[n]}) \ {Free}
  /\ UNCHANGED <<state, guard, handle, call, unchecked>>

(* discover_builtin: the tools that are not registered yet. *)
DiscoverBuiltin ==
  LET new == Builtin \ Registered IN
  /\ Idle /\ new # {}
  /\ \E order \in Bijection(1 .. Cardinality(new), new) :
       /\ made' = made \o order /\ Len(made') <= MaxPlugins
       /\ plugins' = [n \in Names |->
            IF n \in new THEN Len(made) + CHOOSE i \in DOMAIN order : order[i] = n
            ELSE plugins[n]]
  /\ UNCHANGED <<state, guard, handle, call, unchecked, loose>>

(* unload takes the plugin out of the map and then waits for it. *)
Unload(n) ==
  /\ n \in Registered
  /\ GetsMutex("unload", {plugins[n]})
  /\ plugins' = [plugins EXCEPT ![n] = Free]
  /\ UNCHANGED <<made, state, guard, handle, loose>>

Batches == {"initialize", "start", "pause", "resume", "health_check", "shutdown"}

(* initialize_all, start_all, pause_all, resume_all, list, shutdown_all. *)
Batch(method) ==
  /\ GetsMutex(method, InMap)
  /\ UNCHANGED <<plugins, made, state, guard, handle, loose>>

(* retry_plugin and cancel_plugin of a plugin that is registered: the first *)
(* lock is for the capability, the second for the call.                    *)
One(method, n) ==
  /\ n \in Registered
  /\ GetsMutex(method, {plugins[n]})
  /\ UNCHANGED <<plugins, made, state, guard, handle, loose>>

CheckCapability(x) ==
  /\ x \in unchecked /\ guard[x] = Free
  /\ guard' = [guard EXCEPT ![x] = Manager]
  /\ UNCHANGED <<plugins, made, state, handle, call, unchecked, loose>>

(* Mutant: the first lock is still held when the second is taken. *)
DropLock_Kept(x) ==
  /\ x \in unchecked /\ guard[x] = Manager
  /\ unchecked' = unchecked \ {x}
  /\ UNCHANGED <<plugins, made, state, guard, handle, call, loose>>

(* drop(locked): every plugin has Cancel and Retry, so the call follows.  *)
(* Until then a task may lock the plugin, and call it.                     *)
DropLock(x) ==
  /\ x \in unchecked /\ guard[x] = Manager
  /\ guard' = [guard EXCEPT ![x] = Free]
  /\ unchecked' = unchecked \ {x}
  /\ UNCHANGED <<plugins, made, state, handle, call, loose>>

(* Mutant: a batch asks for Resume before it pauses. *)
applies_PauseNeedsResume(op, x) ==
  op \in {"pause", "resume"} => "Resume" \in Capabilities(made[x])

(* pause_all asks for Cancel, resume_all for Resume. *)
applies(op, x) ==
  /\ op = "pause" => "Cancel" \in Capabilities(made[x])
  /\ op = "resume" => "Resume" \in Capabilities(made[x])

Visited(x) == [op |-> call.op, left |-> call.left \ {x}, done |-> call.done \cup {x}]

(* Mutant: unload gives up on a plugin that is locked. *)
Visit_TryLock(x) ==
  /\ x \in call.left
  /\ state' = [state EXCEPT ![x] =
       IF ~ applies(call.op, x) \/ guard[x] # Free THEN @
       ELSE after(IF call.op = "unload" THEN "shutdown" ELSE call.op, @)]
  /\ call' = Visited(x)
  /\ UNCHANGED <<plugins, made, guard, handle, unchecked, loose>>

(* The method in progress gets the lock of the next plugin, calls it and    *)
(* lets go of the lock, with no await in between; the map has no order.    *)
Visit(x) ==
  /\ x \in call.left \ unchecked /\ guard[x] = Free
  /\ state' = [state EXCEPT ![x] =
       IF applies(call.op, x)
         THEN after(IF call.op = "unload" THEN "shutdown" ELSE call.op, @) ELSE @]
  /\ call' = Visited(x)
  /\ UNCHANGED <<plugins, made, guard, handle, unchecked, loose>>

(* It returns and the manager's mutex is free. *)
Return ==
  /\ ~ Idle /\ call.left = {}
  /\ call' = None
  /\ UNCHANGED <<plugins, made, state, guard, handle, unchecked, loose>>

-----------------------------------------------------------------------------
(* The tasks. *)

(* get. *)
Get(t, n) ==
  /\ Idle /\ handle[t] = Free /\ n \in Registered
  /\ handle' = [handle EXCEPT ![t] = plugins[n]]
  /\ UNCHANGED <<plugins, made, state, guard, call, unchecked, loose>>

Lock(t) ==
  LET x == handle[t] IN
  /\ x # Free /\ guard[x] = Free
  /\ guard' = [guard EXCEPT ![x] = t]
  /\ UNCHANGED <<plugins, made, state, handle, call, unchecked, loose>>

(* The task calls the plugin it has locked. *)
Use(t, method) ==
  LET x == handle[t] IN
  /\ x # Free /\ guard[x] = t
  /\ state' = [state EXCEPT ![x] = after(method, @)]
  /\ call' = [op |-> call.op, left |-> call.left, done |-> call.done \ {x}]
  /\ loose' = IF x \in InMap \cup call.left THEN loose ELSE loose \cup {x}
  /\ UNCHANGED <<plugins, made, guard, handle, unchecked>>

Unlock(t) ==
  LET x == handle[t] IN
  /\ x # Free /\ guard[x] = t
  /\ guard' = [guard EXCEPT ![x] = Free]
  /\ UNCHANGED <<plugins, made, state, handle, call, unchecked, loose>>

Drop(t) ==
  LET x == handle[t] IN
  /\ x # Free /\ guard[x] # t
  /\ handle' = [handle EXCEPT ![t] = Free]
  /\ UNCHANGED <<plugins, made, state, guard, call, unchecked, loose>>

PNext ==
  \/ \E n \in Names : Register(n) \/ Unload(n)
  \/ DiscoverBuiltin
  \/ \E m \in Batches : Batch(m)
  \/ \E m \in {"retry", "cancel"}, n \in Names : One(m, n)
  \/ \E x \in Plugins : CheckCapability(x) \/ DropLock(x) \/ Visit(x)
  \/ Return
  \/ \E t \in Tasks :
       \/ \E n \in Names : Get(t, n)
       \/ Lock(t) \/ Unlock(t) \/ Drop(t)
       \/ \E m \in Methods : Use(t, m)

(* tokio's mutexes are fair: a method that waits for a plugin gets its turn   *)
(* among the tasks, if the lock is ever free; and a task that has locked a   *)
(* plugin lets go of it.                                                     *)
PluginSpec ==
  /\ PInit /\ [][PNext]_pvars
  /\ WF_pvars(Return)
  /\ SF_pvars(\E x \in Plugins : Visit(x))
  /\ SF_pvars(\E x \in Plugins : CheckCapability(x))
  /\ WF_pvars(\E x \in Plugins : DropLock(x))
  /\ \A t \in Tasks : WF_pvars(Unlock(t))

-----------------------------------------------------------------------------
(* While a batch is running, the plugins it has visited are where it was to *)
(* bring them, whatever tasks do through their handles to the others:      *)
(* after start_all a plugin runs unless it has been shut down, no plugin   *)
(* runs after pause_all, none that can resume is paused after resume_all,  *)
(* and all are down after shutdown_all.                                    *)
BatchDone ==
  \A x \in call.done :
    /\ call.op = "initialize" => state[x] = "Loaded"
    /\ call.op = "start" => state[x] \in {"Running", "Shutdown"}
    /\ call.op = "pause" => state[x] # "Running"
    /\ call.op = "resume" => ~ (state[x] = "Paused" /\ made[x] \in Resumable)
    /\ call.op = "shutdown" => state[x] = "Shutdown"

(* A plugin that has left the map is down, also when a task had it locked   *)
(* at that moment.  Only a replacement (register_named drops the old       *)
(* plugin as it is) or a later call through a handle makes a plugin that   *)
(* runs and that no shutdown_all reaches.                                  *)
UnloadedIsDown ==
  \A x \in Plugins :
    x <= Len(made) /\ x \notin InMap \cup call.left \cup loose => state[x] = "Shutdown"

(* Every method returns, retry_plugin and cancel_plugin included, which     *)
(* take the lock of one plugin twice: the manager has let go of it when it *)
(* waits for it again, and the tasks that get in between let go in time.   *)
CallsReturn == ~ Idle ~> Idle
=============================================================================
