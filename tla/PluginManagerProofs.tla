------------------------- MODULE PluginManagerProofs -------------------------
(***************************************************************************)
(* Proofs about PluginManager: what a batch has brought about stays, and a  *)
(* plugin that has been unloaded is down, for any plugins and tasks.       *)
(***************************************************************************)
EXTENDS PluginManager, FiniteSetTheorems, SequenceTheorems, TLAPS

Ops == Batches \cup {"none", "unload", "retry", "cancel"}
Calls == [op : Ops, left : SUBSET Plugins, done : SUBSET Plugins]

PluginTypes ==
  /\ made \in Seq(Names) /\ Len(made) <= MaxPlugins
  /\ plugins \in [Names -> (1 .. Len(made)) \cup {Free}]
  /\ state \in [Plugins -> States]
  /\ handle \in [Tasks -> Plugins \cup {Free}]
  /\ call \in Calls
  /\ loose \subseteq Plugins

(* Nothing is to be visited outside a method, and every method but unload   *)
(* visits plugins of the map.                                              *)
CallShape ==
  /\ Idle => call = None
  /\ call.op # "unload" => call.left \subseteq InMap

PInv == PluginTypes /\ CallShape /\ BatchDone /\ UnloadedIsDown

-----------------------------------------------------------------------------
(* The methods. *)

LEMMA AfterIs ==
  ASSUME NEW s \in States
  PROVE  /\ after("initialize", s) = "Loaded" /\ after("cancel", s) = "Loaded"
         /\ after("start", s) = IF s \in {"Loaded", "Paused"} THEN "Running" ELSE s
         /\ after("pause", s) = IF s = "Running" THEN "Paused" ELSE s
         /\ after("resume", s) = IF s = "Paused" THEN "Running" ELSE s
         /\ after("retry", s) = s /\ after("health_check", s) = s
         /\ after("shutdown", s) = "Shutdown"
BY DEF after

LEMMA AfterIsState == ASSUME NEW m \in Methods, NEW s \in States PROVE after(m, s) \in States
BY AfterIs DEF Methods, States

LEMMA InMapIsMade ==
  ASSUME PluginTypes PROVE InMap \subseteq 1 .. Len(made) /\ InMap \subseteq Plugins
BY PluginAssumption DEF PluginTypes, InMap, Registered, Plugins

-----------------------------------------------------------------------------
LEMMA PInitInv == PInit => PInv
<1> SUFFICES ASSUME PInit PROVE PInv
  OBVIOUS
<1>1. made = << >> /\ Len(made) = 0 /\ made \in Seq(Names)
  BY DEF PInit
<1>2. call.op = "none" /\ call.left = {} /\ call.done = {} /\ call = None
  BY DEF PInit, None
<1>3. PluginTypes
  BY <1>1, <1>2, PluginAssumption DEF PInit, PluginTypes, Calls, Ops, States, None
<1>4. CallShape
  BY <1>2 DEF CallShape
<1>5. BatchDone
  BY <1>2 DEF BatchDone
<1>6. UnloadedIsDown
  BY <1>1 DEF UnloadedIsDown, Plugins
<1> QED BY <1>3, <1>4, <1>5, <1>6 DEF PInv

(* Outside a method a batch has nothing to show. *)
LEMMA IdleShape ==
  ASSUME PInv, Idle
  PROVE  call.op = "none" /\ call.left = {} /\ call.done = {} /\ call = None
BY DEF PInv, CallShape, None

(* A step that creates plugins and puts them into the map: those that leave *)
(* it are loose.                                                           *)
LEMMA CreateStep ==
  ASSUME PInv, Idle, PluginTypes', UNCHANGED <<state, call>>,
         loose \subseteq loose',
         InMap \ InMap' \subseteq loose',
         \A x \in 1 .. Len(made') : x > Len(made) => x \in InMap'
  PROVE  PInv'
<1>1. call.op = "none" /\ call.left = {} /\ call.done = {} /\ call = None /\ call' = call
  BY IdleShape
<1>2. CallShape'
  BY <1>1 DEF CallShape, Idle
<1>3. BatchDone'
  BY <1>1 DEF BatchDone
<1>4. UnloadedIsDown'
  <2> SUFFICES ASSUME NEW x \in Plugins, x <= Len(made'),
                      x \notin InMap' \cup loose'
               PROVE  state[x] = "Shutdown"
    BY DEF UnloadedIsDown
  <2>1. x <= Len(made)
    BY PluginAssumption DEF Plugins, PInv, PluginTypes
  <2>2. x \notin InMap \cup call.left \cup loose
    BY <1>1
  <2> QED BY <2>1, <2>2 DEF PInv, UnloadedIsDown
<1> QED BY <1>2, <1>3, <1>4 DEF PInv

LEMMA RegisterStep == ASSUME PInv, NEW n \in Names, Register(n) PROVE PInv'
<1>1. /\ made \in Seq(Names) /\ Len(made) < MaxPlugins
      /\ made' = Append(made, n) /\ Len(made') = Len(made) + 1 /\ made' \in Seq(Names)
  BY DEF PInv, PluginTypes, Register
<1>2. plugins' = [plugins EXCEPT ![n] = Len(made) + 1]
  BY <1>1 DEF Register
<1>3. plugins' \in [Names -> (1 .. Len(made')) \cup {Free}]
  BY <1>1, <1>2 DEF PInv, PluginTypes
<1>4. PluginTypes'
  <2>1. /\ plugins[n] \in (1 .. Len(made)) \cup {Free} /\ loose \subseteq Plugins
        /\ Len(made) \in Nat /\ MaxPlugins \in Nat
    BY <1>1, PluginAssumption, LenProperties DEF PInv, PluginTypes
  <2>2. loose' \subseteq Plugins
    <3>1. plugins[n] \in Plugins \cup {Free}
      BY <1>1, <2>1 DEF Plugins
    <3>2. loose' = (loose \cup {plugins[n]}) \ {Free}
      BY DEF Register
    <3> QED BY <2>1, <3>1, <3>2
  <2>3. Len(made') <= MaxPlugins
    BY <1>1, <2>1
  <2> QED BY <1>1, <1>3, <2>2, <2>3 DEF PInv, PluginTypes, Register
<1>5. InMap' = {plugins'[m] : m \in {k \in Names : plugins'[k] # Free}}
  BY DEF InMap, Registered
<1>6. Len(made') # Free /\ Len(made') \in InMap'
  BY <1>1, <1>2, <1>5, PluginAssumption DEF PInv, PluginTypes
<1>7. InMap \ InMap' \subseteq loose'
  BY <1>2, <1>5 DEF InMap, Registered, Register, PInv, PluginTypes
<1>8. \A x \in 1 .. Len(made') : x > Len(made) => x \in InMap'
  BY <1>1, <1>6
<1>9. loose \subseteq loose'
  BY PluginAssumption DEF PInv, PluginTypes, Register, Plugins
<1> QED BY <1>4, <1>7, <1>8, <1>9, CreateStep DEF Register

LEMMA DiscoverStep == ASSUME PInv, DiscoverBuiltin PROVE PInv'
<1> DEFINE new == Builtin \ Registered
           old == Len(made)
<1>1. PICK order \in Bijection(1 .. Cardinality(new), new) :
        /\ made' = made \o order /\ Len(made') <= MaxPlugins
        /\ plugins' = [n \in Names |->
             IF n \in new THEN old + CHOOSE i \in DOMAIN order : order[i] = n ELSE plugins[n]]
  BY DEF DiscoverBuiltin
<1>2. Cardinality(new) \in Nat
  BY PluginAssumption, FS_Subset, FS_CardinalityType
<1> DEFINE size == Cardinality(new)
<1>3. /\ order \in [1 .. size -> new]
      /\ \A i, j \in 1 .. size : order[i] = order[j] => i = j
      /\ \A n \in new : \E i \in 1 .. size : order[i] = n
  BY <1>1 DEF Bijection, Injection, Surjection, IsInjective
<1> HIDE DEF size
<1>4. size \in Nat /\ new \subseteq Names
  BY <1>2 DEF size, Names
<1>5. order \in Seq(Names) /\ Len(order) = size /\ DOMAIN order = 1 .. size
  BY <1>3, <1>4
<1>6. /\ made \in Seq(Names) /\ old \in Nat
      /\ made' \in Seq(Names) /\ Len(made') = old + size
  BY <1>1, <1>5, ConcatProperties, LenProperties DEF PInv, PluginTypes
<1> DEFINE at(n) == CHOOSE i \in DOMAIN order : order[i] = n
<1>7. \A n \in new : at(n) \in 1 .. size /\ order[at(n)] = n
  BY <1>3, <1>5
<1>8. /\ \A n \in Names : plugins'[n] = IF n \in new THEN old + at(n) ELSE plugins[n]
      /\ DOMAIN plugins' = Names /\ plugins' = [n \in Names |-> plugins'[n]]
  BY <1>1
<1> HIDE DEF at, new, old
<1>9. \A n \in Names : plugins'[n] \in (1 .. Len(made')) \cup {Free}
  <2> SUFFICES ASSUME NEW n \in Names PROVE plugins'[n] \in (1 .. Len(made')) \cup {Free}
    OBVIOUS
  <2>1. plugins[n] \in (1 .. old) \cup {Free}
    BY DEF PInv, PluginTypes, old
  <2> QED BY <2>1, <1>4, <1>6, <1>7, <1>8
<1>10. PluginTypes'
  BY <1>1, <1>6, <1>8, <1>9 DEF PInv, PluginTypes, DiscoverBuiltin
<1>11. InMap' = {plugins'[n] : n \in {k \in Names : plugins'[k] # Free}}
  BY DEF InMap, Registered
<1>12. InMap \subseteq InMap'
  <2> SUFFICES ASSUME NEW n \in Names, plugins[n] # Free PROVE plugins[n] \in InMap'
    BY DEF InMap, Registered
  <2>1. n \notin new
    BY DEF new, Registered
  <2> QED BY <2>1, <1>8, <1>11
<1>13. \A x \in 1 .. Len(made') : x > Len(made) => x \in InMap'
  <2> SUFFICES ASSUME NEW x \in 1 .. Len(made'), x > Len(made) PROVE x \in InMap'
    OBVIOUS
  <2> DEFINE i == x - old
  <2>1. i \in 1 .. size /\ x = old + i
    BY <1>4, <1>6 DEF old
  <2> HIDE DEF i
  <2>2. order[i] \in new /\ at(order[i]) = i
    BY <2>1, <1>3, <1>7
  <2>3. plugins'[order[i]] = x /\ order[i] \in Names
    BY <2>1, <2>2, <1>4, <1>8
  <2>4. x # Free
    BY <1>10, PluginAssumption DEF PluginTypes
  <2> QED BY <2>3, <2>4, <1>11
<1> QED BY <1>10, <1>12, <1>13, CreateStep DEF DiscoverBuiltin

(* A method begins: it has the map's plugins to visit, or the one it has    *)
(* taken out of the map.                                                   *)
LEMMA BeginStep ==
  ASSUME PInv, NEW op \in Ops \ {"none"}, NEW left \in SUBSET Plugins, GetsMutex(op, left),
         UNCHANGED <<made, state, handle, loose>>,
         plugins' \in [Names -> (1 .. Len(made)) \cup {Free}],
         InMap \subseteq InMap' \cup left,
         op # "unload" => left \subseteq InMap'
  PROVE  PInv'
<1>1. call'.op = op /\ call'.left = left /\ call'.done = {} /\ call' \in Calls
  BY DEF GetsMutex, Calls
<1>2. call.left = {}
  BY IdleShape DEF GetsMutex
<1>3. PluginTypes'
  BY <1>1 DEF PInv, PluginTypes
<1>4. CallShape'
  BY <1>1 DEF CallShape, Idle
<1>5. BatchDone'
  BY <1>1 DEF BatchDone
<1>6. UnloadedIsDown'
  BY <1>1, <1>2 DEF PInv, UnloadedIsDown
<1> QED BY <1>3, <1>4, <1>5, <1>6 DEF PInv

LEMMA UnloadStep == ASSUME PInv, NEW n \in Names, Unload(n) PROVE PInv'
<1>1. plugins' = [plugins EXCEPT ![n] = Free] /\ plugins[n] \in Plugins
  BY InMapIsMade DEF PInv, Unload, InMap, Registered
<1>2. plugins' \in [Names -> (1 .. Len(made)) \cup {Free}]
  BY <1>1 DEF PInv, PluginTypes
<1>3. InMap \subseteq InMap' \cup {plugins[n]}
  BY <1>1 DEF PInv, PluginTypes, InMap, Registered
<1> QED BY <1>1, <1>2, <1>3, BeginStep DEF Unload, Ops

LEMMA BatchStep == ASSUME PInv, NEW m \in Batches, Batch(m) PROVE PInv'
<1>1. InMap' = InMap /\ InMap \in SUBSET Plugins
  BY InMapIsMade DEF PInv, Batch, InMap, Registered
<1>2. m \in Ops \ {"none"} /\ m # "unload"
  BY DEF Ops, Batches
<1> QED BY <1>1, <1>2, BeginStep DEF Batch, PInv, PluginTypes

LEMMA OneStep ==
  ASSUME PInv, NEW m \in {"retry", "cancel"}, NEW n \in Names, One(m, n) PROVE PInv'
<1>1. InMap' = InMap /\ {plugins[n]} \in SUBSET Plugins /\ {plugins[n]} \subseteq InMap
  BY InMapIsMade DEF PInv, One, InMap, Registered
<1>2. m \in Ops \ {"none"} /\ m # "unload"
  BY DEF Ops
<1> QED BY <1>1, <1>2, BeginStep DEF One, PInv, PluginTypes

-----------------------------------------------------------------------------
(* The method in progress. *)

LEMMA VisitStep == ASSUME PInv, NEW x \in Plugins, Visit(x) PROVE PInv'
<1> DEFINE m == IF call.op = "unload" THEN "shutdown" ELSE call.op
<1>1. /\ state \in [Plugins -> States] /\ call \in Calls /\ x \in call.left
      /\ UNCHANGED <<plugins, made, guard, handle, loose>>
  BY DEF PInv, PluginTypes, Visit
<1>2. call.op # "none"
  BY <1>1, IdleShape DEF PInv, Idle
<1>3. /\ call'.op = call.op /\ call'.left = call.left \ {x}
      /\ call'.done = call.done \cup {x} /\ call' \in Calls
  BY <1>1 DEF Visit, Visited, Calls
<1>4. m \in Methods
  BY <1>1, <1>2 DEF Calls, Ops, Batches, Methods
<1>5. state' = [state EXCEPT ![x] = IF applies(call.op, x) THEN after(m, state[x]) ELSE state[x]]
  BY <1>1 DEF Visit
<1> HIDE DEF m
<1>6. state[x] \in States /\ after(m, state[x]) \in States
  BY <1>1, <1>4, AfterIsState
<1>7. /\ state'[x] = IF applies(call.op, x) THEN after(m, state[x]) ELSE state[x]
      /\ \A y \in Plugins \ {x} : state'[y] = state[y]
      /\ state' \in [Plugins -> States]
  BY <1>1, <1>5, <1>6
<1>8. PluginTypes'
  BY <1>1, <1>3, <1>7 DEF PInv, PluginTypes
<1>9. InMap' = InMap
  BY <1>1 DEF InMap, Registered
<1>10. CallShape'
  BY <1>2, <1>3, <1>9 DEF PInv, CallShape, Idle
<1>11. BatchDone'
  <2> SUFFICES ASSUME NEW y \in call.done \cup {x}
               PROVE  /\ call.op = "initialize" => state'[y] = "Loaded"
                      /\ call.op = "start" => state'[y] \in {"Running", "Shutdown"}
                      /\ call.op = "pause" => state'[y] # "Running"
                      /\ call.op = "resume" => ~ (state'[y] = "Paused" /\ made[y] \in Resumable)
                      /\ call.op = "shutdown" => state'[y] = "Shutdown"
    BY <1>1, <1>3 DEF BatchDone
  <2>1. CASE y # x
    <3>1. y \in call.done /\ state'[y] = state[y]
      BY <1>1, <1>7, <2>1 DEF Calls
    <3> QED BY <3>1 DEF PInv, BatchDone
  <2>2. CASE y = x
    <3>1. /\ call.op \in {"initialize", "start", "pause", "shutdown"} => applies(call.op, x)
          /\ call.op = "resume" => (applies(call.op, x) <=> made[x] \in Resumable)
      BY DEF applies, Capabilities
    <3>2. call.op # "unload" => m = call.op
      BY DEF m
    <3> QED BY <2>2, <3>1, <3>2, <1>6, <1>7, AfterIs DEF States
  <2> QED BY <2>1, <2>2
<1>12. UnloadedIsDown'
  <2> SUFFICES ASSUME NEW y \in Plugins, y <= Len(made), y \notin InMap,
                      y \notin call.left \ {x}, y \notin loose
               PROVE  state'[y] = "Shutdown"
    BY <1>1, <1>3, <1>9 DEF UnloadedIsDown
  <2>1. CASE y = x
    <3>1. call.op = "unload"
      BY <1>1, <2>1 DEF PInv, CallShape
    <3>2. applies(call.op, x) /\ m = "shutdown"
      BY <3>1 DEF applies, m
    <3> QED BY <2>1, <3>2, <1>6, <1>7, AfterIs
  <2>2. CASE y # x
    BY <2>2, <1>7 DEF PInv, UnloadedIsDown
  <2> QED BY <2>1, <2>2
<1> QED BY <1>8, <1>10, <1>11, <1>12 DEF PInv

LEMMA ReturnStep == ASSUME PInv, Return PROVE PInv'
<1>1. /\ call.left = {} /\ call'.op = "none" /\ call'.left = {} /\ call'.done = {}
      /\ call' = None /\ call' \in Calls
  BY DEF Return, None, Calls, Ops
<1>2. UNCHANGED <<plugins, made, state, guard, handle, loose>>
  BY DEF Return
<1>3. PluginTypes'
  BY <1>1, <1>2 DEF PInv, PluginTypes
<1>4. CallShape'
  BY <1>1 DEF CallShape, None
<1>5. BatchDone'
  BY <1>1 DEF BatchDone
<1>6. UnloadedIsDown'
  BY <1>1, <1>2 DEF PInv, UnloadedIsDown, InMap, Registered
<1> QED BY <1>3, <1>4, <1>5, <1>6 DEF PInv

-----------------------------------------------------------------------------
(* The tasks. *)

LEMMA UseStep == ASSUME PInv, NEW t \in Tasks, NEW m \in Methods, Use(t, m) PROVE PInv'
<1> DEFINE x == handle[t]
<1>1. /\ x \in Plugins /\ state \in [Plugins -> States] /\ call \in Calls
      /\ UNCHANGED <<plugins, made, guard, handle>>
  BY DEF PInv, PluginTypes, Use
<1>2. /\ state' = [state EXCEPT ![x] = after(m, state[x])]
      /\ call' = [op |-> call.op, left |-> call.left, done |-> call.done \ {x}]
      /\ loose' = IF x \in InMap \cup call.left THEN loose ELSE loose \cup {x}
  BY DEF Use
<1> HIDE DEF x
<1>3. /\ call'.op = call.op /\ call'.left = call.left
      /\ call'.done = call.done \ {x} /\ call' \in Calls /\ (Idle => call' = None)
  BY <1>1, <1>2 DEF Calls, PInv, CallShape, None
<1>4. /\ \A y \in Plugins \ {x} : state'[y] = state[y]
      /\ state' \in [Plugins -> States]
  BY <1>1, <1>2, AfterIsState
<1>5. PluginTypes'
  BY <1>1, <1>2, <1>3, <1>4 DEF PInv, PluginTypes
<1>6. InMap' = InMap
  BY <1>1 DEF InMap, Registered
<1>7. CallShape'
  BY <1>3, <1>6 DEF PInv, CallShape, Idle
<1>8. BatchDone'
  <2>1. \A y \in call'.done : y \in call.done /\ state'[y] = state[y]
    BY <1>1, <1>3, <1>4 DEF Calls
  <2> QED BY <2>1, <1>1, <1>3 DEF PInv, BatchDone
<1>9. UnloadedIsDown'
  BY <1>1, <1>2, <1>3, <1>4, <1>6 DEF PInv, UnloadedIsDown
<1> QED BY <1>5, <1>7, <1>8, <1>9 DEF PInv

(* What tasks do to handles and locks, and the manager to a plugin's lock,  *)
(* concerns no part of the invariant.                                      *)
LEMMA HandleStep ==
  ASSUME PInv, UNCHANGED <<plugins, made, state, call, loose>>,
         handle' \in [Tasks -> Plugins \cup {Free}]
  PROVE  PInv'
BY DEF PInv, PluginTypes, CallShape, BatchDone, UnloadedIsDown, Idle, InMap, Registered

LEMMA TaskStep ==
  ASSUME PInv, NEW t \in Tasks,
         (\E n \in Names : Get(t, n)) \/ Lock(t) \/ Unlock(t) \/ Drop(t)
  PROVE  PInv'
<1>1. ASSUME NEW n \in Names, Get(t, n) PROVE PInv'
  <2>1. plugins[n] \in Plugins
    BY <1>1, InMapIsMade DEF PInv, Get, InMap, Registered
  <2> QED BY <1>1, <2>1, HandleStep DEF Get, PInv, PluginTypes
<1>2. CASE Lock(t)
  BY <1>2, HandleStep DEF Lock, PInv, PluginTypes
<1>3. CASE Unlock(t)
  BY <1>3, HandleStep DEF Unlock, PInv, PluginTypes
<1>4. CASE Drop(t)
  BY <1>4, HandleStep DEF Drop, PInv, PluginTypes
<1> QED BY <1>1, <1>2, <1>3, <1>4

-----------------------------------------------------------------------------
LEMMA PNextInv == PInv /\ [PNext]_pvars => PInv'
<1> SUFFICES ASSUME PInv, [PNext]_pvars PROVE PInv'
  OBVIOUS
<1>1. ASSUME NEW n \in Names, Register(n) \/ Unload(n) PROVE PInv'
  BY <1>1, RegisterStep, UnloadStep
<1>2. CASE DiscoverBuiltin
  BY <1>2, DiscoverStep
<1>3. ASSUME NEW m \in Batches, Batch(m) PROVE PInv'
  BY <1>3, BatchStep
<1>4. ASSUME NEW m \in {"retry", "cancel"}, NEW n \in Names, One(m, n) PROVE PInv'
  BY <1>4, OneStep
<1>5. ASSUME NEW x \in Plugins, Visit(x) PROVE PInv'
  BY <1>5, VisitStep
<1>6. CASE Return
  BY <1>6, ReturnStep
<1>7. ASSUME NEW t \in Tasks,
             (\E n \in Names : Get(t, n)) \/ Lock(t) \/ Unlock(t) \/ Drop(t)
      PROVE  PInv'
  BY <1>7, TaskStep
<1>8. ASSUME NEW t \in Tasks, NEW m \in Methods, Use(t, m) PROVE PInv'
  BY <1>8, UseStep
<1>9. ASSUME NEW x \in Plugins, CheckCapability(x) \/ DropLock(x) PROVE PInv'
  BY <1>9, HandleStep DEF CheckCapability, DropLock, PInv, PluginTypes
<1>10. CASE UNCHANGED pvars
  BY <1>10, HandleStep DEF pvars, PInv, PluginTypes
<1> QED BY <1>1, <1>2, <1>3, <1>4, <1>5, <1>6, <1>7, <1>8, <1>9, <1>10 DEF PNext

(* The inductive invariant of the plugin manager among the tasks that hold  *)
(* handles to its plugins.                                                 *)
THEOREM PluginInvariant == PluginSpec => []PInv
<1>1. PInit => PInv
  BY PInitInv
<1>2. PInv /\ [PNext]_pvars => PInv'
  BY PNextInv
<1> QED BY <1>1, <1>2, PTL DEF PluginSpec

(* However tasks lock and call plugins meanwhile, a plugin that a batch has *)
(* visited stays where the batch brought it until it is called itself.     *)
THEOREM BatchesAreDone == PluginSpec => []BatchDone
<1>1. PInv => BatchDone
  BY DEF PInv
<1> QED BY <1>1, PluginInvariant, PTL

(* A plugin that unload has taken out of the map is down when unload        *)
(* returns, whoever had it locked.                                         *)
THEOREM UnloadedPluginsAreDown == PluginSpec => []UnloadedIsDown
<1>1. PInv => UnloadedIsDown
  BY DEF PInv
<1> QED BY <1>1, PluginInvariant, PTL
==============================================================================
