----------------------- MODULE ProcessSupervisorProofs -----------------------
(***************************************************************************)
(* Proofs about ProcessSupervisor, for every set of plugins and pids and   *)
(* every choice of the pids the kernel gives away.                         *)
(***************************************************************************)
EXTENDS ProcessSupervisor, TLAPS

(* A pid that no handle was made for is held nowhere.  LiveIsTracked needs  *)
(* it: a pid spawn gets must not be in the map of another plugin already.  *)
FreshIsHeldNowhere ==
  \A p \in Pids, pl \in Plugins :
    status[p] = "None" => p \notin starting[pl] \cup tracked[pl]

(* The inductive invariant. *)
SInv == STypeOK /\ FreshIsHeldNowhere /\ LiveIsTracked /\ EndedIsDead

-----------------------------------------------------------------------------
(* What a step does to the handles, whichever method it is. *)
(* Signals and waits make no process live, end or do not end as they say,  *)
(* and touch no pid that has no handle.                                    *)
LEMMA StopFacts ==
  ASSUME NEW H \in SUBSET Pids, STypeOK, EndedIsDead, stop(H),
         \A p \in H : status[p] # "None"
  PROVE  /\ os' \in [Pids -> OsState] /\ code' = code
         /\ status' \in [Pids -> ProcessStatus]
         /\ \A p \in Pids : Live(p)' <=> Live(p)
         /\ \A p \in Pids : status'[p] = "None" <=> status[p] = "None"
         /\ EndedIsDead'
BY DEF stop, STypeOK, EndedIsDead, OsState, ProcessStatus, Live, Signalled

(* The same of cont. *)
LEMMA ContFacts ==
  ASSUME NEW H \in SUBSET Pids, STypeOK, EndedIsDead, cont(H),
         \A p \in H : status[p] # "None"
  PROVE  /\ os' \in [Pids -> OsState] /\ code' = code
         /\ status' \in [Pids -> ProcessStatus]
         /\ \A p \in Pids : Live(p)' <=> Live(p)
         /\ \A p \in Pids : status'[p] = "None" <=> status[p] = "None"
         /\ EndedIsDead'
BY DEF cont, STypeOK, EndedIsDead, OsState, ProcessStatus, Live, Signalled

(* terminate leaves none of its processes alive and no other disturbed. *)
LEMMA TerminateFacts ==
  ASSUME NEW H \in SUBSET Pids, STypeOK, EndedIsDead, terminate(H),
         \A p \in H : status[p] # "None"
  PROVE  /\ os' \in [Pids -> OsState] /\ code' \in [Pids -> {0, 1, BySignal}]
         /\ status' \in [Pids -> ProcessStatus]
         /\ \A p \in Pids : Live(p)' <=> Live(p) /\ p \notin H
         /\ \A p \in Pids : status'[p] = "None" <=> status[p] = "None"
         /\ EndedIsDead'
<1>1. os' \in [Pids -> OsState]
  BY DEF terminate, STypeOK, OsState, Live
<1>2. code' \in [Pids -> {0, 1, BySignal}]
  BY DEF terminate, STypeOK
<1>3. status' \in [Pids -> ProcessStatus]
  BY DEF terminate, STypeOK, ProcessStatus
<1>4. \A p \in Pids : Live(p)' <=> Live(p) /\ p \notin H
  BY DEF terminate, STypeOK, OsState, Live
<1>5. \A p \in Pids : status'[p] = "None" <=> status[p] = "None"
  BY DEF terminate, STypeOK, ProcessStatus
<1>6. EndedIsDead'
  <2>1. \A p \in Pids : p \notin H => status'[p] = status[p]
    BY DEF terminate
  <2> QED BY <1>4, <2>1 DEF EndedIsDead
<1> QED BY <1>1, <1>2, <1>3, <1>4, <1>5, <1>6

(* try_wait reports Exited for dead processes only. *)
LEMMA TryWaitFacts ==
  ASSUME NEW H \in SUBSET Pids, STypeOK, EndedIsDead, try_wait(H)
  PROVE  /\ os' \in [Pids -> OsState] /\ code' = code
         /\ status' \in [Pids -> ProcessStatus]
         /\ \A p \in Pids : Live(p)' <=> Live(p)
         /\ \A p \in Pids : status'[p] = "None" => status[p] = "None"
         /\ EndedIsDead'
BY DEF try_wait, STypeOK, EndedIsDead, OsState, ProcessStatus, Live, Gone

(* A step that moves no handle between spawn and the map. *)
LEMMA SameHolders ==
  ASSUME SInv, UNCHANGED <<starting, tracked>>,
         \A p \in Pids : Live(p)' => Live(p),
         \A p \in Pids : status'[p] = "None" => status[p] = "None"
  PROVE  LiveIsTracked' /\ FreshIsHeldNowhere'
BY DEF SInv, LiveIsTracked, FreshIsHeldNowhere, Holders

(* No handle is in the map of a plugin before it was made. *)
LEMMA TrackedHaveStatus ==
  ASSUME SInv, NEW pl \in Plugins
  PROVE  /\ tracked[pl] \in SUBSET Pids
         /\ \A p \in tracked[pl] : status[p] # "None"
BY DEF SInv, STypeOK, FreshIsHeldNowhere

-----------------------------------------------------------------------------
(* Initially nothing runs and nothing is tracked. *)
LEMMA SInitInv == SInit => SInv
BY DEF SInit, SInv, STypeOK, FreshIsHeldNowhere, LiveIsTracked, EndedIsDead,
   Live, Holders, OsState, ProcessStatus

(* Every method and every kernel step preserves the invariant. *)
LEMMA SStep == SInv /\ [SNext]_svars => SInv'
<1> SUFFICES ASSUME SInv, [SNext]_svars PROVE SInv'
  OBVIOUS
<1>a. STypeOK /\ FreshIsHeldNowhere /\ LiveIsTracked /\ EndedIsDead
  BY DEF SInv
<1>1. ASSUME NEW p \in Pids, NEW c \in {0, 1}, Exit(p, c) PROVE SInv'
  <2>1. STypeOK'
    BY <1>1, <1>a DEF Exit, STypeOK, OsState
  <2>2. \A r \in Pids : Live(r)' => Live(r)
    BY <1>1, <1>a DEF Exit, Live, STypeOK
  <2>3. EndedIsDead'
    BY <1>1, <2>2, <1>a DEF Exit, EndedIsDead
  <2>4. LiveIsTracked' /\ FreshIsHeldNowhere'
    BY <1>1, <2>2, SameHolders DEF Exit
  <2> QED BY <2>1, <2>3, <2>4 DEF SInv
<1>2. ASSUME NEW p \in Pids, Recycle(p) PROVE SInv'
  <2>1. STypeOK'
    BY <1>2, <1>a DEF Recycle, STypeOK, OsState
  <2>2. \A r \in Pids : Live(r)' => Live(r)
    BY <1>2, <1>a DEF Recycle, Live, STypeOK
  <2>3. EndedIsDead'
    BY <1>2, <2>2, <1>a DEF Recycle, EndedIsDead
  <2>4. LiveIsTracked' /\ FreshIsHeldNowhere'
    BY <1>2, <2>2, SameHolders DEF Recycle
  <2> QED BY <2>1, <2>3, <2>4 DEF SInv
<1>3. ASSUME NEW pl \in Plugins, NEW p \in Pids, Start(pl, p) PROVE SInv'
  <2>1. STypeOK'
    BY <1>3, <1>a DEF Start, STypeOK, OsState, ProcessStatus
  <2>2. \A other \in Plugins : p \notin starting[other] \cup tracked[other]
    BY <1>3, <1>a DEF Start, FreshIsHeldNowhere
  <2>3. /\ \A r \in Pids \ {p} : os'[r] = os[r] /\ status'[r] = status[r]
        /\ status'[p] = "Running"
    BY <1>3, <1>a DEF Start, STypeOK
  <2>4. \A other \in Plugins :
          starting'[other] = IF other = pl THEN starting[other] \cup {p}
                                           ELSE starting[other]
    BY <1>3, <1>a DEF Start, STypeOK
  <2>5. tracked' = tracked
    BY <1>3 DEF Start
  <2>6. FreshIsHeldNowhere'
    BY <2>3, <2>4, <2>5, <1>a DEF FreshIsHeldNowhere
  <2>7. EndedIsDead'
    BY <2>3, <1>a DEF EndedIsDead, Live
  <2>8. LiveIsTracked'
    <3>1. ASSUME NEW r \in Pids, Live(r)'
          PROVE  \E other \in Plugins : r \in (starting[other] \cup tracked[other])'
      <4>1. CASE r = p
        BY <4>1, <2>4
      <4>2. CASE r # p
        BY <4>2, <3>1, <2>3, <2>4, <2>5, <1>a DEF LiveIsTracked, Live
      <4> QED BY <4>1, <4>2
    <3>2. ASSUME NEW r \in Pids, NEW a \in Holders(r)', NEW b \in Holders(r)'
          PROVE  a = b
      <4>1. CASE r = p
        BY <4>1, <2>2, <2>4, <2>5 DEF Holders
      <4>2. CASE r # p
        <5>1. Holders(r)' = Holders(r)
          BY <4>2, <2>4, <2>5 DEF Holders
        <5> QED BY <3>2, <5>1, <1>a DEF LiveIsTracked
      <4> QED BY <4>1, <4>2
    <3> QED BY <3>1, <3>2 DEF LiveIsTracked
  <2> QED BY <2>1, <2>6, <2>7, <2>8 DEF SInv
<1>4. ASSUME NEW pl \in Plugins, NEW p \in Pids, Track(pl, p) PROVE SInv'
  <2>1. STypeOK'
    BY <1>4, <1>a DEF Track, STypeOK
  <2>2. \A other \in Plugins :
          (starting[other] \cup tracked[other])' = starting[other] \cup tracked[other]
    BY <1>4, <1>a DEF Track, STypeOK
  <2>3. os' = os /\ status' = status
    BY <1>4 DEF Track
  <2>4. EndedIsDead'
    BY <2>3, <1>a DEF EndedIsDead, Live
  <2>5. FreshIsHeldNowhere'
    BY <2>2, <2>3, <1>a DEF FreshIsHeldNowhere
  <2>6. LiveIsTracked'
    BY <2>2, <2>3, <1>a DEF LiveIsTracked, Holders, Live
  <2> QED BY <2>1, <2>4, <2>5, <2>6 DEF SInv
<1>5. ASSUME NEW p \in Pids, TryWait(p) PROVE SInv'
  <2>1. try_wait({p}) /\ {p} \in SUBSET Pids /\ UNCHANGED <<starting, tracked>>
    BY <1>5 DEF TryWait
  <2>2. LiveIsTracked' /\ FreshIsHeldNowhere'
    BY <2>1, <1>a, TryWaitFacts, SameHolders
  <2> QED BY <2>1, <2>2, <1>a, TryWaitFacts DEF SInv, STypeOK
<1>6. ASSUME NEW p \in Pids, Terminate(p) PROVE SInv'
  <2>1. /\ terminate({p}) /\ {p} \in SUBSET Pids
        /\ \A r \in {p} : status[r] # "None"
        /\ UNCHANGED <<starting, tracked>>
    BY <1>6 DEF Terminate
  <2>2. LiveIsTracked' /\ FreshIsHeldNowhere'
    BY <2>1, <1>a, TerminateFacts, SameHolders
  <2> QED BY <2>1, <2>2, <1>a, TerminateFacts DEF SInv, STypeOK
<1>7. ASSUME NEW pl \in Plugins, StopAll(pl) PROVE SInv'
  <2>1. stop(tracked[pl]) /\ UNCHANGED <<starting, tracked>>
    BY <1>7 DEF StopAll
  <2>2. LiveIsTracked' /\ FreshIsHeldNowhere'
    BY <2>1, <1>a, StopFacts, SameHolders, TrackedHaveStatus
  <2> QED BY <2>1, <2>2, <1>a, StopFacts, TrackedHaveStatus DEF SInv, STypeOK
<1>8. ASSUME NEW pl \in Plugins, ContAll(pl) PROVE SInv'
  <2>1. cont(tracked[pl]) /\ UNCHANGED <<starting, tracked>>
    BY <1>8 DEF ContAll
  <2>2. LiveIsTracked' /\ FreshIsHeldNowhere'
    BY <2>1, <1>a, ContFacts, SameHolders, TrackedHaveStatus
  <2> QED BY <2>1, <2>2, <1>a, ContFacts, TrackedHaveStatus DEF SInv, STypeOK
<1>9. ASSUME NEW pl \in Plugins, TerminateAll(pl) PROVE SInv'
  <2>1. terminate(tracked[pl]) /\ UNCHANGED <<starting, tracked>>
    BY <1>9 DEF TerminateAll
  <2>2. LiveIsTracked' /\ FreshIsHeldNowhere'
    BY <2>1, <1>a, TerminateFacts, SameHolders, TrackedHaveStatus
  <2> QED BY <2>1, <2>2, <1>a, TerminateFacts, TrackedHaveStatus
          DEF SInv, STypeOK
<1>10. ASSUME NEW pl \in Plugins, Cleanup(pl) PROVE SInv'
  <2>1. /\ terminate(tracked[pl]) /\ starting' = starting
        /\ tracked' = [tracked EXCEPT ![pl] = {}]
    BY <1>10 DEF Cleanup
  <2>2. /\ \A p \in Pids : Live(p)' <=> Live(p) /\ p \notin tracked[pl]
        /\ \A p \in Pids : status'[p] = "None" <=> status[p] = "None"
        /\ EndedIsDead'
    BY <2>1, <1>a, TerminateFacts, TrackedHaveStatus
  <2>3. STypeOK'
    BY <2>1, <1>a, TerminateFacts, TrackedHaveStatus DEF STypeOK
  <2>4. \A other \in Plugins :
          tracked'[other] = IF other = pl THEN {} ELSE tracked[other]
    BY <2>1, <1>a DEF STypeOK
  <2>5. FreshIsHeldNowhere'
    BY <2>1, <2>2, <2>4, <1>a DEF FreshIsHeldNowhere
  <2>6. LiveIsTracked'
    <3>1. ASSUME NEW p \in Pids, Live(p)'
          PROVE  \E other \in Plugins : p \in (starting[other] \cup tracked[other])'
      <4>1. Live(p) /\ p \notin tracked[pl]
        BY <3>1, <2>2
      <4>2. PICK other \in Plugins : p \in starting[other] \cup tracked[other]
        BY <4>1, <1>a DEF LiveIsTracked
      <4> QED BY <4>1, <4>2, <2>1, <2>4
    <3>2. \A p \in Pids : \A a, b \in Holders(p)' : a = b
      BY <2>1, <2>4, <1>a DEF Holders, LiveIsTracked
    <3> QED BY <3>1, <3>2 DEF LiveIsTracked
  <2> QED BY <2>2, <2>3, <2>5, <2>6 DEF SInv
<1>11. CASE AllRunning
  <2>1. try_wait(AllTracked) /\ UNCHANGED <<starting, tracked>>
    BY <1>11 DEF AllRunning
  <2>2. AllTracked \in SUBSET Pids
    BY <1>a DEF AllTracked, STypeOK
  <2>3. LiveIsTracked' /\ FreshIsHeldNowhere'
    BY <2>1, <2>2, <1>a, TryWaitFacts, SameHolders
  <2> QED BY <2>1, <2>2, <2>3, <1>a, TryWaitFacts DEF SInv, STypeOK
<1>12. CASE UNCHANGED svars
  <2>1. UNCHANGED <<os, code, status, starting, tracked>>
    BY <1>12 DEF svars
  <2>2. EndedIsDead' /\ STypeOK'
    BY <2>1, <1>a DEF EndedIsDead, STypeOK, Live
  <2>3. LiveIsTracked' /\ FreshIsHeldNowhere'
    BY <2>1, SameHolders DEF Live
  <2> QED BY <2>2, <2>3 DEF SInv
<1> QED BY <1>1, <1>2, <1>3, <1>4, <1>5, <1>6, <1>7, <1>8, <1>9, <1>10, <1>11,
           <1>12 DEF SNext, Kernel

(* The invariant holds in every behaviour. *)
THEOREM SupervisorInvariant == SSpec => []SInv
BY SInitInv, SStep, PTL DEF SSpec

(* The supervisor's variables keep their types. *)
THEOREM SupervisorTypes == SSpec => []STypeOK
<1>1. SInv => STypeOK
  BY DEF SInv
<1> QED BY <1>1, SupervisorInvariant, PTL

(* No child is lost while it lives, whichever signals, waits and cleanups   *)
(* interleave with its spawn.                                              *)
THEOREM LiveChildrenAreTracked == SSpec => []LiveIsTracked
<1>1. SInv => LiveIsTracked
  BY DEF SInv
<1> QED BY <1>1, SupervisorInvariant, PTL

(* A process reported Exited or Killed is dead. *)
THEOREM EndedProcessesAreDead == SSpec => []EndedIsDead
<1>1. SInv => EndedIsDead
  BY DEF SInv
<1> QED BY <1>1, SupervisorInvariant, PTL
==============================================================================
