---------------------------- MODULE StorageProofs ----------------------------
(***************************************************************************)
(* Proofs about Storage: what a save has promised is in the file, the        *)
(* user's configuration stays, and no file holds a plugin whose versions    *)
(* leave this one out, for any number of processes, jobs, manifests and     *)
(* edits, wherever processes die.                                           *)
(***************************************************************************)
EXTENDS Storage, WellFoundedInduction, TLAPS

Values == {"default", "mine", "Pending", "Completed", "installed", Nothing}
Keys == UNION {keys(f) : f \in Files}
Copies == UNION {[keys(f) -> Values] : f \in Files}
Places == {"off", "ready", "idle", "saving", "writing"}
Saved == {"jobs", "plugins"}

DiskFiles == [is : {"absent", "garbled", "whole"}, data : Copies]
Processes ==
  [pc : Places, file : Files, mem : Copies, dirty : BOOLEAN, next : Nat,
   changed : SUBSET Keys, stale : BOOLEAN]

(* The shapes the other parts need; every copy is one of its own file. *)
DiskShape ==
  /\ disk \in [Files -> DiskFiles]
  /\ \A f \in Files : disk[f].data \in [keys(f) -> Values]
ProcShape ==
  /\ proc \in [Procs -> Processes]
  /\ \A p \in Procs : proc[p].mem \in [keys(proc[p].file) -> Values]
KeptShape ==
  /\ kept \in [Files -> Copies]
  /\ \A f \in Files : kept[f] \in [keys(f) -> Values]

(* A process that has file f open. *)
Uses(p, f) == proc[p].file = f /\ proc[p].pc \in {"idle", "saving", "writing"}

(* Only a process that has loaded it uses a file other than the             *)
(* configuration.                                                          *)
OpenedFirst == \A p \in Procs : proc[p].pc \in {"off", "ready"} => proc[p].file = "config"

(* A store without the mark has nothing to save, nor has a configuration. *)
Clean(r) == r.file = "config" \/ (r.file = "jobs" /\ ~ r.dirty) => r.changed = {}
CleanIsUnchanged == \A p \in Procs : Clean(proc[p])

(* While a process writes f, nobody else has a copy that counts. *)
WritesAlone ==
  \A f \in Saved \ spoiled : \A p \in WritesTo(f) :
    /\ ~ proc[p].stale
    /\ disk[f].is # "whole"
    /\ \A q \in Procs \ {p} : Uses(q, f) => proc[q].stale

(* A copy that is not out of date differs from the promise only where its   *)
(* process has changed it.                                                 *)
CopiesAgree ==
  \A f \in Saved \ spoiled : \A p \in Procs :
    Uses(p, f) /\ ~ proc[p].stale =>
      \A k \in keys(f) \ proc[p].changed : proc[p].mem[k] = kept[f][k]

SInv ==
  /\ DiskShape /\ ProcShape /\ KeptShape /\ OpenedFirst /\ CleanIsUnchanged /\ WritesAlone /\ CopiesAgree
  /\ SavedIsKept

-----------------------------------------------------------------------------
(* The files. *)

LEMMA KeysOf ==
  /\ keys("config") = {"config"} /\ keys("jobs") = Ids /\ keys("plugins") = Names
BY DEF keys

LEMMA DefaultShape ==
  ASSUME NEW f \in Files
  PROVE  /\ Default(f) \in [keys(f) -> Values] /\ Default(f) \in Copies
         /\ Garbled(f) \in DiskFiles /\ Absent(f) \in DiskFiles
         /\ Garbled(f).data = Default(f) /\ Garbled(f).is = "garbled"
         /\ Absent(f).data = Default(f)
<1>1. Default(f) \in [keys(f) -> Values]
  BY DEF Default, Values
<1>2. Default(f) \in Copies
  BY <1>1 DEF Copies
<1> QED BY <1>1, <1>2 DEF Garbled, Absent, DiskFiles

(* A step of one process that neither loads nor writes a file whose promise *)
(* is on: its copy may change where it says so.                            *)
LEMMA LocalStep ==
  ASSUME SInv,
         NEW p \in Procs, NEW new \in Processes,
         proc' = [proc EXCEPT ![p] = new],
         new.mem \in [keys(new.file) -> Values],
         new.pc \in {"off", "ready"} => new.file = "config",
         Clean(new),
         DiskShape', KeptShape', spoiled \subseteq spoiled',
         \A f \in Saved \ spoiled' : disk'[f] = disk[f] /\ kept'[f] = kept[f],
         proc[p].file \in Saved \ spoiled' => proc[p].pc # "writing",
         new.file \in Saved \ spoiled' =>
           /\ new.pc # "writing" /\ new.file = proc[p].file
           /\ proc[p].pc \in {"idle", "saving"}
           /\ new.stale = proc[p].stale
           /\ \A k \in keys(new.file) \ new.changed :
                k \notin proc[p].changed /\ new.mem[k] = proc[p].mem[k]
  PROVE  SInv'
<1> USE DEF Saved, Files
<1>0. proc'[p] = new /\ \A q \in Procs \ {p} : proc'[q] = proc[q]
  BY DEF SInv, ProcShape
<1>1. ProcShape'
  BY <1>0 DEF SInv, ProcShape
<1>2. OpenedFirst'
  BY <1>0 DEF SInv, OpenedFirst
<1>3. CleanIsUnchanged'
  BY <1>0 DEF SInv, CleanIsUnchanged
<1>4. ASSUME NEW f \in Saved \ spoiled' PROVE WritesTo(f)' = WritesTo(f)
  BY <1>0, <1>4 DEF WritesTo
<1>5. ASSUME NEW f \in Saved \ spoiled', NEW q \in Procs, Uses(q, f)'
      PROVE  Uses(q, f) /\ proc'[q].stale = proc[q].stale
  BY <1>0, <1>5 DEF Uses
<1>6. WritesAlone'
  <2> SUFFICES ASSUME NEW f \in Saved \ spoiled', NEW q \in WritesTo(f)
               PROVE  /\ ~ proc'[q].stale
                      /\ disk'[f].is # "whole"
                      /\ \A r \in Procs \ {q} : Uses(r, f)' => proc'[r].stale
    BY <1>4 DEF WritesAlone
  <2>1. f \in Saved \ spoiled /\ q \in Procs
    BY DEF WritesTo
  <2>2. ~ proc[q].stale /\ disk[f].is # "whole"
        /\ \A r \in Procs \ {q} : Uses(r, f) => proc[r].stale
    BY <2>1 DEF SInv, WritesAlone
  <2>3. q # p
    BY DEF WritesTo
  <2> QED BY <2>1, <2>2, <2>3, <1>0, <1>5
<1>7. CopiesAgree'
  <2> SUFFICES ASSUME NEW f \in Saved \ spoiled', NEW q \in Procs, Uses(q, f)',
                      ~ proc'[q].stale, NEW k \in keys(f) \ proc'[q].changed
               PROVE  proc'[q].mem[k] = kept'[f][k]
    BY DEF CopiesAgree
  <2>1. \A j \in keys(f) \ proc[q].changed : proc[q].mem[j] = kept[f][j]
    BY <1>5 DEF SInv, CopiesAgree
  <2>2. k \notin proc[q].changed /\ proc'[q].mem[k] = proc[q].mem[k]
    BY <1>0 DEF Uses
  <2> QED BY <2>1, <2>2
<1>8. SavedIsKept'
  BY <1>4 DEF SInv, SavedIsKept, load
<1> QED BY <1>1, <1>2, <1>3, <1>6, <1>7, <1>8 DEF SInv

-----------------------------------------------------------------------------
(* The actions that are local steps. *)

LEMMA PromiseKept ==
  ASSUME KeptShape, NEW f \in Files, NEW wrong \in BOOLEAN, PromiseUnless(wrong, f)
  PROVE  /\ KeptShape' /\ spoiled \subseteq spoiled'
         /\ \A g \in Saved \ spoiled' : kept'[g] = kept[g]
         /\ wrong => f \in spoiled'
<1>1. CASE wrong
  <2>1. kept' = [kept EXCEPT ![f] = Default(f)] /\ spoiled' = spoiled \cup {f}
    BY <1>1 DEF PromiseUnless
  <2> QED BY <2>1, DefaultShape DEF KeptShape, Saved, Files
<1>2. CASE ~ wrong
  <2>1. kept' = kept /\ spoiled' = spoiled
    BY <1>2 DEF PromiseUnless
  <2> QED BY <1>2, <2>1 DEF KeptShape
<1> QED BY <1>1, <1>2

LEMMA PutFacts ==
  ASSUME ProcShape, NEW p \in Procs, NEW k \in keys(proc[p].file), NEW v \in Values
  PROVE  LET new == Put(p, k, v) IN
         /\ new \in Processes /\ new.mem \in [keys(proc[p].file) -> Values]
         /\ new.pc = proc[p].pc /\ new.file = proc[p].file
         /\ new.stale = proc[p].stale /\ new.next = proc[p].next
         /\ \A j \in keys(new.file) \ new.changed :
              j \notin proc[p].changed /\ new.mem[j] = proc[p].mem[j]
<1>1. proc[p] \in Processes /\ proc[p].mem \in [keys(proc[p].file) -> Values]
  BY DEF ProcShape
<1>2. [proc[p].mem EXCEPT ![k] = v] \in [keys(proc[p].file) -> Values]
  BY <1>1
<1>3. [proc[p].mem EXCEPT ![k] = v] \in Copies
  BY <1>1, <1>2 DEF Copies, Processes
<1>4. k \in Keys
  BY <1>1 DEF Keys, Processes
<1> DEFINE more == IF v = proc[p].mem[k] THEN proc[p].changed ELSE proc[p].changed \cup {k}
<1>5. more \in SUBSET Keys
  BY <1>1, <1>4 DEF Processes
<1>6. Put(p, k, v) = [proc[p] EXCEPT !.mem = [proc[p].mem EXCEPT ![k] = v], !.changed = more]
  BY <1>1 DEF Put, Processes
<1> HIDE DEF more
<1>7. /\ Put(p, k, v) \in Processes
      /\ Put(p, k, v).mem = [proc[p].mem EXCEPT ![k] = v]
      /\ Put(p, k, v).changed = more
      /\ Put(p, k, v).pc = proc[p].pc /\ Put(p, k, v).file = proc[p].file
      /\ Put(p, k, v).stale = proc[p].stale /\ Put(p, k, v).next = proc[p].next
  BY <1>1, <1>3, <1>5, <1>6 DEF Processes
<1> QED BY <1>1, <1>2, <1>7 DEF more

(* What LocalStep asks of the rest of the state when nothing else changes. *)
LEMMA NothingElse ==
  ASSUME SInv, UNCHANGED disk, UNCHANGED promise
  PROVE  /\ DiskShape' /\ KeptShape' /\ spoiled' = spoiled
         /\ \A f \in Saved \ spoiled' : disk'[f] = disk[f] /\ kept'[f] = kept[f]
BY DEF SInv, DiskShape, KeptShape, promise

LEMMA OffShape == Off \in Processes /\ Off.mem \in [keys(Off.file) -> Values]
BY DefaultShape DEF Off, Processes, Places, Files

LEMMA BootStep == ASSUME SInv, NEW p \in Procs, Boot(p) PROVE SInv'
<1>0. PICK read \in BOOLEAN :
        /\ proc[p].pc = "off"
        /\ proc' = [proc EXCEPT ![p] = [Off EXCEPT !.pc = IF read THEN "ready" ELSE "saving"]]
  BY DEF Boot
<1> DEFINE place == IF read THEN "ready" ELSE "saving"
           new == [Off EXCEPT !.pc = place]
<1>1. proc[p].pc = "off" /\ proc' = [proc EXCEPT ![p] = new]
  BY <1>0
<1>2. proc[p].file = "config"
  BY <1>1 DEF SInv, OpenedFirst
<1>3. new \in Processes /\ new.file = "config" /\ new.mem \in [keys(new.file) -> Values]
  BY OffShape DEF Off, Processes, Places
<1>4. UNCHANGED disk /\ UNCHANGED promise
  BY DEF Boot
<1> HIDE DEF new
<1>5. new.file \notin Saved /\ proc[p].file \notin Saved
  BY <1>2, <1>3 DEF Saved
<1>6. Clean(new)
  BY <1>3 DEF Off, Clean, new
<1> QED BY <1>1, <1>3, <1>4, <1>5, <1>6, NothingElse, LocalStep

(* A change of the copy, with the mark set or the file other than jobs. *)
LEMMA PutStep ==
  ASSUME SInv, NEW p \in Procs, proc[p].pc = "idle",
         NEW k \in keys(proc[p].file), NEW v \in Values, NEW new \in Processes,
         new.mem = Put(p, k, v).mem, new.changed = Put(p, k, v).changed,
         new.file = Put(p, k, v).file, new.stale = Put(p, k, v).stale,
         new.pc \in {"idle", "saving"},
         Clean(new),
         proc' = [proc EXCEPT ![p] = new],
         UNCHANGED disk, KeptShape', spoiled \subseteq spoiled',
         \A f \in Saved \ spoiled' : kept'[f] = kept[f]
  PROVE  SInv'
<1>1. /\ new.mem \in [keys(new.file) -> Values]
      /\ new.file = proc[p].file /\ new.stale = proc[p].stale
      /\ \A j \in keys(new.file) \ new.changed :
           j \notin proc[p].changed /\ new.mem[j] = proc[p].mem[j]
  <2> DEFINE put == Put(p, k, v)
  <2>1. /\ put.mem \in [keys(proc[p].file) -> Values]
        /\ put.file = proc[p].file /\ put.stale = proc[p].stale
        /\ \A j \in keys(put.file) \ put.changed :
             j \notin proc[p].changed /\ put.mem[j] = proc[p].mem[j]
    BY PutFacts DEF SInv
  <2>2. /\ new.mem = put.mem /\ new.changed = put.changed
        /\ new.file = put.file /\ new.stale = put.stale
    OBVIOUS
  <2> HIDE DEF put
  <2> QED BY <2>1, <2>2
<1>2. DiskShape' /\ \A f \in Saved \ spoiled' : disk'[f] = disk[f]
  BY DEF SInv, DiskShape
<1>3. new.pc \notin {"off", "ready", "writing"} /\ proc[p].pc # "writing"
  OBVIOUS
<1> QED BY <1>1, <1>2, <1>3, LocalStep

LEMMA StoreStep ==
  ASSUME SInv, NEW p \in Procs, StoreCall(p)
  PROVE  SInv'
<1>0. proc[p] \in Processes /\ proc[p].mem \in [keys(proc[p].file) -> Values]
  BY DEF SInv, ProcShape
<1>1. CASE Insert(p)
  <2> DEFINE id == proc[p].next
  <2>1. /\ proc[p].file = "jobs" /\ proc[p].pc = "idle" /\ id \in Ids
        /\ PromiseUnless(proc[p].mem[id] # Nothing, "jobs") /\ UNCHANGED disk
    BY <1>1 DEF Insert, Has
  <2>2. /\ KeptShape' /\ spoiled \subseteq spoiled'
        /\ \A g \in Saved \ spoiled' : kept'[g] = kept[g]
    BY <2>1, PromiseKept DEF SInv, Files
  <2>3. id \in keys(proc[p].file) /\ id + 1 \in Nat /\ "Pending" \in Values
    BY <1>0, <2>1, KeysOf DEF Processes, Values
  <2> DEFINE put == Put(p, id, "Pending")
             new == [put EXCEPT !.next = id + 1, !.dirty = TRUE]
  <2>4. put \in Processes /\ put.pc = "idle"
    BY <2>1, <2>3, PutFacts DEF SInv
  <2>5. proc' = [proc EXCEPT ![p] = new]
    BY <1>1 DEF Insert
  <2>6. /\ new \in Processes /\ new.mem = put.mem /\ new.changed = put.changed
        /\ new.file = put.file /\ new.stale = put.stale /\ new.pc = "idle" /\ new.dirty
    <3> HIDE DEF put
    <3> QED BY <2>3, <2>4 DEF Processes
  <2> HIDE DEF new
  <2>7. Clean(new)
    BY <2>1, <2>3, <2>6, PutFacts DEF Clean, SInv
  <2> QED BY <2>1, <2>2, <2>3, <2>5, <2>6, <2>7, PutStep
<1>2. ASSUME NEW id \in Ids, NEW v \in Values, Has(p, "jobs"), UNCHANGED <<disk, promise>>,
             proc' = [proc EXCEPT ![p] = [Put(p, id, v) EXCEPT !.dirty = TRUE]]
      PROVE  SInv'
  <2>1. proc[p].file = "jobs" /\ proc[p].pc = "idle" /\ proc[p].next \in Nat
    BY <1>0, <1>2 DEF Has, Processes
  <2>2. id \in keys(proc[p].file)
    BY <2>1, KeysOf
  <2> DEFINE put == Put(p, id, v)
             new == [put EXCEPT !.dirty = TRUE]
  <2>3. put \in Processes /\ put.pc = "idle"
    BY <2>1, <2>2, PutFacts DEF SInv
  <2>4. proc' = [proc EXCEPT ![p] = new]
    BY <1>2
  <2>5. KeptShape' /\ spoiled' = spoiled /\ kept' = kept /\ disk' = disk
    BY <1>2, NothingElse DEF promise
  <2>6. /\ new \in Processes /\ new.mem = put.mem /\ new.changed = put.changed
        /\ new.file = put.file /\ new.stale = put.stale /\ new.pc = "idle" /\ new.dirty
    <3> HIDE DEF put
    <3> QED BY <2>3 DEF Processes
  <2> HIDE DEF new
  <2>7. Clean(new)
    BY <2>1, <2>2, <2>6, PutFacts DEF Clean, SInv
  <2> QED BY <2>1, <2>2, <2>4, <2>5, <2>6, <2>7, PutStep
<1>3. ASSUME NEW id \in Ids, GetMut(p, id) \/ Remove(p, id) PROVE SInv'
  <2>1. Has(p, "jobs") /\ UNCHANGED <<disk, promise>>
    BY <1>3 DEF GetMut, Remove
  <2>2. proc[p].mem[id] \in Values
    BY <1>0, <2>1, KeysOf DEF Has
  <2>3. Complete(proc[p].mem[id]) \in Values /\ Nothing \in Values
    BY <2>2 DEF Complete, Values
  <2> QED BY <1>2, <1>3, <2>1, <2>3 DEF GetMut, Remove
<1>4. CASE Save(p)
  <2> DEFINE new == [proc[p] EXCEPT !.pc = "saving"]
  <2>1. /\ proc[p].file = "jobs" /\ proc[p].pc = "idle" /\ proc' = [proc EXCEPT ![p] = new]
        /\ UNCHANGED disk /\ UNCHANGED promise
    BY <1>4 DEF Save, Has
  <2>2. /\ new \in Processes /\ new.mem = proc[p].mem /\ new.file = proc[p].file
        /\ new.pc = "saving" /\ new.dirty = proc[p].dirty
        /\ new.changed = proc[p].changed /\ new.stale = proc[p].stale
    BY <1>0 DEF Processes, Places
  <2> HIDE DEF new
  <2>3. Clean(new)
    BY <2>2 DEF SInv, CleanIsUnchanged, Clean
  <2> QED BY <1>0, <2>1, <2>2, <2>3, NothingElse, LocalStep
<1>5. CASE SaveIfDirty(p)
  <2> DEFINE new == [proc[p] EXCEPT !.changed = {}]
  <2>1. /\ proc[p].file = "jobs" /\ proc[p].pc = "idle" /\ proc' = [proc EXCEPT ![p] = new]
        /\ UNCHANGED disk /\ spoiled' = spoiled /\ kept' = Promised(p, "jobs")
        /\ ~ proc[p].dirty
    BY <1>5 DEF SaveIfDirty, Has
  <2>2. proc[p].changed = {}
    BY <2>1 DEF SInv, CleanIsUnchanged, Clean
  <2>3. /\ new \in Processes /\ new.mem = proc[p].mem /\ new.file = proc[p].file
        /\ new.pc = "idle" /\ new.changed = {} /\ new.stale = proc[p].stale
    BY <1>0, <2>1 DEF Processes, Places
  <2>4. kept' = kept
    <3>1. kept["jobs"] = [k \in keys("jobs") |-> kept["jobs"][k]] /\ kept \in [Files -> Copies]
      BY DEF SInv, KeptShape, Files
    <3>2. Promised(p, "jobs") = IF "jobs" \in spoiled THEN kept ELSE
            [kept EXCEPT !["jobs"] = [k \in keys("jobs") |-> kept["jobs"][k]]]
      BY <2>2 DEF Promised
    <3> QED BY <2>1, <3>1, <3>2
  <2>5. UNCHANGED promise
    BY <2>1, <2>4 DEF promise
  <2> HIDE DEF new
  <2>6. Clean(new)
    BY <2>3 DEF Clean
  <2> QED BY <1>0, <2>1, <2>2, <2>3, <2>5, <2>6, NothingElse, LocalStep
<1> QED BY <1>1, <1>3, <1>4, <1>5 DEF StoreCall

LEMMA RegistryStep ==
  ASSUME SInv, NEW p \in Procs, RegistryCall(p)
  PROVE  SInv'
<1>1. ASSUME NEW n \in Names, NEW v \in Values, Has(p, "plugins"), UNCHANGED <<disk, promise>>,
             proc' = [proc EXCEPT ![p] = [Put(p, n, v) EXCEPT !.pc = "saving"]]
      PROVE  SInv'
  <2>1. proc[p].file = "plugins" /\ proc[p].pc = "idle" /\ n \in keys(proc[p].file)
    BY <1>1, KeysOf DEF Has
  <2> DEFINE put == Put(p, n, v)
             new == [put EXCEPT !.pc = "saving"]
  <2>2. put \in Processes /\ put.file = "plugins"
    BY <2>1, PutFacts DEF SInv
  <2>3. proc' = [proc EXCEPT ![p] = new]
    BY <1>1
  <2>4. KeptShape' /\ spoiled' = spoiled /\ kept' = kept /\ disk' = disk
    BY <1>1, NothingElse DEF promise
  <2>5. /\ new \in Processes /\ new.mem = put.mem /\ new.changed = put.changed
        /\ new.file = put.file /\ new.stale = put.stale /\ new.pc = "saving"
        /\ new.file = "plugins"
    <3> HIDE DEF put
    <3> QED BY <2>2 DEF Processes, Places
  <2> HIDE DEF new
  <2>6. Clean(new)
    BY <2>5 DEF Clean
  <2> QED BY <2>1, <2>3, <2>4, <2>5, <2>6, PutStep
<1>2. ASSUME NEW m \in Manifests, Install(p, m) PROVE SInv'
  <2>1. m.name \in Names /\ "installed" \in Values
    BY DEF Names, Values
  <2> QED BY <1>1, <1>2, <2>1 DEF Install
<1>3. ASSUME NEW n \in Names, Uninstall(p, n) PROVE SInv'
  <2>1. Nothing \in Values
    BY DEF Values
  <2> QED BY <1>1, <1>3, <2>1 DEF Uninstall
<1> QED BY <1>2, <1>3 DEF RegistryCall

LEMMA TruncateFailsStep == ASSUME SInv, NEW p \in Procs, TruncateFails(p) PROVE SInv'
<1> DEFINE new == [proc[p] EXCEPT !.pc = Resumed(p)]
<1>0. proc[p] \in Processes /\ proc[p].mem \in [keys(proc[p].file) -> Values]
  BY DEF SInv, ProcShape
<1>1. proc[p].pc = "saving" /\ proc' = [proc EXCEPT ![p] = new]
      /\ UNCHANGED disk /\ UNCHANGED promise
  BY DEF TruncateFails
<1>2. Resumed(p) \in {"ready", "idle"} /\ (Resumed(p) = "ready" => proc[p].file = "config")
  BY DEF Resumed
<1>3. /\ new \in Processes /\ new.mem = proc[p].mem /\ new.file = proc[p].file
      /\ new.pc = Resumed(p) /\ new.dirty = proc[p].dirty
      /\ new.changed = proc[p].changed /\ new.stale = proc[p].stale
  BY <1>0, <1>2 DEF Processes, Places
<1> HIDE DEF new
<1>4. Clean(new)
  BY <1>3 DEF SInv, CleanIsUnchanged, Clean
<1> QED BY <1>0, <1>1, <1>2, <1>3, <1>4, NothingElse, LocalStep

LEMMA WriteFailsStep == ASSUME SInv, NEW p \in Procs, WriteFails(p) PROVE SInv'
<1> DEFINE f == proc[p].file
           new == [proc[p] EXCEPT !.pc = Resumed(p)]
<1>0. /\ proc[p] \in Processes /\ proc[p].mem \in [keys(proc[p].file) -> Values]
      /\ f \in Files
  BY DEF SInv, ProcShape, Processes
<1>1. proc' = [proc EXCEPT ![p] = new] /\ PromiseUnless(TRUE, f)
      /\ disk' = [disk EXCEPT ![f] = Garbled(f)]
  BY DEF WriteFails
<1>2. Resumed(p) \in {"ready", "idle"} /\ (Resumed(p) = "ready" => proc[p].file = "config")
  BY DEF Resumed
<1>3. /\ new \in Processes /\ new.mem = proc[p].mem /\ new.file = proc[p].file
      /\ new.pc = Resumed(p) /\ new.dirty = proc[p].dirty
      /\ new.changed = proc[p].changed
  BY <1>0, <1>2 DEF Processes, Places
<1>4. Clean(new)
  BY <1>3 DEF SInv, CleanIsUnchanged, Clean
<1>5. /\ KeptShape' /\ spoiled \subseteq spoiled' /\ f \in spoiled'
      /\ \A g \in Saved \ spoiled' : kept'[g] = kept[g]
  BY <1>0, <1>1, PromiseKept DEF SInv
<1> HIDE DEF new
<1>6. DiskShape' /\ \A g \in Saved \ spoiled' : disk'[g] = disk[g]
  BY <1>0, <1>1, <1>5, DefaultShape DEF SInv, DiskShape, Saved, Files
<1> QED BY <1>0, <1>1, <1>2, <1>3, <1>4, <1>5, <1>6, LocalStep

LEMMA StopStep == ASSUME SInv, NEW p \in Procs, Stop(p) PROVE SInv'
<1>0. proc[p].file \in Files /\ (proc[p].pc = "writing") \in BOOLEAN
  BY DEF SInv, ProcShape, Processes
<1>1. proc' = [proc EXCEPT ![p] = Off] /\ UNCHANGED disk
      /\ PromiseUnless(proc[p].pc = "writing", proc[p].file)
  BY DEF Stop
<1>2. /\ KeptShape' /\ spoiled \subseteq spoiled'
      /\ \A g \in Saved \ spoiled' : kept'[g] = kept[g]
      /\ proc[p].pc = "writing" => proc[p].file \in spoiled'
  BY <1>0, <1>1, PromiseKept DEF SInv
<1>3. DiskShape' /\ \A g \in Saved \ spoiled' : disk'[g] = disk[g]
  BY <1>1 DEF SInv, DiskShape
<1>4. Off.file = "config" /\ "config" \notin Saved /\ Clean(Off)
  BY DEF Off, Saved, Clean
<1> QED BY <1>1, <1>2, <1>3, <1>4, OffShape, LocalStep

-----------------------------------------------------------------------------
(* The actions that load, truncate and fill a file. *)

LEMMA OpenStep ==
  ASSUME SInv, NEW p \in Procs, NEW f \in Saved, Open(p, f) PROVE SInv'
<1>0. f \in Files /\ proc[p] \in Processes /\ "config" \notin Saved
  BY DEF SInv, ProcShape, Saved, Files
<1>1. PICK copy \in {load(f), Default(f)} :
        proc' = [proc EXCEPT ![p].pc = "idle", ![p].file = f, ![p].mem = copy,
                             ![p].stale = (WritesTo(f) # {} \/ copy # load(f))]
  BY DEF Open
<1>2. proc[p].pc = "ready" /\ UNCHANGED disk /\ UNCHANGED kept /\ UNCHANGED spoiled
  BY DEF Open, promise
<1>3. copy \in [keys(f) -> Values] /\ copy \in Copies
  <2>1. load(f) \in [keys(f) -> Values] /\ Default(f) \in [keys(f) -> Values]
    BY <1>0, DefaultShape DEF SInv, DiskShape, load
  <2> QED BY <1>0, <1>1, <2>1 DEF Copies
<1> DEFINE late == WritesTo(f) # {} \/ copy # load(f)
           new == [proc[p] EXCEPT !.pc = "idle", !.file = f, !.mem = copy, !.stale = late]
<1>4. proc' = [proc EXCEPT ![p] = new]
  BY <1>1 DEF SInv, ProcShape
<1>5. late \in BOOLEAN
  OBVIOUS
<1>6. /\ new \in Processes /\ new.pc = "idle" /\ new.file = f /\ new.mem = copy
      /\ new.stale = late /\ new.changed = proc[p].changed
  <2> HIDE DEF late
  <2> QED BY <1>0, <1>3, <1>5 DEF Processes, Places
<1> HIDE DEF new
<1>7. proc'[p] = new /\ \A q \in Procs \ {p} : proc'[q] = proc[q]
  BY <1>4 DEF SInv, ProcShape
<1>8. proc[p].file = "config" /\ proc[p].changed = {}
  BY <1>2 DEF SInv, OpenedFirst, CleanIsUnchanged, Clean
<1>9. DiskShape' /\ KeptShape'
  BY <1>2 DEF SInv, DiskShape, KeptShape
<1>10. ProcShape'
  BY <1>3, <1>6, <1>7, <1>4 DEF SInv, ProcShape
<1>11. OpenedFirst'
  BY <1>6, <1>7 DEF SInv, OpenedFirst
<1>12. CleanIsUnchanged'
  BY <1>6, <1>7, <1>8 DEF SInv, CleanIsUnchanged, Clean
<1>13. ASSUME NEW g \in Saved PROVE WritesTo(g)' = WritesTo(g)
  BY <1>2, <1>6, <1>7 DEF WritesTo
<1>14. WritesAlone'
  <2> SUFFICES ASSUME NEW g \in Saved \ spoiled, NEW q \in WritesTo(g)
               PROVE  /\ ~ proc'[q].stale
                      /\ disk[g].is # "whole"
                      /\ \A r \in Procs \ {q} : Uses(r, g)' => proc'[r].stale
    BY <1>2, <1>13 DEF WritesAlone
  <2>1. ~ proc[q].stale /\ disk[g].is # "whole" /\ q \in Procs
        /\ \A r \in Procs \ {q} : Uses(r, g) => proc[r].stale
    BY DEF SInv, WritesAlone, WritesTo
  <2>2. q # p
    BY <1>2 DEF WritesTo
  <2>3. g = f => new.stale
    BY <1>6
  <2> QED BY <2>1, <2>2, <2>3, <1>6, <1>7 DEF Uses
<1>15. CopiesAgree'
  <2> SUFFICES ASSUME NEW g \in Saved \ spoiled, NEW q \in Procs, Uses(q, g)',
                      ~ proc'[q].stale, NEW k \in keys(g) \ proc'[q].changed
               PROVE  proc'[q].mem[k] = kept[g][k]
    BY <1>2 DEF CopiesAgree
  <2>1. CASE q # p
    BY <2>1, <1>7 DEF SInv, CopiesAgree, Uses
  <2>2. CASE q = p
    <3>1. g = f /\ ~ late
      BY <2>2, <1>6, <1>7 DEF Uses
    <3>2. WritesTo(f) = {} /\ copy = load(f)
      BY <3>1
    <3>3. load(f) = kept[f]
      BY <3>1, <3>2 DEF SInv, SavedIsKept, Saved
    <3> QED BY <2>2, <3>1, <3>2, <3>3, <1>6, <1>7
  <2> QED BY <2>1, <2>2
<1>16. SavedIsKept'
  BY <1>2, <1>13 DEF SInv, SavedIsKept, load, Saved
<1> QED BY <1>9, <1>10, <1>11, <1>12, <1>14, <1>15, <1>16 DEF SInv

LEMMA TruncateStep == ASSUME SInv, NEW p \in Procs, Truncate(p) PROVE SInv'
<1> DEFINE f == proc[p].file
           new(q) == IF q = p THEN [proc[p] EXCEPT !.pc = "writing"]
                     ELSE IF proc[q].file = f /\ proc[q].pc # "off"
                       THEN [proc[q] EXCEPT !.stale = TRUE] ELSE proc[q]
<1>0. f \in Files /\ \A q \in Procs : proc[q] \in Processes
  BY DEF SInv, ProcShape, Processes
<1>1. /\ proc[p].pc = "saving" /\ disk' = [disk EXCEPT ![f] = Garbled(f)]
      /\ proc' = [q \in Procs |-> new(q)] /\ PromiseUnless(proc[p].stale, f)
  BY DEF Truncate
<1>2. /\ KeptShape' /\ spoiled \subseteq spoiled'
      /\ \A g \in Saved \ spoiled' : kept'[g] = kept[g]
      /\ proc[p].stale => f \in spoiled'
  <2>1. proc[p].stale \in BOOLEAN
    BY <1>0 DEF Processes
  <2> QED BY <2>1, <1>0, <1>1, PromiseKept DEF SInv
<1>3. ASSUME NEW q \in Procs
      PROVE  /\ new(q) \in Processes /\ new(q).mem = proc[q].mem /\ new(q).file = proc[q].file
             /\ new(q).dirty = proc[q].dirty /\ new(q).changed = proc[q].changed
             /\ new(q).pc = (IF q = p THEN "writing" ELSE proc[q].pc)
  BY <1>0 DEF Processes, Places
<1>4. ASSUME NEW q \in Procs \ {p}
      PROVE  /\ Uses(q, f) => new(q).stale
             /\ proc[q].file # f => new(q).stale = proc[q].stale
  BY <1>0 DEF Processes, Uses
<1>5. new(p).stale = proc[p].stale
  BY <1>0 DEF Processes
<1>6. \A q \in Procs : proc'[q] = new(q)
  BY <1>1
<1> HIDE DEF new
<1>7. DiskShape'
  BY <1>0, <1>1, DefaultShape DEF SInv, DiskShape
<1>8. ProcShape'
  BY <1>1, <1>3, <1>6 DEF SInv, ProcShape
<1>9. OpenedFirst'
  BY <1>3, <1>6 DEF SInv, OpenedFirst
<1>10. CleanIsUnchanged'
  BY <1>3, <1>6 DEF SInv, CleanIsUnchanged, Clean
<1>11. ASSUME NEW g \in Saved, NEW q \in Procs PROVE Uses(q, g)' = Uses(q, g)
  BY <1>1, <1>3, <1>6 DEF Uses
<1>12. ASSUME NEW g \in Files PROVE WritesTo(g)' = WritesTo(g) \cup (IF g = f THEN {p} ELSE {})
  BY <1>1, <1>3, <1>6 DEF WritesTo
<1>13. f \in Saved \ spoiled' => WritesTo(f) = {}
  <2> SUFFICES ASSUME f \in Saved \ spoiled', NEW q \in WritesTo(f) PROVE FALSE
    OBVIOUS
  <2>1. f \in Saved \ spoiled /\ q \in Procs /\ q # p
    BY <1>1, <1>2 DEF WritesTo
  <2>2. Uses(p, f)
    BY <1>1 DEF Uses
  <2> QED BY <2>1, <2>2, <1>2 DEF SInv, WritesAlone
<1>14. WritesAlone'
  <2> SUFFICES ASSUME NEW g \in Saved \ spoiled', NEW q \in WritesTo(g)'
               PROVE  /\ ~ proc'[q].stale
                      /\ disk'[g].is # "whole"
                      /\ \A r \in Procs \ {q} : Uses(r, g)' => proc'[r].stale
    BY DEF WritesAlone
  <2>0. g \in Saved \ spoiled /\ g \in Files
    BY <1>2 DEF Saved, Files
  <2>1. CASE g = f
    <3>1. q = p
      BY <2>1, <1>12, <1>13, <2>0
    <3>2. ~ proc'[p].stale
      BY <1>2, <1>5, <1>6, <2>1
    <3>3. disk'[f].is = "garbled"
      BY <1>0, <1>1, DefaultShape DEF SInv, DiskShape
    <3> QED BY <2>1, <3>1, <3>2, <3>3, <1>4, <1>6, <1>11
  <2>2. CASE g # f
    <3>1. q \in WritesTo(g) /\ q \in Procs /\ disk'[g] = disk[g]
      BY <2>0, <2>2, <1>1, <1>12 DEF WritesTo, SInv, DiskShape
    <3>2. ~ proc[q].stale /\ disk[g].is # "whole"
          /\ \A r \in Procs \ {q} : Uses(r, g) => proc[r].stale
      BY <2>0, <3>1 DEF SInv, WritesAlone
    <3>3. ASSUME NEW r \in Procs, proc[r].file = g PROVE proc'[r].stale = proc[r].stale
      BY <3>3, <2>2, <1>4, <1>6
    <3>4. proc[q].file = g
      BY <3>1 DEF WritesTo
    <3> QED BY <3>1, <3>2, <3>3, <3>4, <1>11 DEF Uses
  <2> QED BY <2>1, <2>2
<1>15. CopiesAgree'
  <2> SUFFICES ASSUME NEW g \in Saved \ spoiled', NEW q \in Procs, Uses(q, g)',
                      ~ proc'[q].stale, NEW k \in keys(g) \ proc'[q].changed
               PROVE  proc'[q].mem[k] = kept'[g][k]
    BY DEF CopiesAgree
  <2>1. g \in Saved \ spoiled /\ kept'[g] = kept[g] /\ Uses(q, g)
    BY <1>2, <1>11
  <2>2. ~ proc[q].stale
    BY <2>1, <1>4, <1>5, <1>6 DEF Uses
  <2>3. k \in keys(g) \ proc[q].changed /\ proc'[q].mem = proc[q].mem
    BY <1>3, <1>6
  <2> QED BY <2>1, <2>2, <2>3 DEF SInv, CopiesAgree
<1>16. SavedIsKept'
  <2> SUFFICES ASSUME NEW g \in Saved \ spoiled', WritesTo(g)' = {}
               PROVE  load(g)' = kept'[g]
    BY DEF SavedIsKept, Saved
  <2>1. g \in Saved \ spoiled /\ g # f /\ WritesTo(g) = {} /\ g \in Files
    BY <1>2, <1>12 DEF Saved, Files
  <2> QED BY <2>1, <1>1, <1>2 DEF SInv, SavedIsKept, load, Saved, DiskShape
<1> QED BY <1>2, <1>7, <1>8, <1>9, <1>10, <1>14, <1>15, <1>16 DEF SInv

LEMMA PromisedShape ==
  ASSUME KeptShape, ProcShape, NEW p \in Procs, proc[p].file \in Files
  PROVE  LET f == proc[p].file IN
         /\ Promised(p, f) \in [Files -> Copies]
         /\ \A g \in Files : Promised(p, f)[g] \in [keys(g) -> Values]
         /\ \A g \in Files \ {f} : Promised(p, f)[g] = kept[g]
         /\ f \in spoiled => Promised(p, f) = kept
         /\ f \notin spoiled =>
              Promised(p, f)[f] = [k \in keys(f) |->
                IF k \in proc[p].changed THEN proc[p].mem[k] ELSE kept[f][k]]
<1> DEFINE f == proc[p].file
           due == [k \in keys(f) |-> IF k \in proc[p].changed THEN proc[p].mem[k]
                                     ELSE kept[f][k]]
<1>1. CASE f \in spoiled
  <2>1. Promised(p, f) = kept
    BY <1>1 DEF Promised
  <2> QED BY <1>1, <2>1 DEF KeptShape
<1>2. CASE f \notin spoiled
  <2>1. Promised(p, f) = [kept EXCEPT ![f] = due]
    BY <1>2 DEF Promised
  <2>2. due \in [keys(f) -> Values]
    BY DEF KeptShape, ProcShape
  <2>3. due \in Copies
    BY <2>2 DEF Copies
  <2> HIDE DEF due
  <2>4. Promised(p, f)[f] = due
    BY <2>1 DEF KeptShape
  <2> QED BY <1>2, <2>1, <2>2, <2>3, <2>4 DEF KeptShape, due
<1> QED BY <1>1, <1>2

LEMMA WriteStep == ASSUME SInv, NEW p \in Procs, Write(p) PROVE SInv'
<1> DEFINE f == proc[p].file
           new == [proc[p] EXCEPT !.pc = Resumed(p), !.dirty = FALSE, !.changed = {}]
<1>0. /\ f \in Files /\ proc[p] \in Processes /\ ProcShape /\ KeptShape
      /\ proc[p].mem \in [keys(f) -> Values]
  BY DEF SInv, ProcShape, Processes
<1>1. PICK d \in {Whole(proc[p].mem)}
                 \cup (IF disk[f].is = "whole" THEN {Garbled(f)} ELSE {}) :
        disk' = [disk EXCEPT ![f] = d]
  BY DEF Write
<1>2. /\ proc[p].pc = "writing" /\ kept' = Promised(p, f) /\ spoiled' = spoiled
      /\ proc' = [proc EXCEPT ![p] = new]
  BY DEF Write, SInv, ProcShape
<1>3. Resumed(p) \in {"ready", "idle"} /\ (Resumed(p) = "ready" => proc[p].file = "config")
  BY DEF Resumed
<1>4. /\ new \in Processes /\ new.mem = proc[p].mem /\ new.file = f /\ new.changed = {}
      /\ new.pc = Resumed(p) /\ new.stale = proc[p].stale
  BY <1>0, <1>3 DEF Processes, Places
<1> HIDE DEF new
<1>5. Clean(new)
  BY <1>4 DEF Clean
<1>6. /\ KeptShape'
      /\ \A g \in Files \ {f} : kept'[g] = kept[g]
      /\ f \in spoiled => kept' = kept
  BY <1>0, <1>2, PromisedShape DEF KeptShape
<1>7. DiskShape' /\ (\A g \in Files \ {f} : disk'[g] = disk[g]) /\ disk'[f] = d
  <2>1. Whole(proc[p].mem) \in DiskFiles /\ Whole(proc[p].mem).data = proc[p].mem
    BY <1>0 DEF Whole, DiskFiles, Processes
  <2>2. d \in DiskFiles /\ d.data \in [keys(f) -> Values]
    BY <2>1, <1>0, <1>1, DefaultShape
  <2> QED BY <1>0, <1>1, <2>2 DEF SInv, DiskShape
<1>8. CASE f \notin Saved \ spoiled
  <2>1. \A g \in Saved \ spoiled' : disk'[g] = disk[g] /\ kept'[g] = kept[g]
    BY <1>2, <1>6, <1>7, <1>8 DEF Saved, Files
  <2> QED BY <1>0, <1>2, <1>3, <1>4, <1>5, <1>6, <1>7, <1>8, <2>1, LocalStep
<1>9. CASE f \in Saved \ spoiled
  <2>0. proc'[p] = new /\ \A q \in Procs \ {p} : proc'[q] = proc[q]
    BY <1>2 DEF SInv, ProcShape
  <2>1. p \in WritesTo(f) /\ new.pc = "idle" /\ Uses(p, f)
    BY <1>2, <1>4, <1>9 DEF WritesTo, Resumed, Saved, Uses
  <2>2. /\ ~ proc[p].stale /\ disk[f].is # "whole"
        /\ \A q \in Procs \ {p} : Uses(q, f) => proc[q].stale
    BY <2>1, <1>9 DEF SInv, WritesAlone
  <2>3. disk'[f].data = proc[p].mem
    BY <1>1, <1>7, <2>2 DEF Whole
  <2>4. kept'[f] = proc[p].mem
    <3>1. \A k \in keys(f) \ proc[p].changed : proc[p].mem[k] = kept[f][k]
      BY <1>9, <2>1, <2>2 DEF SInv, CopiesAgree
    <3>2. kept'[f] = [k \in keys(f) |-> IF k \in proc[p].changed THEN proc[p].mem[k]
                                        ELSE kept[f][k]]
      BY <1>0, <1>2, <1>9, PromisedShape
    <3> QED BY <1>0, <3>1, <3>2
  <2>5. ASSUME NEW g \in Saved, g = f PROVE WritesTo(g)' = {}
    <3> SUFFICES ASSUME NEW q \in Procs, q \in WritesTo(g)' PROVE FALSE
      BY DEF WritesTo
    <3>1. q # p /\ q \in WritesTo(g)
      BY <2>0, <2>1 DEF WritesTo
    <3>2. ~ proc[q].stale /\ Uses(q, g)
      BY <3>1, <2>5, <1>9 DEF SInv, WritesAlone, WritesTo, Uses
    <3> QED BY <3>1, <3>2, <2>2, <2>5
  <2>6. ASSUME NEW g \in Saved, g # f PROVE WritesTo(g)' = WritesTo(g)
    BY <2>0, <2>6, <1>4 DEF WritesTo
  <2>7. ASSUME NEW g \in Saved, NEW q \in Procs, Uses(q, g)'
        PROVE  Uses(q, g) /\ proc'[q].stale = proc[q].stale /\ proc'[q].mem = proc[q].mem
               /\ (g # f => q # p)
    BY <2>0, <2>1, <2>7, <1>4 DEF Uses
  <2>8. ProcShape'
    BY <2>0, <1>0, <1>2, <1>4 DEF ProcShape
  <2>9. OpenedFirst'
    BY <2>0, <2>1 DEF SInv, OpenedFirst
  <2>10. CleanIsUnchanged'
    BY <2>0, <1>5 DEF SInv, CleanIsUnchanged
  <2>11. WritesAlone'
    <3> SUFFICES ASSUME NEW g \in Saved \ spoiled, NEW q \in WritesTo(g)'
                 PROVE  /\ ~ proc'[q].stale
                        /\ disk'[g].is # "whole"
                        /\ \A r \in Procs \ {q} : Uses(r, g)' => proc'[r].stale
      BY <1>2 DEF WritesAlone
    <3>1. g # f /\ g \in Files
      BY <2>5 DEF Saved, Files
    <3>2. q \in WritesTo(g) /\ q \in Procs /\ proc'[q] = proc[q] /\ disk'[g] = disk[g]
      BY <3>1, <2>0, <2>6, <1>7 DEF WritesTo
    <3>3. ~ proc[q].stale /\ disk[g].is # "whole"
          /\ \A r \in Procs \ {q} : Uses(r, g) => proc[r].stale
      BY <3>2 DEF SInv, WritesAlone
    <3> QED BY <3>2, <3>3, <2>7
  <2>12. CopiesAgree'
    <3> SUFFICES ASSUME NEW g \in Saved \ spoiled, NEW q \in Procs, Uses(q, g)',
                        ~ proc'[q].stale, NEW k \in keys(g) \ proc'[q].changed
                 PROVE  proc'[q].mem[k] = kept'[g][k]
      BY <1>2 DEF CopiesAgree
    <3>1. CASE g # f
      <4>1. q # p /\ proc'[q] = proc[q] /\ kept'[g] = kept[g] /\ Uses(q, g)
        BY <3>1, <2>0, <2>7, <1>6 DEF Saved, Files
      <4> QED BY <4>1 DEF SInv, CopiesAgree
    <3>2. CASE g = f
      <4>1. q = p
        BY <3>2, <2>2, <2>7
      <4> QED BY <3>2, <4>1, <2>0, <2>4, <1>4
    <3> QED BY <3>1, <3>2
  <2>13. SavedIsKept'
    <3> SUFFICES ASSUME NEW g \in Saved \ spoiled, WritesTo(g)' = {}
                 PROVE  disk'[g].data = kept'[g]
      BY <1>2 DEF SavedIsKept, Saved, load
    <3>1. CASE g = f
      BY <3>1, <2>3, <2>4
    <3>2. CASE g # f
      BY <3>2, <2>6, <1>6, <1>7 DEF SInv, SavedIsKept, Saved, Files, load
    <3> QED BY <3>1, <3>2
  <2> QED BY <1>6, <1>7, <2>8, <2>9, <2>10, <2>11, <2>12, <2>13 DEF SInv
<1> QED BY <1>8, <1>9

LEMMA EditStep == ASSUME SInv, EditBegins \/ EditEnds PROVE SInv'
<1>1. UNCHANGED proc /\ UNCHANGED kept /\ UNCHANGED spoiled
  BY DEF EditBegins, EditEnds, promise
<1>2. DiskShape' /\ \A g \in Saved : disk'[g] = disk[g]
  <2>1. CASE EditBegins
    <3>1. disk' = [disk EXCEPT !["config"] = Garbled("config")] /\ "config" \in Files
      BY <2>1 DEF EditBegins, Files
    <3>2. DiskShape'
      BY <3>1, DefaultShape DEF SInv, DiskShape
    <3>3. \A g \in Saved : disk'[g] = disk[g]
      BY <3>1 DEF SInv, DiskShape, Saved, Files
    <3> QED BY <3>2, <3>3
  <2>2. CASE EditEnds
    <3> DEFINE own == [k \in {"config"} |-> "mine"]
    <3>1. own \in [keys("config") -> Values]
      BY KeysOf DEF Values
    <3>2. own \in Copies
      BY <3>1 DEF Copies, Files
    <3> HIDE DEF own
    <3>3. Whole(own) \in DiskFiles /\ Whole(own).data = own
      BY <3>2 DEF Whole, DiskFiles
    <3>4. disk' = disk \/ disk' = [disk EXCEPT !["config"] = Whole(own)]
      BY <2>2 DEF EditEnds, own
    <3>5. DiskShape'
      BY <3>1, <3>3, <3>4 DEF SInv, DiskShape
    <3>6. \A g \in Saved : disk'[g] = disk[g]
      BY <3>4 DEF SInv, DiskShape, Saved, Files
    <3> QED BY <3>5, <3>6
  <2> QED BY <2>1, <2>2
<1>3. ProcShape' /\ KeptShape' /\ OpenedFirst' /\ CleanIsUnchanged' /\ CopiesAgree'
  BY <1>1 DEF SInv, ProcShape, KeptShape, OpenedFirst, CleanIsUnchanged, Clean,
              CopiesAgree, Uses
<1>4. WritesAlone' /\ SavedIsKept'
  BY <1>1, <1>2 DEF SInv, WritesAlone, SavedIsKept, WritesTo, Uses, load, Saved
<1> QED BY <1>2, <1>3, <1>4 DEF SInv

-----------------------------------------------------------------------------
(* Every file is empty or missing at first and nobody uses it. *)
LEMMA SInitInv == SInit => SInv
<1> SUFFICES ASSUME SInit PROVE SInv
  OBVIOUS
<1>1. \A f \in Files : disk[f] \in {Whole(Default(f)), Absent(f)}
  BY DEF SInit
<1>2. \A f \in Files : disk[f] \in DiskFiles /\ disk[f].data = Default(f)
  BY <1>1, DefaultShape DEF Whole, DiskFiles
<1>3. disk = [f \in Files |-> disk[f]]
  BY DEF SInit
<1>4. DiskShape
  BY <1>2, <1>3, DefaultShape DEF DiskShape
<1>5. ProcShape
  BY OffShape DEF SInit, ProcShape
<1>6. KeptShape
  BY DefaultShape DEF SInit, KeptShape
<1>7. \A p \in Procs : proc[p] = Off
  BY DEF SInit
<1>8. OpenedFirst /\ CleanIsUnchanged
  BY <1>7 DEF OpenedFirst, CleanIsUnchanged, Clean, Off
<1>9. \A p \in Procs, f \in Saved : ~ Uses(p, f) /\ p \notin WritesTo(f)
  BY <1>7 DEF Uses, WritesTo, Off
<1>10. WritesAlone /\ CopiesAgree
  BY <1>9 DEF WritesAlone, CopiesAgree, WritesTo
<1>11. SavedIsKept
  BY <1>2 DEF SavedIsKept, SInit, Files, load
<1> QED BY <1>4, <1>5, <1>6, <1>8, <1>10, <1>11 DEF SInv

LEMMA SStep == SInv /\ [SNext]_svars => SInv'
<1> SUFFICES ASSUME SInv, [SNext]_svars PROVE SInv'
  OBVIOUS
<1>1. CASE UNCHANGED svars
  BY <1>1 DEF svars, SInv, DiskShape, ProcShape, KeptShape, OpenedFirst, CleanIsUnchanged,
              Clean, WritesAlone, CopiesAgree, SavedIsKept, WritesTo, Uses, load
<1>2. ASSUME NEW p \in Procs,
             \/ Boot(p) \/ Open(p, "jobs") \/ Open(p, "plugins")
             \/ StoreCall(p) \/ RegistryCall(p)
             \/ Truncate(p) \/ TruncateFails(p) \/ Write(p) \/ WriteFails(p) \/ Stop(p)
      PROVE  SInv'
  <2>1. "jobs" \in Saved /\ "plugins" \in Saved
    BY DEF Saved
  <2> QED BY <1>2, <2>1, BootStep, OpenStep, StoreStep, RegistryStep, TruncateStep,
             TruncateFailsStep, WriteStep, WriteFailsStep, StopStep
<1>3. CASE EditBegins \/ EditEnds
  BY <1>3, EditStep
<1> QED BY <1>1, <1>2, <1>3 DEF SNext

(* The inductive invariant: one writer at a time or a broken promise, and    *)
(* copies that agree with the promise or know that they do not.            *)
THEOREM StorageInvariant == StorageSpec => []SInv
BY SInitInv, SStep, PTL DEF StorageSpec

(* SavedIsKept for any number of processes, ids and manifests: what a save   *)
(* has promised is in the file (JobStore::save, save_installed).           *)
THEOREM SavesAreKept == StorageSpec => []SavedIsKept
<1>1. SInv => SavedIsKept
  BY DEF SInv
<1> QED BY <1>1, StorageInvariant, PTL

-----------------------------------------------------------------------------
(* The configuration. *)

(* The processes that are about to replace the configuration, or do. *)
Replacing ==
  {p \in Procs : proc[p].file = "config" /\ proc[p].pc \in {"saving", "writing"}}

(* Unless a start has missed it, nobody replaces a configuration that is     *)
(* being edited or that the user has left complete.                        *)
NoneReplaces == (mine \/ editor.open) /\ ~ missed => Replacing = {}

ConfigInv ==
  /\ mine \in BOOLEAN /\ missed \in BOOLEAN /\ editor \in [open : BOOLEAN, edits : Nat]
  /\ NoneReplaces
  /\ ConfigIsTheUsers

(* A step of one process that no edit sees: it writes the configuration only *)
(* if it was about to.                                                     *)
LEMMA ConfigLocalStep ==
  ASSUME SInv, ConfigInv, NEW p \in Procs,
         UNCHANGED userVars,
         \A q \in Procs \ {p} : proc'[q].file = proc[q].file /\ proc'[q].pc = proc[q].pc,
         p \in Replacing' => p \in Replacing,
         disk'["config"] = disk["config"] \/ p \in Replacing
  PROVE  ConfigInv'
<1>1. Replacing' \subseteq Replacing
  BY DEF Replacing
<1> QED BY <1>1 DEF ConfigInv, NoneReplaces, ConfigIsTheUsers, userVars

LEMMA ConfigBootStep ==
  ASSUME SInv, ConfigInv, NEW p \in Procs, Boot(p) PROVE ConfigInv'
<1>0. PICK read \in BOOLEAN :
        /\ proc' = [proc EXCEPT ![p] = [Off EXCEPT !.pc = IF read THEN "ready" ELSE "saving"]]
        /\ disk' = disk /\ editor' = editor /\ mine' = mine
        /\ missed' = (missed \/ editor.open \/ (disk["config"].is = "whole" /\ ~ read))
  BY DEF Boot
<1> DEFINE place == IF read THEN "ready" ELSE "saving"
           new == [Off EXCEPT !.pc = place]
<1>1. /\ proc' = [proc EXCEPT ![p] = new] /\ disk' = disk /\ editor' = editor
      /\ mine' = mine
      /\ missed' = (missed \/ editor.open \/ (disk["config"].is = "whole" /\ ~ read))
  BY <1>0
<1>2. new.pc = place
  BY DEF Off
<1> HIDE DEF new
<1>3. proc'[p] = new /\ \A q \in Procs \ {p} : proc'[q] = proc[q]
  BY <1>1 DEF SInv, ProcShape
<1>4. ConfigIsTheUsers'
  BY <1>1 DEF ConfigInv, ConfigIsTheUsers
<1>5. NoneReplaces'
  <2> SUFFICES ASSUME mine, ~ missed, ~ editor.open, read \/ disk["config"].is # "whole"
               PROVE  Replacing' = {}
    BY <1>1 DEF NoneReplaces
  <2>1. Replacing = {} /\ disk["config"].is = "whole"
    BY DEF ConfigInv, NoneReplaces, ConfigIsTheUsers, Whole
  <2>2. new.pc = "ready"
    BY <1>2, <2>1
  <2> QED BY <1>3, <2>1, <2>2 DEF Replacing
<1> QED BY <1>1, <1>4, <1>5 DEF ConfigInv

(* What a call of the store or the registry does: the process keeps its file *)
(* and leaves the configuration alone.                                     *)
LEMMA CallFacts ==
  ASSUME SInv, NEW p \in Procs, StoreCall(p) \/ RegistryCall(p)
  PROVE  /\ proc[p].file # "config" /\ proc'[p].file = proc[p].file
         /\ \A q \in Procs \ {p} : proc'[q] = proc[q]
         /\ disk' = disk /\ UNCHANGED userVars
<1>0. proc[p] \in Processes /\ proc \in [Procs -> Processes] /\ ProcShape
  BY DEF SInv, ProcShape
<1>1. ASSUME NEW new, proc' = [proc EXCEPT ![p] = new]
      PROVE  proc'[p] = new /\ \A q \in Procs \ {p} : proc'[q] = proc[q]
  BY <1>0, <1>1
<1>2. ASSUME NEW k \in keys(proc[p].file), NEW v \in Values
      PROVE  Put(p, k, v) \in Processes /\ Put(p, k, v).file = proc[p].file
  BY <1>0, PutFacts
<1>3. CASE Insert(p)
  <2>1. /\ proc[p].file = "jobs" /\ proc[p].next \in keys("jobs") /\ disk' = disk
        /\ UNCHANGED userVars /\ "Pending" \in Values
    BY <1>3, KeysOf DEF Insert, Has, Values, userVars
  <2> DEFINE put == Put(p, proc[p].next, "Pending")
             new == [put EXCEPT !.next = proc[p].next + 1, !.dirty = TRUE]
  <2>2. proc' = [proc EXCEPT ![p] = new]
    BY <1>3 DEF Insert
  <2>3. put \in Processes /\ put.file = "jobs"
    BY <2>1, <1>2
  <2>4. new.file = "jobs"
    <3> HIDE DEF put
    <3> QED BY <2>3 DEF Processes
  <2> HIDE DEF new
  <2> QED BY <2>1, <2>2, <2>4, <1>1
<1>4. ASSUME NEW id \in Ids, GetMut(p, id) \/ Remove(p, id)
      PROVE  /\ proc[p].file = "jobs" /\ proc'[p].file = "jobs"
             /\ \A q \in Procs \ {p} : proc'[q] = proc[q]
             /\ disk' = disk /\ UNCHANGED userVars
  <2>1. proc[p].file = "jobs" /\ id \in keys("jobs") /\ disk' = disk /\ UNCHANGED userVars
    BY <1>4, KeysOf DEF GetMut, Remove, Has, userVars
  <2>2. proc[p].mem[id] \in Values
    BY <1>0, <2>1 DEF ProcShape
  <2>3. PICK v \in Values : proc' = [proc EXCEPT ![p] = [Put(p, id, v) EXCEPT !.dirty = TRUE]]
    BY <1>4, <2>2 DEF GetMut, Remove, Complete, Values
  <2> DEFINE put == Put(p, id, v)
             new == [put EXCEPT !.dirty = TRUE]
  <2>4. put \in Processes /\ put.file = "jobs"
    BY <2>1, <1>2
  <2>5. new.file = "jobs" /\ proc' = [proc EXCEPT ![p] = new]
    <3>1. proc' = [proc EXCEPT ![p] = new]
      BY <2>3
    <3> HIDE DEF put
    <3> QED BY <2>4, <3>1 DEF Processes
  <2> HIDE DEF new
  <2> QED BY <2>1, <2>5, <1>1
<1>5. CASE Save(p) \/ SaveIfDirty(p)
  <2>1. proc[p].file = "jobs" /\ disk' = disk /\ UNCHANGED userVars
    BY <1>5 DEF Save, SaveIfDirty, Has, userVars
  <2>2. \/ proc' = [proc EXCEPT ![p] = [proc[p] EXCEPT !.pc = "saving"]]
        \/ proc' = [proc EXCEPT ![p] = [proc[p] EXCEPT !.changed = {}]]
    BY <1>5 DEF Save, SaveIfDirty
  <2> QED BY <1>0, <2>1, <2>2 DEF Processes
<1>6. ASSUME NEW n \in Names, NEW v \in Values, Has(p, "plugins"), disk' = disk,
             UNCHANGED userVars,
             proc' = [proc EXCEPT ![p] = [Put(p, n, v) EXCEPT !.pc = "saving"]]
      PROVE  /\ proc[p].file = "plugins" /\ proc'[p].file = "plugins"
             /\ \A q \in Procs \ {p} : proc'[q] = proc[q]
             /\ disk' = disk /\ UNCHANGED userVars
  <2>1. proc[p].file = "plugins" /\ n \in keys("plugins")
    BY <1>6, KeysOf DEF Has
  <2> DEFINE put == Put(p, n, v)
             new == [put EXCEPT !.pc = "saving"]
  <2>2. put \in Processes /\ put.file = "plugins" /\ proc' = [proc EXCEPT ![p] = new]
    BY <1>6, <2>1, <1>2
  <2>3. new.file = "plugins"
    <3> HIDE DEF put
    <3> QED BY <2>2 DEF Processes
  <2> HIDE DEF new
  <2> QED BY <1>6, <2>1, <2>2, <2>3, <1>1
<1>7. CASE RegistryCall(p)
  <2>1. CASE \E m \in Manifests : Install(p, m)
    BY <2>1, <1>6 DEF Install, Names, Values, userVars
  <2>2. CASE \E n \in Names : Uninstall(p, n)
    BY <2>2, <1>6 DEF Uninstall, Values, userVars
  <2> QED BY <1>7, <2>1, <2>2 DEF RegistryCall
<1> QED BY <1>3, <1>4, <1>5, <1>7 DEF StoreCall

LEMMA ConfigCallStep ==
  ASSUME SInv, ConfigInv, NEW p \in Procs, StoreCall(p) \/ RegistryCall(p)
  PROVE  ConfigInv'
<1>1. p \notin Replacing' /\ disk'["config"] = disk["config"] /\ UNCHANGED userVars
      /\ \A q \in Procs \ {p} : proc'[q].file = proc[q].file /\ proc'[q].pc = proc[q].pc
  BY CallFacts DEF Replacing
<1> QED BY <1>1, ConfigLocalStep

(* Opening and stopping. *)
LEMMA ConfigOpenStopStep ==
  ASSUME SInv, ConfigInv, NEW p \in Procs, (\E f \in Saved : Open(p, f)) \/ Stop(p)
  PROVE  ConfigInv'
<1>1. disk' = disk /\ UNCHANGED userVars
  BY DEF Open, Stop, userVars
<1>2. proc'[p].pc \in {"idle", "off"} /\ \A q \in Procs \ {p} : proc'[q] = proc[q]
  <2>1. proc \in [Procs -> Processes] /\ proc[p] \in Processes
    BY DEF SInv, ProcShape
  <2>2. CASE Stop(p)
    BY <2>1, <2>2 DEF Stop, Off
  <2>3. ASSUME NEW f \in Saved, Open(p, f)
        PROVE  proc'[p].pc = "idle" /\ \A q \in Procs \ {p} : proc'[q] = proc[q]
    <3>1. PICK copy :
            proc' = [proc EXCEPT ![p].pc = "idle", ![p].file = f, ![p].mem = copy,
                                 ![p].stale = (WritesTo(f) # {} \/ copy # load(f))]
      BY <2>3 DEF Open
    <3> DEFINE late == WritesTo(f) # {} \/ copy # load(f)
               new == [proc[p] EXCEPT !.pc = "idle", !.file = f, !.mem = copy, !.stale = late]
    <3>2. new.pc = "idle"
      BY <2>1 DEF Processes
    <3>3. proc' = [proc EXCEPT ![p] = new]
      BY <2>1, <3>1
    <3> HIDE DEF new
    <3> QED BY <2>1, <3>2, <3>3
  <2> QED BY <2>2, <2>3
<1> QED BY <1>1, <1>2, ConfigLocalStep DEF Replacing

(* Truncating and filling a file. *)
LEMMA ConfigWriteStep ==
  ASSUME SInv, ConfigInv, NEW p \in Procs,
         Truncate(p) \/ TruncateFails(p) \/ Write(p) \/ WriteFails(p)
  PROVE  ConfigInv'
<1>0. proc[p] \in Processes /\ proc[p].file \in Files /\ \A q \in Procs : proc[q] \in Processes
  BY DEF SInv, ProcShape, Processes
<1>1. proc[p].pc \in {"saving", "writing"} /\ UNCHANGED userVars
  BY DEF Truncate, TruncateFails, Write, WriteFails, userVars
<1>2. disk'["config"] = disk["config"] \/ p \in Replacing
  <2>1. CASE proc[p].file = "config"
    BY <2>1, <1>1 DEF Replacing
  <2>2. CASE proc[p].file # "config"
    <3>1. disk' = disk \/ \E d : disk' = [disk EXCEPT ![proc[p].file] = d]
      BY DEF Truncate, TruncateFails, Write, WriteFails
    <3> QED BY <2>2, <3>1 DEF SInv, DiskShape, Files
  <2> QED BY <2>1, <2>2
<1>3. \A q \in Procs : proc'[q].file = proc[q].file /\ (q # p => proc'[q].pc = proc[q].pc)
  <2>1. CASE Truncate(p)
    BY <2>1, <1>0 DEF Truncate, Processes
  <2>2. CASE TruncateFails(p) \/ WriteFails(p)
    <3>1. proc' = [proc EXCEPT ![p] = [proc[p] EXCEPT !.pc = Resumed(p)]]
      BY <2>2 DEF TruncateFails, WriteFails
    <3> QED BY <3>1, <1>0 DEF SInv, ProcShape, Processes
  <2>3. CASE Write(p)
    <3> DEFINE new == [proc[p] EXCEPT !.pc = Resumed(p), !.dirty = FALSE, !.changed = {}]
    <3>1. proc' = [proc EXCEPT ![p] = new]
      BY <2>3 DEF Write, SInv, ProcShape
    <3>2. new.file = proc[p].file
      BY <1>0 DEF Processes
    <3> HIDE DEF new
    <3> QED BY <3>1, <3>2 DEF SInv, ProcShape
  <2> QED BY <2>1, <2>2, <2>3
<1>4. p \in Replacing' => p \in Replacing
  BY <1>1, <1>3 DEF Replacing
<1> QED BY <1>1, <1>2, <1>3, <1>4, ConfigLocalStep

LEMMA ConfigEditStep == ASSUME SInv, ConfigInv, EditBegins \/ EditEnds PROVE ConfigInv'
<1>0. Replacing' = Replacing /\ editor.open \in BOOLEAN /\ editor.edits \in Nat
  BY DEF Replacing, EditBegins, EditEnds, ConfigInv
<1>1. CASE EditBegins
  <2>1. /\ editor' = [open |-> TRUE, edits |-> editor.edits + 1] /\ mine' = mine
        /\ missed' = \E p \in Procs :
                       proc[p].file = "config" /\ proc[p].pc \in {"saving", "writing"}
    BY <1>1 DEF EditBegins
  <2>2. ~ missed' => Replacing = {}
    BY <2>1 DEF Replacing
  <2>3. editor'.open /\ editor' \in [open : BOOLEAN, edits : Nat] /\ missed' \in BOOLEAN
    BY <1>0, <2>1 DEF ConfigInv
  <2> QED BY <1>0, <2>1, <2>2, <2>3 DEF ConfigInv, NoneReplaces, ConfigIsTheUsers
<1>2. CASE EditEnds
  <2> DEFINE own == Whole([k \in {"config"} |-> "mine"])
  <2>1. /\ editor.open /\ editor' = [editor EXCEPT !.open = FALSE] /\ missed' = missed
        /\ \/ disk' = [disk EXCEPT !["config"] = own] /\ mine' = TRUE
           \/ disk' = disk /\ mine' = FALSE
    BY <1>2 DEF EditEnds
  <2> HIDE DEF own
  <2>2. editor' \in [open : BOOLEAN, edits : Nat] /\ ~ editor'.open /\ mine' \in BOOLEAN
    BY <2>1 DEF ConfigInv
  <2>3. mine' => disk'["config"] = own
    BY <2>1 DEF SInv, DiskShape, Files
  <2>4. NoneReplaces'
    BY <1>0, <2>1 DEF ConfigInv, NoneReplaces
  <2> QED BY <2>1, <2>2, <2>3, <2>4 DEF ConfigInv, ConfigIsTheUsers, own
<1> QED BY <1>1, <1>2

LEMMA ConfigInitInv == SInit => ConfigInv
<1> SUFFICES ASSUME SInit PROVE ConfigInv
  OBVIOUS
<1>1. Replacing = {}
  BY DEF SInit, Replacing, Off
<1> QED BY <1>1 DEF SInit, ConfigInv, NoneReplaces, ConfigIsTheUsers

LEMMA ConfigStep == SInv /\ ConfigInv /\ [SNext]_svars => ConfigInv'
<1> SUFFICES ASSUME SInv, ConfigInv, [SNext]_svars PROVE ConfigInv'
  OBVIOUS
<1>1. CASE UNCHANGED svars
  BY <1>1 DEF svars, ConfigInv, NoneReplaces, Replacing, ConfigIsTheUsers
<1>2. ASSUME NEW p \in Procs,
             \/ Boot(p) \/ Open(p, "jobs") \/ Open(p, "plugins")
             \/ StoreCall(p) \/ RegistryCall(p)
             \/ Truncate(p) \/ TruncateFails(p) \/ Write(p) \/ WriteFails(p) \/ Stop(p)
      PROVE  ConfigInv'
  <2>1. "jobs" \in Saved /\ "plugins" \in Saved
    BY DEF Saved
  <2> QED BY <1>2, <2>1, ConfigBootStep, ConfigOpenStopStep, ConfigCallStep, ConfigWriteStep
<1>3. CASE EditBegins \/ EditEnds
  BY <1>3, ConfigEditStep
<1> QED BY <1>1, <1>2, <1>3 DEF SNext

(* ConfigIsTheUsers for any number of processes and edits: the defaults of   *)
(* AppConfig::load replace a complete configuration only through a start    *)
(* that overlapped the edit or failed to read the file.                    *)
THEOREM ConfigStaysTheUsers == StorageSpec => []ConfigIsTheUsers
<1>1. ConfigInv => ConfigIsTheUsers
  BY DEF ConfigInv
<1> QED BY <1>1, StorageInvariant, ConfigInitInv, ConfigStep, PTL DEF StorageSpec

-----------------------------------------------------------------------------
(* What the files hold. *)

LEMMA LeastNat ==
  ASSUME NEW T \in SUBSET Nat, T # {} PROVE \E n \in T : \A m \in T : n <= m
<1>1. PICK n \in T : \A m \in T : ~ (<<m, n>> \in OpToRel(<, Nat))
  BY NatLessThanWellFounded, WFMin
<1>2. n \in Nat /\ \A m \in T : m \in Nat
  OBVIOUS
<1>3. \A m \in T : ~ (m < n)
  BY <1>1, <1>2 DEF OpToRel
<1> QED BY <1>2, <1>3

(* A version that version_lt does not put before another is not older, even  *)
(* if missing parts are zero; the least part in which they differ decides. *)
LEMMA VersionsInOrder ==
  ASSUME NEW a \in Seq(Nat), NEW b \in Seq(Nat), ~ version_lt(b, a)
  PROVE  NotNewer(a, b)
<1> DEFINE n == IF Len(b) < Len(a) THEN Len(b) ELSE Len(a)
           differ == {i \in 1 .. n : b[i] # a[i]}
<1>0. /\ Len(a) \in Nat /\ Len(b) \in Nat /\ n \in Nat /\ n <= Len(a) /\ n <= Len(b)
      /\ DOMAIN a = 1 .. Len(a) /\ DOMAIN b = 1 .. Len(b)
      /\ \A i \in 1 .. Len(a) : a[i] \in Nat
      /\ \A i \in 1 .. Len(b) : b[i] \in Nat
  OBVIOUS
<1>1. \A i \in 1 .. n : Part(a, i) = a[i] /\ Part(b, i) = b[i]
  BY <1>0 DEF Part
<1> SUFFICES ASSUME NEW i \in DOMAIN a, Part(a, i) > Part(b, i)
             PROVE  \E j \in 1 .. i - 1 : Part(a, j) < Part(b, j)
  BY DEF NotNewer
<1>2. CASE differ = {}
  <2>1. ~ (Len(b) < Len(a))
    BY <1>2 DEF version_lt
  <2>2. i \in 1 .. n
    BY <2>1, <1>0
  <2> QED BY <2>2, <1>0, <1>1, <1>2
<1>3. CASE differ # {}
  <2>1. differ \in SUBSET Nat
    BY <1>0
  <2>2. PICK m \in differ : \A j \in differ : m <= j
    <3> HIDE DEF differ
    <3> QED BY <1>3, <2>1, LeastNat
  <2>3. ~ (b[m] < a[m])
    BY <1>3, <2>2 DEF version_lt
  <2>4. m \in 1 .. n /\ a[m] < b[m]
    BY <1>0, <2>2, <2>3
  <2>5. m < i
    <3>1. CASE i \in 1 .. n
      <4>1. a[i] > b[i]
        BY <3>1, <1>1
      <4>2. i \in differ
        BY <3>1, <4>1, <1>0
      <4>3. m <= i /\ m # i
        BY <2>2, <2>4, <4>1, <4>2, <1>0
      <4> QED BY <4>3, <2>4, <3>1
    <3>2. CASE i \notin 1 .. n
      BY <3>2, <2>4, <1>0
    <3> QED BY <3>1, <3>2
  <2>6. m \in 1 .. i - 1 /\ Part(a, m) < Part(b, m)
    BY <2>4, <2>5, <1>0, <1>1
  <2> QED BY <2>6
<1> QED BY <1>2, <1>3

LEMMA CompatibleIsSupported ==
  ASSUME NEW m \in Manifests, is_compatible(m) PROVE Supported(m)
<1>1. CURRENT_API_VERSION \in Seq(Nat)
  BY DEF CURRENT_API_VERSION
<1>2. CASE m.compatibility # Nothing
  <2>1. /\ m.compatibility.min_api_version \in Seq(Nat)
        /\ m.compatibility.api_version \in Seq(Nat)
    BY <1>2, StorageAssumption
  <2>2. /\ ~ version_lt(CURRENT_API_VERSION, m.compatibility.min_api_version)
        /\ ~ version_lt(m.compatibility.api_version, CURRENT_API_VERSION)
    BY <1>2 DEF is_compatible
  <2> QED BY <1>1, <2>1, <2>2, VersionsInOrder DEF Supported
<1> QED BY <1>2 DEF Supported

(* What may be under a key of a file, and a copy that holds nothing else. *)
MayHold(f, k) ==
  CASE f = "config" -> {"default", "mine"}
    [] f = "jobs" -> Job \cup {Nothing}
    [] f = "plugins" -> {v \in {"installed", Nothing} :
         v # Nothing => \E m \in Manifests : m.name = k /\ Supported(m)}
Fits(f, d) == \A k \in keys(f) : d[k] \in MayHold(f, k)

FilesFit == \A f \in Files : Fits(f, disk[f].data) /\ Fits(f, kept[f])
CopiesFit == \A p \in Procs : Fits(proc[p].file, proc[p].mem)

HoldInv == SInv /\ FilesFit /\ CopiesFit

LEMMA MayHoldOf ==
  ASSUME NEW k
  PROVE  /\ MayHold("config", k) = {"default", "mine"}
         /\ MayHold("jobs", k) = Job \cup {Nothing}
         /\ MayHold("plugins", k) = {v \in {"installed", Nothing} :
              v # Nothing => \E m \in Manifests : m.name = k /\ Supported(m)}
BY DEF MayHold

LEMMA DefaultFits ==
  ASSUME NEW f \in Files PROVE Fits(f, Default(f)) /\ Fits(f, Garbled(f).data)
<1>1. \A k \in keys(f) : Default(f)[k] \in MayHold(f, k)
  BY MayHoldOf DEF Default, Files
<1> QED BY <1>1 DEF Fits, Garbled

(* A step of one process keeps the copies in order if its own copy is. *)
LEMMA OneCopy ==
  ASSUME HoldInv, NEW p \in Procs, NEW new, proc' = [proc EXCEPT ![p] = new],
         Fits(new.file, new.mem)
  PROVE  CopiesFit'
BY DEF HoldInv, SInv, ProcShape, CopiesFit, Fits

LEMMA PromiseFits ==
  ASSUME HoldInv, NEW f \in Files, NEW wrong, PromiseUnless(wrong, f)
  PROVE  \A g \in Files : Fits(g, kept'[g])
<1>1. kept' = kept \/ kept' = [kept EXCEPT ![f] = Default(f)]
  BY DEF PromiseUnless
<1>2. \A g \in Files : kept'[g] = kept[g] \/ (g = f /\ kept'[g] = Default(g))
  BY <1>1 DEF HoldInv, SInv, KeptShape
<1> QED BY <1>2, DefaultFits DEF HoldInv, FilesFit

LEMMA PutFits ==
  ASSUME HoldInv, NEW p \in Procs, NEW k \in keys(proc[p].file),
         NEW v \in MayHold(proc[p].file, k)
  PROVE  /\ v \in Values
         /\ Put(p, k, v) \in Processes /\ Put(p, k, v).file = proc[p].file
         /\ Fits(proc[p].file, Put(p, k, v).mem)
<1>1. /\ ProcShape /\ proc[p] \in Processes /\ proc[p].file \in Files
      /\ proc[p].mem \in [keys(proc[p].file) -> Values]
      /\ Fits(proc[p].file, proc[p].mem)
  BY DEF HoldInv, SInv, ProcShape, Processes, CopiesFit
<1>2. v \in Values
  BY <1>1, MayHoldOf DEF Values, Job, Files
<1> DEFINE put == Put(p, k, v)
           mem == [proc[p].mem EXCEPT ![k] = v]
<1>3. put \in Processes /\ put.file = proc[p].file /\ put.mem = mem
  <2>1. put \in Processes /\ put.file = proc[p].file
    BY <1>1, <1>2, PutFacts
  <2>2. put.mem = mem
    BY <1>1 DEF Put, Processes
  <2> QED BY <2>1, <2>2
<1>4. Fits(proc[p].file, mem)
  BY <1>1 DEF Fits
<1> HIDE DEF put, mem
<1>5. Fits(proc[p].file, put.mem)
  BY <1>3, <1>4
<1> QED BY <1>2, <1>3, <1>5 DEF put

-----------------------------------------------------------------------------
(* The steps of the copies. *)

LEMMA CallFits ==
  ASSUME HoldInv, NEW p \in Procs, StoreCall(p) \/ RegistryCall(p)
  PROVE  CopiesFit'
<1>0. /\ proc \in [Procs -> Processes] /\ proc[p] \in Processes
      /\ proc[p].file \in Files /\ Fits(proc[p].file, proc[p].mem)
  BY DEF HoldInv, SInv, ProcShape, Processes, CopiesFit
<1>1. CASE Insert(p)
  <2> DEFINE put == Put(p, proc[p].next, "Pending")
             new == [put EXCEPT !.next = proc[p].next + 1, !.dirty = TRUE]
  <2>1. /\ proc[p].file = "jobs" /\ proc[p].next \in keys("jobs")
        /\ proc' = [proc EXCEPT ![p] = new]
    BY <1>1, KeysOf DEF Insert, Has
  <2>2. "Pending" \in MayHold("jobs", proc[p].next)
    BY MayHoldOf DEF Job
  <2>3. put \in Processes /\ put.file = "jobs" /\ Fits("jobs", put.mem)
    BY <2>1, <2>2, PutFits
  <2>4. new.file = "jobs" /\ Fits("jobs", new.mem)
    <3> HIDE DEF put
    <3>1. new.file = put.file /\ new.mem = put.mem
      BY <2>3 DEF Processes
    <3> QED BY <2>3, <3>1
  <2> HIDE DEF new
  <2> QED BY <2>1, <2>4, OneCopy
<1>2. ASSUME NEW id \in Ids, GetMut(p, id) \/ Remove(p, id) PROVE CopiesFit'
  <2>1. proc[p].file = "jobs" /\ id \in keys("jobs")
    BY <1>2, KeysOf DEF GetMut, Remove, Has
  <2>2. Complete(proc[p].mem[id]) \in MayHold("jobs", id) /\ Nothing \in MayHold("jobs", id)
    BY <1>0, <2>1, MayHoldOf DEF Complete, Fits, Job
  <2>3. PICK v \in MayHold("jobs", id) :
          proc' = [proc EXCEPT ![p] = [Put(p, id, v) EXCEPT !.dirty = TRUE]]
    BY <1>2, <2>2 DEF GetMut, Remove
  <2> DEFINE put == Put(p, id, v)
             new == [put EXCEPT !.dirty = TRUE]
  <2>4. put \in Processes /\ put.file = "jobs" /\ Fits("jobs", put.mem)
    BY <2>1, PutFits
  <2>5. proc' = [proc EXCEPT ![p] = new]
    BY <2>3
  <2>6. new.file = "jobs" /\ Fits("jobs", new.mem)
    <3> HIDE DEF put
    <3>1. new.file = put.file /\ new.mem = put.mem
      BY <2>4 DEF Processes
    <3> QED BY <2>4, <3>1
  <2> HIDE DEF new
  <2> QED BY <2>5, <2>6, OneCopy
<1>3. CASE Save(p) \/ SaveIfDirty(p)
  <2>1. PICK new \in {[proc[p] EXCEPT !.pc = "saving"], [proc[p] EXCEPT !.changed = {}]} :
          proc' = [proc EXCEPT ![p] = new]
    BY <1>3 DEF Save, SaveIfDirty
  <2>2. new.file = proc[p].file /\ new.mem = proc[p].mem
    BY <1>0, <2>1 DEF Processes
  <2> QED BY <1>0, <2>1, <2>2, OneCopy
<1>4. ASSUME NEW n \in Names, NEW v \in MayHold("plugins", n), Has(p, "plugins"),
             proc' = [proc EXCEPT ![p] = [Put(p, n, v) EXCEPT !.pc = "saving"]]
      PROVE  CopiesFit'
  <2> DEFINE put == Put(p, n, v)
             new == [put EXCEPT !.pc = "saving"]
  <2>1. proc[p].file = "plugins" /\ n \in keys("plugins") /\ proc' = [proc EXCEPT ![p] = new]
    BY <1>4, KeysOf DEF Has
  <2>2. put \in Processes /\ put.file = "plugins" /\ Fits("plugins", put.mem)
    BY <2>1, PutFits
  <2>3. new.file = "plugins" /\ Fits("plugins", new.mem)
    <3> HIDE DEF put
    <3>1. new.file = put.file /\ new.mem = put.mem
      BY <2>2 DEF Processes
    <3> QED BY <2>2, <3>1
  <2> HIDE DEF new
  <2> QED BY <2>1, <2>3, OneCopy
<1>5. ASSUME NEW m \in Manifests, Install(p, m) PROVE CopiesFit'
  <2>1. m.name \in Names /\ Supported(m)
    BY <1>5, CompatibleIsSupported DEF Names, Install
  <2>2. "installed" \in MayHold("plugins", m.name)
    BY <2>1, MayHoldOf
  <2> QED BY <1>4, <1>5, <2>1, <2>2 DEF Install
<1>6. ASSUME NEW n \in Names, Uninstall(p, n) PROVE CopiesFit'
  <2>1. Nothing \in MayHold("plugins", n)
    BY MayHoldOf
  <2> QED BY <1>4, <1>6, <2>1 DEF Uninstall
<1> QED BY <1>1, <1>2, <1>3, <1>5, <1>6 DEF StoreCall, RegistryCall

LEMMA BootFits == ASSUME HoldInv, NEW p \in Procs, Boot(p) \/ Stop(p) PROVE CopiesFit'
<1>1. Fits(Off.file, Off.mem)
  BY DefaultFits DEF Off, Files
<1>2. CASE Boot(p)
  <2>1. PICK place : proc' = [proc EXCEPT ![p] = [Off EXCEPT !.pc = place]]
    BY <1>2 DEF Boot
  <2> DEFINE new == [Off EXCEPT !.pc = place]
  <2>2. Fits(new.file, new.mem)
    BY <1>1 DEF Off
  <2> HIDE DEF new
  <2> QED BY <2>1, <2>2, OneCopy DEF new
<1>3. CASE Stop(p)
  BY <1>1, <1>3, OneCopy DEF Stop
<1> QED BY <1>2, <1>3

LEMMA OpenFits ==
  ASSUME HoldInv, NEW p \in Procs, NEW f \in Saved, Open(p, f) PROVE CopiesFit'
<1>0. f \in Files /\ proc[p] \in Processes
  BY DEF HoldInv, SInv, ProcShape, Saved, Files
<1>1. PICK copy \in {load(f), Default(f)} :
        proc' = [proc EXCEPT ![p].pc = "idle", ![p].file = f, ![p].mem = copy,
                             ![p].stale = (WritesTo(f) # {} \/ copy # load(f))]
  BY DEF Open
<1>2. Fits(f, copy)
  BY <1>0, <1>1, DefaultFits DEF HoldInv, FilesFit, load
<1> DEFINE late == WritesTo(f) # {} \/ copy # load(f)
           new == [proc[p] EXCEPT !.pc = "idle", !.file = f, !.mem = copy, !.stale = late]
<1>3. proc' = [proc EXCEPT ![p] = new]
  BY <1>1 DEF HoldInv, SInv, ProcShape
<1>4. new.file = f /\ new.mem = copy
  BY <1>0 DEF Processes
<1> HIDE DEF new
<1> QED BY <1>2, <1>3, <1>4, OneCopy

LEMMA WriteFits ==
  ASSUME HoldInv, NEW p \in Procs,
         Truncate(p) \/ TruncateFails(p) \/ Write(p) \/ WriteFails(p)
  PROVE  CopiesFit'
<1>0. /\ proc[p] \in Processes /\ proc \in [Procs -> Processes]
      /\ Fits(proc[p].file, proc[p].mem)
  BY DEF HoldInv, SInv, ProcShape, CopiesFit
<1>1. CASE Truncate(p)
  <2>1. ASSUME NEW q \in Procs
        PROVE  proc'[q].file = proc[q].file /\ proc'[q].mem = proc[q].mem
    <3>1. proc[q] \in Processes
      BY <1>0
    <3>2. \/ proc'[q] = [proc[q] EXCEPT !.pc = "writing"]
          \/ proc'[q] = [proc[q] EXCEPT !.stale = TRUE]
          \/ proc'[q] = proc[q]
      BY <1>1 DEF Truncate
    <3> QED BY <3>1, <3>2 DEF Processes
  <2> QED BY <2>1 DEF HoldInv, CopiesFit, Fits
<1>2. CASE TruncateFails(p) \/ WriteFails(p)
  <2> DEFINE new == [proc[p] EXCEPT !.pc = Resumed(p)]
  <2>1. proc' = [proc EXCEPT ![p] = new]
    BY <1>2 DEF TruncateFails, WriteFails
  <2>2. new.file = proc[p].file /\ new.mem = proc[p].mem
    BY <1>0 DEF Processes
  <2> HIDE DEF new
  <2> QED BY <1>0, <2>1, <2>2, OneCopy
<1>3. CASE Write(p)
  <2> DEFINE new == [proc[p] EXCEPT !.pc = Resumed(p), !.dirty = FALSE, !.changed = {}]
  <2>1. proc' = [proc EXCEPT ![p] = new]
    BY <1>0, <1>3 DEF Write
  <2>2. new.file = proc[p].file /\ new.mem = proc[p].mem
    BY <1>0 DEF Processes
  <2> HIDE DEF new
  <2> QED BY <1>0, <2>1, <2>2, OneCopy
<1> QED BY <1>1, <1>2, <1>3

-----------------------------------------------------------------------------
(* The steps of the files. *)

(* What is promised is a mixture of copies that fit. *)
LEMMA PromisedFits ==
  ASSUME HoldInv, NEW p \in Procs, NEW f \in Files, proc[p].file = f
  PROVE  \A g \in Files : Fits(g, Promised(p, f)[g])
<1>0. KeptShape /\ ProcShape
  BY DEF HoldInv, SInv
<1>1. Fits(f, kept[f]) /\ Fits(f, proc[p].mem) /\ \A g \in Files : Fits(g, kept[g])
  BY DEF HoldInv, FilesFit, CopiesFit
<1>2. CASE f \in spoiled
  BY <1>0, <1>1, <1>2, PromisedShape
<1>3. CASE f \notin spoiled
  <2>1. Promised(p, f)[f] = [k \in keys(f) |->
          IF k \in proc[p].changed THEN proc[p].mem[k] ELSE kept[f][k]]
    BY <1>0, <1>3, PromisedShape
  <2>2. Fits(f, Promised(p, f)[f])
    BY <1>1, <2>1 DEF Fits
  <2> QED BY <1>0, <1>1, <2>2, PromisedShape
<1> QED BY <1>2, <1>3

LEMMA FileSteps ==
  ASSUME HoldInv, NEW p \in Procs,
         \/ Boot(p) \/ Open(p, "jobs") \/ Open(p, "plugins")
         \/ StoreCall(p) \/ RegistryCall(p)
         \/ Truncate(p) \/ TruncateFails(p) \/ Write(p) \/ WriteFails(p) \/ Stop(p)
  PROVE  FilesFit'
<1> DEFINE f == proc[p].file
<1>0. /\ f \in Files /\ "jobs" \in Files /\ Fits(f, proc[p].mem)
      /\ \A g \in Files : Fits(g, disk[g].data) /\ Fits(g, kept[g])
  BY DEF HoldInv, SInv, ProcShape, Processes, CopiesFit, FilesFit, Files
<1>1. \A g \in Files : Fits(g, disk'[g].data)
  <2>1. \/ disk' = disk \/ disk' = [disk EXCEPT ![f] = Garbled(f)]
        \/ disk' = [disk EXCEPT ![f] = Whole(proc[p].mem)]
    BY DEF Boot, Open, StoreCall, RegistryCall, Insert, Save, SaveIfDirty, GetMut, Remove,
           Install, Uninstall, Truncate, TruncateFails, Write, WriteFails, Stop
  <2>2. \A g \in Files : \/ disk'[g] = disk[g]
                         \/ g = f /\ disk'[g] \in {Garbled(f), Whole(proc[p].mem)}
    BY <2>1 DEF HoldInv, SInv, DiskShape
  <2> QED BY <1>0, <2>2, DefaultFits DEF Whole
<1>2. \A g \in Files : Fits(g, kept'[g])
  <2>1. CASE kept' = kept
    BY <1>0, <2>1
  <2>2. CASE \E g \in Files, wrong \in BOOLEAN : PromiseUnless(wrong, g)
    BY <2>2, PromiseFits
  <2>3. CASE kept' = Promised(p, f)
    BY <1>0, <2>3, PromisedFits
  <2>4. \/ kept' = kept \/ kept' = Promised(p, f)
        \/ \E g \in Files, wrong \in BOOLEAN : PromiseUnless(wrong, g)
    <3>1. CASE StoreCall(p)
      <4>1. CASE Insert(p)
        BY <4>1, <1>0 DEF Insert
      <4>2. CASE SaveIfDirty(p)
        BY <4>2 DEF SaveIfDirty, Has
      <4> QED BY <3>1, <4>1, <4>2 DEF StoreCall, Save, GetMut, Remove, promise
    <3>2. CASE Truncate(p) \/ WriteFails(p) \/ Stop(p)
      <4>1. proc[p].stale \in BOOLEAN
        BY DEF HoldInv, SInv, ProcShape, Processes
      <4> QED BY <3>2, <4>1, <1>0 DEF Truncate, WriteFails, Stop
    <3>3. CASE Write(p)
      BY <3>3 DEF Write
    <3>4. CASE \/ Boot(p) \/ Open(p, "jobs") \/ Open(p, "plugins") \/ RegistryCall(p)
               \/ TruncateFails(p)
      BY <3>4 DEF Boot, Open, RegistryCall, Install, Uninstall, TruncateFails, promise
    <3> QED BY <3>1, <3>2, <3>3, <3>4
  <2> QED BY <2>1, <2>2, <2>3, <2>4
<1> QED BY <1>1, <1>2 DEF FilesFit

LEMMA EditFits ==
  ASSUME HoldInv, EditBegins \/ EditEnds PROVE FilesFit' /\ CopiesFit'
<1> DEFINE own == [k \in {"config"} |-> "mine"]
<1>1. UNCHANGED <<proc, kept>>
  BY DEF EditBegins, EditEnds, promise
<1>2. \/ disk' = disk \/ disk' = [disk EXCEPT !["config"] = Garbled("config")]
      \/ disk' = [disk EXCEPT !["config"] = Whole(own)]
  BY DEF EditBegins, EditEnds
<1>3. Fits("config", own)
  BY KeysOf, MayHoldOf DEF Fits
<1> HIDE DEF own
<1>4. \A g \in Files : \/ disk'[g] = disk[g]
                       \/ g = "config" /\ disk'[g] \in {Garbled("config"), Whole(own)}
  BY <1>2 DEF HoldInv, SInv, DiskShape
<1>5. \A g \in Files : Fits(g, disk'[g].data)
  BY <1>3, <1>4, DefaultFits DEF Whole, HoldInv, FilesFit
<1> QED BY <1>1, <1>5 DEF HoldInv, FilesFit, CopiesFit, Fits

LEMMA HoldInit == SInit => HoldInv
<1> SUFFICES ASSUME SInit PROVE HoldInv
  OBVIOUS
<1>1. \A f \in Files : disk[f].data = Default(f) /\ kept[f] = Default(f)
  BY DefaultShape DEF SInit, Whole
<1>2. \A p \in Procs : proc[p].file = "config" /\ proc[p].mem = Default("config")
  BY DEF SInit, Off
<1> QED BY <1>1, <1>2, SInitInv, DefaultFits DEF HoldInv, FilesFit, CopiesFit, Files

LEMMA HoldStep == HoldInv /\ [SNext]_svars => HoldInv'
<1> SUFFICES ASSUME HoldInv, [SNext]_svars PROVE FilesFit' /\ CopiesFit'
  BY SStep DEF HoldInv
<1>1. CASE UNCHANGED svars
  BY <1>1 DEF svars, HoldInv, FilesFit, CopiesFit, Fits
<1>2. ASSUME NEW p \in Procs,
             \/ Boot(p) \/ Open(p, "jobs") \/ Open(p, "plugins")
             \/ StoreCall(p) \/ RegistryCall(p)
             \/ Truncate(p) \/ TruncateFails(p) \/ Write(p) \/ WriteFails(p) \/ Stop(p)
      PROVE  FilesFit' /\ CopiesFit'
  <2>1. "jobs" \in Saved /\ "plugins" \in Saved
    BY DEF Saved
  <2> QED BY <1>2, <2>1, FileSteps, BootFits, OpenFits, CallFits, WriteFits
<1>3. CASE EditBegins \/ EditEnds
  BY <1>3, EditFits
<1> QED BY <1>1, <1>2, <1>3 DEF SNext

(* The inductive invariant about what is in the files: every copy, and what  *)
(* is promised, holds under each key what may be there.                    *)
THEOREM FilesHoldTheirData == StorageSpec => []HoldInv
BY HoldInit, HoldStep, PTL DEF StorageSpec

LEMMA FitsIsData ==
  ASSUME NEW f \in Files, NEW d \in [keys(f) -> Values], Fits(f, d) PROVE d \in Data(f)
<1>1. CASE f = "config"
  BY <1>1, MayHoldOf DEF Fits, Data
<1>2. CASE f = "jobs"
  BY <1>2, MayHoldOf DEF Fits, Data
<1>3. CASE f = "plugins"
  <2>1. \A k \in keys(f) : d[k] \in {"installed", Nothing}
    BY <1>3, MayHoldOf DEF Fits
  <2> QED BY <1>3, <2>1 DEF Data
<1> QED BY <1>1, <1>2, <1>3 DEF Files

(* StorageTypeOK for any manifests and versions of any length: a plugin is    *)
(* in the file only if some manifest of that name supports this version     *)
(* (CommunityPluginRegistry::install and is_compatible).                   *)
THEOREM StorageTypes == StorageSpec => []StorageTypeOK
<1> SUFFICES HoldInv => StorageTypeOK
  BY FilesHoldTheirData, PTL
<1> SUFFICES ASSUME HoldInv PROVE StorageTypeOK
  OBVIOUS
<1>1. \A f \in Files : /\ disk[f].is \in {"absent", "garbled", "whole"}
                       /\ disk[f].data \in Data(f) /\ kept[f] \in Data(f)
  BY FitsIsData DEF HoldInv, SInv, DiskShape, DiskFiles, KeptShape, FilesFit
<1>2. \A p \in Procs : proc[p].pc \in Places /\ proc[p].mem \in Data(proc[p].file)
  BY FitsIsData DEF HoldInv, SInv, ProcShape, Processes, CopiesFit
<1>3. \A n \in Names : disk["plugins"].data[n] # Nothing =>
        \E m \in Manifests : m.name = n /\ Supported(m)
  BY MayHoldOf, KeysOf DEF HoldInv, FilesFit, Fits, Files
<1> QED BY <1>1, <1>2, <1>3 DEF StorageTypeOK, Places
=============================================================================
