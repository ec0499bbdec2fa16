------------------------------- MODULE Storage -------------------------------
(***************************************************************************)
(* What NetGuardian keeps in JSON files, and the processes that share      *)
(* them: AppConfig and JobStore (src/storage.rs) and the installed         *)
(* community plugins (src/community_plugins.rs).  Every command is a       *)
(* process; it loads the configuration (main.rs), reads one of the other   *)
(* files whole, changes its copy and writes it back whole, without a lock. *)
(*                                                                         *)
(* std::fs::write truncates the file and then fills it: two steps, between *)
(* which other processes read and the process may die.                     *)
(***************************************************************************)
EXTENDS Integers, Sequences, FiniteSets

CONSTANTS
  Procs,       \* processes that may run at the same time
  MaxId,       \* bound: jobs a process creates
  Manifests,   \* what an index may list: builtin_index, or a refreshed one
  Nothing,     \* no job, no plugin under a key; no compatibility
  MaxStarts,   \* bound: processes started
  MaxEdits     \* bound: edits of the configuration by the user

ASSUME StorageAssumption ==
  /\ MaxId \in Nat
  /\ \A m \in Manifests :
       /\ DOMAIN m = {"name", "compatibility"}
       /\ m.compatibility # Nothing =>
            /\ m.compatibility.min_api_version \in Seq(Nat)
            /\ m.compatibility.api_version \in Seq(Nat)
  /\ MaxStarts \in Nat /\ MaxEdits \in Nat

VARIABLES
  work,      \* bound: the file that is at stake in a behaviour; the three
             \* files have nothing to do with one another
  disk,      \* the files
  proc,      \* the processes
  starts,    \* processes started so far
  editor,    \* the user's editor: is it open, edits so far
  mine,      \* history: the last edit left a complete configuration
  missed,    \* history: since the last edit began a start has overlapped it,
             \* or has failed to read what it left
  kept,      \* history: what the saves that returned have promised
  spoiled    \* history: files whose promise is off

svars == <<work, disk, proc, starts, editor, mine, missed, kept, spoiled>>

-----------------------------------------------------------------------------
(* The files. *)

Ids == 1 .. MaxId
Names == {m.name : m \in Manifests}
Files == {"config", "jobs", "plugins"}

keys(f) == [config |-> {"config"}, jobs |-> Ids, plugins |-> Names][f]

(* unwrap_or_default of a file that is missing or does not parse; a garbled   *)
(* one is truncated, mixed, mistyped, or lacks a field.                    *)
Default(f) == [k \in keys(f) |-> IF f = "config" THEN "default" ELSE Nothing]

(* A job is its status. *)
Job == {"Pending", "Completed"}
Data(f) ==
  CASE f = "config" -> [keys(f) -> {"default", "mine"}]
    [] f = "jobs" -> [keys(f) -> Job \cup {Nothing}]
    [] f = "plugins" -> [keys(f) -> {"installed", Nothing}]

Absent(f) == [is |-> "absent", data |-> Default(f)]
Garbled(f) == [is |-> "garbled", data |-> Default(f)]
Whole(d) == [is |-> "whole", data |-> d]

(* load_from_disk, load_installed: the defaults unless the file is whole.   *)
load(f) == disk[f].data

-----------------------------------------------------------------------------
(* Manifests. *)

CURRENT_API_VERSION == <<0, 1, 0>>

(* Versions are the numbers in them that parse. *)
version_lt(a, b) ==
  LET n == IF Len(a) < Len(b) THEN Len(a) ELSE Len(b)
      differ == {i \in 1 .. n : a[i] # b[i]} IN
  IF differ = {} THEN Len(a) < Len(b)
  ELSE \E i \in differ : a[i] < b[i] /\ \A j \in differ : i <= j

(* Mutant: the newest version a plugin supports is not looked at. *)
is_compatible_MinOnly(m) ==
  m.compatibility # Nothing =>
    ~ version_lt(CURRENT_API_VERSION, m.compatibility.min_api_version)

is_compatible(m) ==
  m.compatibility # Nothing =>
    /\ ~ version_lt(CURRENT_API_VERSION, m.compatibility.min_api_version)
    /\ ~ version_lt(m.compatibility.api_version, CURRENT_API_VERSION)

-----------------------------------------------------------------------------
(* A process.  pc is "off", "ready" (configured), "idle" (it has a file      *)
(* open), "saving" (before fs::write) or "writing" (the file truncated).    *)
(* changed and stale are history: the keys it changed since its last save, *)
(* and whether somebody wrote the file since it read it.                   *)
Off == [pc |-> "off", file |-> "config", mem |-> Default("config"), dirty |-> FALSE,
        next |-> 1, changed |-> {}, stale |-> FALSE]

Has(p, f) == proc[p].file = f /\ proc[p].pc = "idle"
WritesTo(f) == {p \in Procs : proc[p].pc = "writing" /\ proc[p].file = f}

SInit ==
  /\ work \in Files
  /\ disk = [f \in Files |-> IF f = "config" /\ work # f THEN Whole(Default(f)) ELSE Absent(f)]
  /\ proc = [p \in Procs |-> Off]
  /\ starts = 0 /\ editor = [open |-> FALSE, edits |-> 0]
  /\ mine = FALSE /\ missed = FALSE
  /\ kept = [f \in Files |-> Default(f)] /\ spoiled = {}

userVars == <<editor, mine, missed>>
promise == <<kept, spoiled>>

(* The promise about f is off if something has gone wrong with it. *)
PromiseUnless(wrong, f) ==
  /\ spoiled' = IF wrong THEN spoiled \cup {f} ELSE spoiled
  /\ kept' = IF wrong THEN [kept EXCEPT ![f] = Default(f)] ELSE kept

(* Mutant: the configuration is written back although it was read. *)
Boot_SavesAlways(p) ==
  /\ proc[p].pc = "off" /\ starts < MaxStarts
  /\ proc' = [proc EXCEPT ![p] =
                [Off EXCEPT !.pc = "saving"]]
  /\ starts' = starts + 1
  /\ missed' = (missed \/ editor.open)
  /\ UNCHANGED <<work, disk, editor, mine, promise>>

(* A process starts with AppConfig::load, which saves the defaults if the    *)
(* file is not there, does not parse or, whatever it holds, if reading it   *)
(* fails (which matters when the configuration is at stake).               *)
Boot(p) ==
  \E read \in BOOLEAN :
    /\ proc[p].pc = "off" /\ starts < MaxStarts
    /\ read => disk["config"].is = "whole"
    /\ ~ read => work = "config"
    /\ proc' = [proc EXCEPT ![p] = [Off EXCEPT !.pc = IF read THEN "ready" ELSE "saving"]]
    /\ starts' = starts + 1
    /\ missed' = (missed \/ editor.open \/ (disk["config"].is = "whole" /\ ~ read))
    /\ UNCHANGED <<work, disk, editor, mine, promise>>

(* JobStore::new and CommunityPluginRegistry::with_storage_path start with    *)
(* nothing if reading the file fails; CommunityPluginRegistry::new, which   *)
(* the commands use, does not read it.                                     *)
Open(p, f) ==
  /\ proc[p].pc = "ready" /\ f = work
  /\ \E copy \in {load(f), Default(f)} :
       proc' = [proc EXCEPT ![p].pc = "idle", ![p].file = f, ![p].mem = copy,
                            ![p].stale = (WritesTo(f) # {} \/ copy # load(f))]
  /\ UNCHANGED <<work, disk, starts, userVars, promise>>

(* The copy of p changes at k. *)
Put(p, k, v) ==
  [proc[p] EXCEPT !.mem[k] = v,
                  !.changed = IF v = proc[p].mem[k] THEN @ ELSE @ \cup {k}]

-----------------------------------------------------------------------------
(* JobStore. *)

(* insert of a job the process has just created: its id is drawn from a      *)
(* counter that starts at 1 in every process, whatever the file holds.     *)
Insert(p) ==
  LET id == proc[p].next IN
  /\ Has(p, "jobs") /\ id \in Ids
  /\ proc' = [proc EXCEPT ![p] =
                [Put(p, id, "Pending") EXCEPT !.next = id + 1, !.dirty = TRUE]]
  /\ PromiseUnless(proc[p].mem[id] # Nothing, "jobs")
  /\ UNCHANGED <<work, disk, starts, userVars>>

Complete(v) == IF v = Nothing THEN v ELSE "Completed"

(* Mutant: get_mut forgets the mark. *)
GetMut_NotDirty(p, id) ==
  /\ Has(p, "jobs")
  /\ proc' = [proc EXCEPT ![p] = Put(p, id, Complete(proc[p].mem[id]))]
  /\ UNCHANGED <<work, disk, starts, userVars, promise>>

(* get_mut, through which the caller completes the job. *)
GetMut(p, id) ==
  /\ Has(p, "jobs")
  /\ proc' = [proc EXCEPT ![p] =
                [Put(p, id, Complete(proc[p].mem[id])) EXCEPT !.dirty = TRUE]]
  /\ UNCHANGED <<work, disk, starts, userVars, promise>>

Remove(p, id) ==
  /\ Has(p, "jobs")
  /\ proc' = [proc EXCEPT ![p] = [Put(p, id, Nothing) EXCEPT !.dirty = TRUE]]
  /\ UNCHANGED <<work, disk, starts, userVars, promise>>

Save(p) ==
  /\ Has(p, "jobs")
  /\ proc' = [proc EXCEPT ![p].pc = "saving"]
  /\ UNCHANGED <<work, disk, starts, userVars, promise>>

(* What file f should hold once the changes of p are saved. *)
Promised(p, f) ==
  IF f \in spoiled THEN kept ELSE
  [kept EXCEPT ![f] = [k \in keys(f) |-> IF k \in proc[p].changed THEN proc[p].mem[k]
                                         ELSE @[k]]]

(* save_if_dirty of a clean store says that all is saved and does nothing;  *)
(* of a dirty one it is save.                                              *)
SaveIfDirty(p) ==
  /\ Has(p, "jobs") /\ ~ proc[p].dirty
  /\ kept' = Promised(p, "jobs")
  /\ proc' = [proc EXCEPT ![p].changed = {}]
  /\ UNCHANGED <<work, disk, starts, userVars, spoiled>>

-----------------------------------------------------------------------------
(* CommunityPluginRegistry: each change is saved at once. *)

Install(p, m) ==
  /\ Has(p, "plugins")
  /\ proc[p].mem[m.name] = Nothing /\ is_compatible(m)
  /\ proc' = [proc EXCEPT ![p] = [Put(p, m.name, "installed") EXCEPT !.pc = "saving"]]
  /\ UNCHANGED <<work, disk, starts, userVars, promise>>

Uninstall(p, n) ==
  /\ Has(p, "plugins") /\ proc[p].mem[n] # Nothing
  /\ proc' = [proc EXCEPT ![p] = [Put(p, n, Nothing) EXCEPT !.pc = "saving"]]
  /\ UNCHANGED <<work, disk, starts, userVars, promise>>

-----------------------------------------------------------------------------
(* std::fs::write. *)

(* Where the process goes on, saved or not: AppConfig::load and              *)
(* save_installed ignore the error.                                        *)
Resumed(p) == IF proc[p].file = "config" THEN "ready" ELSE "idle"

(* File::create.  Every other copy of the file is out of date from now on;  *)
(* if this one is, the save undoes what others saved.                      *)
Truncate(p) ==
  LET f == proc[p].file IN
  /\ proc[p].pc = "saving"
  /\ disk' = [disk EXCEPT ![f] = Garbled(f)]
  /\ proc' = [q \in Procs |->
                IF q = p THEN [proc[p] EXCEPT !.pc = "writing"]
                ELSE IF proc[q].file = f /\ proc[q].pc # "off"
                  THEN [proc[q] EXCEPT !.stale = TRUE] ELSE proc[q]]
  /\ PromiseUnless(proc[p].stale, f)
  /\ UNCHANGED <<work, starts, userVars>>

TruncateFails(p) ==
  /\ proc[p].pc = "saving"
  /\ proc' = [proc EXCEPT ![p].pc = Resumed(p)]
  /\ UNCHANGED <<work, disk, starts, userVars, promise>>

(* The content is written; only then the store is clean.  Over the content  *)
(* of another process that was quicker it may leave a mixture of both.     *)
Write(p) ==
  LET f == proc[p].file IN
  /\ proc[p].pc = "writing"
  /\ \E d \in {Whole(proc[p].mem)}
              \cup (IF disk[f].is = "whole" THEN {Garbled(f)} ELSE {}) :
       disk' = [disk EXCEPT ![f] = d]
  /\ proc' = [proc EXCEPT ![p].pc = Resumed(p), ![p].dirty = FALSE,
                          ![p].changed = {}]
  /\ kept' = Promised(p, f)
  /\ UNCHANGED <<work, starts, userVars, spoiled>>

WriteFails(p) ==
  LET f == proc[p].file IN
  /\ proc[p].pc = "writing"
  /\ disk' = [disk EXCEPT ![f] = Garbled(f)]
  /\ proc' = [proc EXCEPT ![p].pc = Resumed(p)]
  /\ PromiseUnless(TRUE, f)
  /\ UNCHANGED <<work, starts, userVars>>

(* The process exits, or is killed wherever it is. *)
Stop(p) ==
  /\ proc[p].pc # "off"
  /\ proc' = [proc EXCEPT ![p] = Off]
  /\ PromiseUnless(proc[p].pc = "writing", proc[p].file)
  /\ UNCHANGED <<work, disk, starts, userVars>>

-----------------------------------------------------------------------------
(* The user edits the configuration. *)

EditBegins ==
  /\ work = "config" /\ ~ editor.open /\ editor.edits < MaxEdits
  /\ editor' = [open |-> TRUE, edits |-> editor.edits + 1]
  /\ disk' = [disk EXCEPT !["config"] = Garbled("config")]
  /\ missed' = \E p \in Procs :
                 proc[p].file = "config" /\ proc[p].pc \in {"saving", "writing"}
  /\ UNCHANGED <<work, proc, starts, mine, promise>>

(* The edit ends with a complete configuration, or with one that does not    *)
(* parse: there is a mistake in it, or a field is left out.                *)
EditEnds ==
  /\ editor.open
  /\ editor' = [editor EXCEPT !.open = FALSE]
  /\ \/ /\ disk' = [disk EXCEPT !["config"] = Whole([k \in {"config"} |-> "mine"])]
        /\ mine' = TRUE
     \/ UNCHANGED disk /\ mine' = FALSE
  /\ UNCHANGED <<work, proc, starts, missed, promise>>

StoreCall(p) ==
  \/ Insert(p) \/ Save(p) \/ SaveIfDirty(p)
  \/ \E id \in Ids : GetMut(p, id) \/ Remove(p, id)

RegistryCall(p) ==
  \/ \E m \in Manifests : Install(p, m)
  \/ \E n \in Names : Uninstall(p, n)

SNext ==
  \/ \E p \in Procs :
       \/ Boot(p) \/ Open(p, "jobs") \/ Open(p, "plugins")
       \/ StoreCall(p) \/ RegistryCall(p)
       \/ Truncate(p) \/ TruncateFails(p) \/ Write(p) \/ WriteFails(p) \/ Stop(p)
  \/ EditBegins \/ EditEnds

StorageSpec == SInit /\ [][SNext]_svars

-----------------------------------------------------------------------------
(* Version a is not newer than b, missing parts being zero: where it has the *)
(* larger part, an earlier one is smaller.                                 *)
Part(v, i) == IF i <= Len(v) THEN v[i] ELSE 0
NotNewer(a, b) ==
  \A i \in DOMAIN a : Part(a, i) > Part(b, i) =>
    \E j \in 1 .. i - 1 : Part(a, j) < Part(b, j)
Supported(m) ==
  m.compatibility # Nothing =>
    /\ NotNewer(m.compatibility.min_api_version, CURRENT_API_VERSION)
    /\ NotNewer(CURRENT_API_VERSION, m.compatibility.api_version)

(* The files hold what their types allow, and no plugin is installed whose  *)
(* range of versions leaves this one out, however the versions are written *)
(* (of 0.1 and 0.1.0 the source takes the shorter for the older).          *)
StorageTypeOK ==
  /\ \A f \in Files :
       /\ disk[f].is \in {"absent", "garbled", "whole"} /\ disk[f].data \in Data(f)
       /\ kept[f] \in Data(f)
  /\ \A p \in Procs :
       /\ proc[p].pc \in {"off", "ready", "idle", "saving", "writing"}
       /\ proc[p].mem \in Data(proc[p].file)
  /\ \A n \in Names : disk["plugins"].data[n] # Nothing =>
       \E m \in Manifests : m.name = n /\ Supported(m)

(* Every change a save has returned for, or save_if_dirty has found nothing *)
(* to do for, is in the file, and nothing else is, after any number of     *)
(* processes and kills.  It takes one of these to break the promise: a     *)
(* kill or an error in the middle of a write; a save from a copy that was  *)
(* not what the file held; a job whose id a loaded job has.                *)
SavedIsKept ==
  \A f \in {"jobs", "plugins"} \ spoiled :
    WritesTo(f) = {} => load(f) = kept[f]

(* A complete configuration of the user stays whatever the processes do and   *)
(* wherever they die, until one that started during the edit, or failed to  *)
(* read the file since, or was about to replace what was there before the   *)
(* edit, writes the defaults.                                              *)
ConfigIsTheUsers ==
  mine /\ ~ missed /\ ~ editor.open =>
    disk["config"] = Whole([k \in {"config"} |-> "mine"])
=============================================================================
