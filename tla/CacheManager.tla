---------------------------- MODULE CacheManager ----------------------------
(***************************************************************************)
(* The typed file cache (src/cache_manager.rs): its Vec of entries and the *)
(* files of its directory.                                                 *)
(*                                                                         *)
(* Every method holds the mutex throughout, so each is one step, except    *)
(* that the steps of a put are kept apart: the file is there before the    *)
(* loop that makes room for it.  What the mutex does not protect is        *)
(* modelled: the directory outlives the process and the entries do not,    *)
(* sanitize_filename gives one file name to several keys, put pushes a     *)
(* second entry for a key it has, files may disappear, a write may fail    *)
(* half way, and an error of remove_file is ignored.                       *)
(*                                                                         *)
(* The Vec is a function from stamps to entries: push uses the clock as    *)
(* the next stamp, the Vec's order is the order of the stamps.  The clock  *)
(* is Utc::now(), which no two calls read at the same nanosecond.          *)
(***************************************************************************)
EXTENDS Integers, FiniteSets, Functions

CONSTANTS
  Keys,       \* cache keys
  Types,      \* CacheType
  FileOf,     \* sanitize_filename: the file name of each key
  Sizes,      \* sizes of the data put
  MaxSize,    \* CacheInner.max_size
  MaxClock    \* bound: puts and hits in a behaviour

ASSUME CacheAssumption ==
  /\ DOMAIN FileOf = Keys
  /\ Sizes \subseteq Nat /\ MaxSize \in Nat /\ MaxClock \in Nat

VARIABLES
  entries,   \* CacheInner.entries, by stamp
  disk,      \* the files this process wrote: by path, the key and the stamp of
             \* the last put that wrote it, and its size
  lost,      \* the other files of the directory: those of an earlier process,
             \* of a failed write, of a failed remove_file, and those whose
             \* source changed while put_path copied it
  mutex,     \* CacheManager.inner: "free", or "put" in the course of a put
  inflight,  \* the size of the data of that put, 0 when there is none
  most,      \* history: the highest count that put has evicted, 0 for none
  clock      \* Utc::now()

cvars == <<entries, disk, lost, mutex, inflight, most, clock>>

(* CacheEntry; hits, misses, created_at and the metadata decide nothing. *)
Entry == [key : Keys, type : Types, size : Sizes, count : Nat, access : Nat]

Paths == Types \X Range(FileOf)
path(type, key) == <<type, FileOf[key]>>
path_of(e) == path(e.type, e.key)

(* CacheManager::new: no entries, whatever files an earlier process left. *)
CInit ==
  /\ entries = [s \in {} |-> 0]
  /\ disk = [f \in {} |-> 0]
  /\ lost \in SUBSET Paths
  /\ mutex = "free" /\ inflight = 0 /\ most = 0
  /\ clock = 0

exists(f) == f \in DOMAIN disk \cup lost

(* CacheInner::total_size of the entries whose stamps are in S. *)
TotalOf(es, S) == SumFunction([s \in S |-> es[s].size])
total_size == TotalOf(entries, DOMAIN entries)

(* The entries S are dropped, with remove_file on the paths F: an error, for *)
(* the paths kept, is ignored.  A file whose own entry goes is then lost.   *)
Drop(S, F) ==
  \E kept \in SUBSET F :
    LET orphans == {f \in kept \cap DOMAIN disk : disk[f].by \in S} IN
    /\ entries' = Restrict(entries, DOMAIN entries \ S)
    /\ disk' = Restrict(disk, DOMAIN disk \ ((F \ kept) \cup orphans))
    /\ lost' = (lost \ (F \ kept)) \cup orphans

(* The stamps of a key's entries, and the first of them with a file. *)
stamps(key, type) ==
  {s \in DOMAIN entries : entries[s].key = key /\ entries[s].type = type}
found(key, type) ==
  {s \in stamps(key, type) :
     /\ exists(path_of(entries[s]))
     /\ \A r \in stamps(key, type) : r < s => ~ exists(path_of(entries[r]))}

(* An entry that is hit. *)
hit(e, count) ==
  [key |-> e.key, type |-> e.type, size |-> e.size, count |-> count, access |-> clock]

(* Mutant: a hit lowers the count. *)
GetHit_CountsDown(key, type) ==
  /\ mutex = "free" /\ clock < MaxClock
  /\ \E s \in found(key, type) :
       entries' = [entries EXCEPT ![s] = hit(@, @.count - 1)]
  /\ clock' = clock + 1
  /\ UNCHANGED <<disk, lost, mutex, inflight, most>>

(* get, finding the entry.  A miss only counts itself. *)
GetHit(key, type) ==
  /\ mutex = "free" /\ clock < MaxClock
  /\ \E s \in found(key, type) :
       entries' = [entries EXCEPT ![s] = hit(@, @.count + 1)]
  /\ clock' = clock + 1
  /\ UNCHANGED <<disk, lost, mutex, inflight, most>>

-----------------------------------------------------------------------------
(* put and put_path up to the loop: the file is written, the entry pushed   *)
(* whether or not the key has one.  put_path takes the size from a read and *)
(* the file from a copy: they are the same unless the source changes        *)
(* between the two.                                                        *)
Put(key, type, size, same) ==
  /\ mutex = "free" /\ clock < MaxClock
  /\ LET new == [key |-> key, type |-> type, size |-> size,
                 count |-> 0, access |-> clock]
         p == path(type, key)
     IN
     /\ entries' = [s \in DOMAIN entries \cup {clock} |->
                       IF s = clock THEN new ELSE entries[s]]
     /\ IF same
          THEN /\ disk' = [f \in DOMAIN disk \cup {p} |->
                              IF f = p THEN [key |-> key, by |-> clock, size |-> size]
                                       ELSE disk[f]]
               /\ lost' = lost \ {p}
          ELSE /\ disk' = Restrict(disk, DOMAIN disk \ {p})
               /\ lost' = lost \cup {p}
  /\ mutex' = "put" /\ inflight' = size
  /\ clock' = clock + 1
  /\ UNCHANGED most

(* Mutant: the most used entries go first. *)
goes_before_MostUsed(r, s) ==
  \/ entries[r].count > entries[s].count
  \/ entries[r].count = entries[s].count /\ entries[r].access < entries[s].access

(* The order of evict_one: access_count, then last_access. *)
goes_before(r, s) ==
  \/ entries[r].count < entries[s].count
  \/ entries[r].count = entries[s].count /\ entries[r].access < entries[s].access

(* One round of the loop: evict_one. *)
EvictOne ==
  /\ mutex = "put" /\ total_size > MaxSize
  /\ \E s \in DOMAIN entries :
       /\ \A r \in DOMAIN entries : ~ goes_before(r, s)
       /\ Drop({s}, {path_of(entries[s])})
       /\ most' = IF entries[s].count > most THEN entries[s].count ELSE most
  /\ UNCHANGED <<mutex, inflight, clock>>

(* Mutant: one round at most, an if in place of the while. *)
PutReturns_OneRound ==
  /\ mutex = "put"
  /\ mutex' = "free" /\ inflight' = 0 /\ most' = 0
  /\ UNCHANGED <<entries, disk, lost, clock>>

(* The end of the loop; without entries there is nothing to sum up. *)
PutReturns ==
  /\ mutex = "put" /\ total_size <= MaxSize
  /\ mutex' = "free" /\ inflight' = 0 /\ most' = 0
  /\ UNCHANGED <<entries, disk, lost, clock>>

(* put or put_path returning an error of the write, of the copy or of the   *)
(* metadata: the file has part of the data or all of it, no entry is pushed. *)
(* An error before that touches nothing.                                   *)
PutFails(key, type) ==
  /\ mutex = "free"
  /\ disk' = Restrict(disk, DOMAIN disk \ {path(type, key)})
  /\ lost' = lost \cup {path(type, key)}
  /\ UNCHANGED <<entries, mutex, inflight, most, clock>>

(* Mutant: the file is left behind. *)
Remove_KeepsFile(key, type) ==
  /\ mutex = "free" /\ stamps(key, type) # {}
  /\ entries' = Restrict(entries, DOMAIN entries \ stamps(key, type))
  /\ UNCHANGED <<disk, lost, mutex, inflight, most, clock>>

(* remove: every entry of the key, and the file. *)
Remove(key, type) ==
  /\ mutex = "free" /\ stamps(key, type) # {}
  /\ Drop(stamps(key, type), {path(type, key)})
  /\ UNCHANGED <<mutex, inflight, most, clock>>

(* clear. *)
Clear ==
  /\ mutex = "free" /\ DOMAIN entries # {}
  /\ Drop(DOMAIN entries, {path_of(entries[s]) : s \in DOMAIN entries})
  /\ UNCHANGED <<mutex, inflight, most, clock>>

(* A file is deleted by somebody else. *)
FileDeleted(f) ==
  /\ exists(f)
  /\ disk' = Restrict(disk, DOMAIN disk \ {f})
  /\ lost' = lost \ {f}
  /\ UNCHANGED <<entries, mutex, inflight, most, clock>>

(* The process ends, in the course of a put or not, and another one starts  *)
(* on the same directory: the files stay, the entries do not.              *)
Restart ==
  /\ DOMAIN entries # {} \/ DOMAIN disk # {}
  /\ lost' = lost \cup DOMAIN disk
  /\ entries' = [s \in {} |-> 0] /\ disk' = [f \in {} |-> 0]
  /\ mutex' = "free" /\ inflight' = 0 /\ most' = 0
  /\ UNCHANGED clock

CNext ==
  \/ \E k \in Keys, t \in Types : GetHit(k, t)
  \/ \E k \in Keys, t \in Types, n \in Sizes, same \in BOOLEAN : Put(k, t, n, same)
  \/ EvictOne
  \/ PutReturns
  \/ \E k \in Keys, t \in Types : PutFails(k, t)
  \/ \E k \in Keys, t \in Types : Remove(k, t)
  \/ Clear
  \/ \E f \in Paths : FileDeleted(f)
  \/ Restart

CSpec == CInit /\ [][CNext]_cvars

-----------------------------------------------------------------------------
(* The variables keep their types; a stamp is never used twice. *)
CTypeOK ==
  /\ clock \in Nat /\ inflight \in Nat /\ most \in Nat
  /\ mutex \in {"free", "put"} /\ (mutex = "free" => inflight = 0 /\ most = 0)
  /\ DOMAIN entries \subseteq 0 .. (clock - 1)
  /\ entries \in [DOMAIN entries -> Entry]
  /\ DOMAIN disk \subseteq Paths /\ lost \subseteq Paths
  /\ DOMAIN disk \cap lost = {}

(* A file this process wrote has the entry of the put that wrote it last,   *)
(* with its size, so that the cache can account for it and get rid of it:  *)
(* entries that share a file, evictions of one of them, deleted files and  *)
(* remove_file's errors on a file that another entry still stands for do   *)
(* not break it.  The ways in which a file does end up without its entry   *)
(* are exactly those lost names.                                           *)
FilesHaveTheirEntry ==
  \A f \in DOMAIN disk :
    LET s == disk[f].by IN
    /\ s \in DOMAIN entries
    /\ path_of(entries[s]) = f /\ entries[s].key = disk[f].key
    /\ entries[s].size = disk[f].size

(* The files this process wrote and has not lost exceed the cache's limit   *)
(* by the data of the put in progress at most, and not at all once it has  *)
(* returned, although total_size counts a shared file twice and a missing  *)
(* one once.  The whole directory has no such limit: see lost.             *)
DiskWithinLimit ==
  SumFunction([f \in DOMAIN disk |-> disk[f].size]) <= MaxSize + inflight

(* However many entries a put evicts, its own included, and whatever has    *)
(* become of their files, none of them was used more often than one that   *)
(* is left.                                                                *)
LeastUsedGoFirst == \A s \in DOMAIN entries : most <= entries[s].count
=============================================================================
