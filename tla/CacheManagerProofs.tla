-------------------------- MODULE CacheManagerProofs --------------------------
(***************************************************************************)
(* Proofs about CacheManager, for any keys, file names, sizes and limits:  *)
(*   - types, and that every file of this process that is not lost has the *)
(*     entry of the put that wrote it last.  How much is evicted does not  *)
(*     matter for this, only that an entry that goes takes its file along  *)
(*     or gives it up for lost;                                            *)
(*   - that the entries, and so these files, stay within the limit and the *)
(*     put in progress.  This does look into the sum, which the community  *)
(*     modules define by recursion over a finite set: what is false of some *)
(*     subset is false of a least one (LeastSubset), and its own subsets   *)
(*     give the contradiction;                                             *)
(*   - that a put evicts nothing used more often than what it leaves.      *)
(***************************************************************************)
EXTENDS CacheManager, FiniteSetTheorems, WellFoundedInduction, TLAPS

CInv == CTypeOK /\ FilesHaveTheirEntry

(* What FilesHaveTheirEntry says of one file. *)
Accounted(f) ==
  /\ disk[f].by \in DOMAIN entries
  /\ path_of(entries[disk[f].by]) = f
  /\ entries[disk[f].by].key = disk[f].key
  /\ entries[disk[f].by].size = disk[f].size

-----------------------------------------------------------------------------
LEMMA PathShape ==
  ASSUME NEW k \in Keys, NEW t \in Types PROVE path(t, k) \in Paths
BY CacheAssumption DEF path, Paths, Range

LEMMA EntryPath ==
  ASSUME CTypeOK, NEW s \in DOMAIN entries PROVE path_of(entries[s]) \in Paths
<1>1. entries[s] \in Entry
  BY DEF CTypeOK
<1>2. entries[s].key \in Keys /\ entries[s].type \in Types
  BY <1>1 DEF Entry
<1> QED BY <1>2, PathShape DEF path_of

LEMMA CInitInv == CInit => CInv
<1> SUFFICES ASSUME CInit PROVE CInv
  OBVIOUS
<1>1. DOMAIN entries = {} /\ DOMAIN disk = {} /\ clock = 0
  BY DEF CInit
<1>2. entries \in [DOMAIN entries -> Entry]
  BY <1>1 DEF CInit
<1>3. lost \subseteq Paths /\ mutex = "free" /\ inflight = 0 /\ most = 0
  BY DEF CInit
<1> QED BY <1>1, <1>2, <1>3 DEF CInv, CTypeOK, FilesHaveTheirEntry

(* Files go or are lost; the entries stay.                                 *)
LEMMA FilesGo ==
  ASSUME CInv, NEW D \in SUBSET (DOMAIN disk), disk' = [f \in D |-> disk[f]],
         lost' \subseteq Paths, D \cap lost' = {},
         UNCHANGED <<entries, mutex, inflight, most, clock>>
  PROVE  CInv'
<1>1. DOMAIN disk' = D /\ \A f \in D : disk'[f] = disk[f]
  OBVIOUS
<1>2. CTypeOK'
  BY <1>1 DEF CInv, CTypeOK
<1>3. ASSUME NEW f \in DOMAIN disk' PROVE Accounted(f)'
  BY <1>1 DEF CInv, FilesHaveTheirEntry, Accounted, path_of
<1> QED BY <1>2, <1>3 DEF CInv, FilesHaveTheirEntry, Accounted

(* Entries go, with remove_file on their paths; it does not matter for      *)
(* which of them it fails.                                                 *)
LEMMA DropStep ==
  ASSUME CInv, NEW S \in SUBSET (DOMAIN entries), NEW F \in SUBSET Paths, Drop(S, F),
         \A s \in S : path_of(entries[s]) \in F,
         UNCHANGED <<mutex, inflight, clock>>, most' \in Nat, mutex = "free" => most' = 0
  PROVE  CInv'
<1> PICK kept \in SUBSET F :
      LET orphans == {f \in kept \cap DOMAIN disk : disk[f].by \in S} IN
      /\ entries' = Restrict(entries, DOMAIN entries \ S)
      /\ disk' = Restrict(disk, DOMAIN disk \ ((F \ kept) \cup orphans))
      /\ lost' = (lost \ (F \ kept)) \cup orphans
  BY DEF Drop
<1> DEFINE orphans == {f \in kept \cap DOMAIN disk : disk[f].by \in S}
           D == DOMAIN disk \ ((F \ kept) \cup orphans)
<1>1. /\ DOMAIN entries' = DOMAIN entries \ S
      /\ \A s \in DOMAIN entries' : entries'[s] = entries[s]
      /\ entries' \in [DOMAIN entries' -> Entry]
  BY DEF Restrict, CInv, CTypeOK
<1>2. DOMAIN disk' = D /\ (\A f \in D : disk'[f] = disk[f])
      /\ lost' = (lost \ (F \ kept)) \cup orphans
  BY DEF Restrict
<1>3. CTypeOK'
  <2>1. D \subseteq Paths /\ lost' \subseteq Paths /\ D \cap lost' = {}
    BY <1>2 DEF CInv, CTypeOK
  <2> HIDE DEF D
  <2> QED BY <1>1, <1>2, <2>1 DEF CInv, CTypeOK
<1>4. ASSUME NEW f \in DOMAIN disk' PROVE Accounted(f)'
  <2>1. f \in DOMAIN disk /\ f \notin F \ kept /\ f \notin orphans /\ disk'[f] = disk[f]
    BY <1>2
  <2>2. Accounted(f)
    BY <2>1 DEF CInv, FilesHaveTheirEntry, Accounted
  <2>3. disk[f].by \notin S
    BY <2>1, <2>2 DEF Accounted
  <2>4. disk[f].by \in DOMAIN entries' /\ entries'[disk[f].by] = entries[disk[f].by]
    BY <2>2, <2>3, <1>1 DEF Accounted
  <2> QED BY <2>1, <2>2, <2>4 DEF Accounted, path_of
<1> QED BY <1>3, <1>4 DEF CInv, FilesHaveTheirEntry, Accounted

LEMMA RemoveStep == ASSUME CInv, NEW k \in Keys, NEW t \in Types, Remove(k, t) PROVE CInv'
<1> DEFINE S == stamps(k, t)
           F == {path(t, k)}
<1>1. \A s \in S : path_of(entries[s]) \in F
  BY DEF stamps, path_of
<1>2. S \in SUBSET (DOMAIN entries) /\ F \in SUBSET Paths
  BY PathShape DEF stamps
<1>3. Drop(S, F) /\ UNCHANGED <<mutex, inflight, clock>>
      /\ most' \in Nat /\ (mutex = "free" => most' = 0)
  BY DEF Remove, CInv, CTypeOK
<1> HIDE DEF S, F
<1> QED BY <1>1, <1>2, <1>3, DropStep

LEMMA ClearStep == ASSUME CInv, Clear PROVE CInv'
<1> DEFINE S == DOMAIN entries
           F == {path_of(entries[s]) : s \in DOMAIN entries}
<1>1. \A s \in S : path_of(entries[s]) \in F
  OBVIOUS
<1>2. S \in SUBSET (DOMAIN entries) /\ F \in SUBSET Paths
  BY EntryPath DEF CInv
<1>3. Drop(S, F) /\ UNCHANGED <<mutex, inflight, clock>>
      /\ most' \in Nat /\ (mutex = "free" => most' = 0)
  BY DEF Clear, CInv, CTypeOK
<1> HIDE DEF F, S
<1> QED BY <1>1, <1>2, <1>3, DropStep

LEMMA EvictStep == ASSUME CInv, EvictOne PROVE CInv'
<1>1. PICK s \in DOMAIN entries :
        /\ Drop({s}, {path_of(entries[s])})
        /\ most' = IF entries[s].count > most THEN entries[s].count ELSE most
  BY DEF EvictOne
<1> DEFINE S == {s}
           F == {path_of(entries[s])}
<1>2. \A r \in S : path_of(entries[r]) \in F
  OBVIOUS
<1>3. S \in SUBSET (DOMAIN entries) /\ F \in SUBSET Paths
  BY EntryPath DEF CInv
<1>4. entries[s].count \in Nat /\ most \in Nat
  BY DEF CInv, CTypeOK, Entry
<1>5. Drop(S, F) /\ UNCHANGED <<mutex, inflight, clock>>
      /\ most' \in Nat /\ (mutex = "free" => most' = 0)
  BY <1>1, <1>4 DEF EvictOne
<1> HIDE DEF F, S
<1> QED BY <1>2, <1>3, <1>5, DropStep

LEMMA FileDeletedStep == ASSUME CInv, NEW f \in Paths, FileDeleted(f) PROVE CInv'
<1> DEFINE D == DOMAIN disk \ {f}
<1>1. D \in SUBSET (DOMAIN disk) /\ disk' = [g \in D |-> disk[g]]
  BY DEF FileDeleted, Restrict
<1>2. lost' \subseteq Paths /\ D \cap lost' = {}
      /\ UNCHANGED <<entries, mutex, inflight, most, clock>>
  BY DEF FileDeleted, CInv, CTypeOK
<1> HIDE DEF D
<1> QED BY <1>1, <1>2, FilesGo

LEMMA PutFailsStep == ASSUME CInv, NEW k \in Keys, NEW t \in Types, PutFails(k, t) PROVE CInv'
<1> DEFINE D == DOMAIN disk \ {path(t, k)}
<1>1. D \in SUBSET (DOMAIN disk) /\ disk' = [g \in D |-> disk[g]]
  BY DEF PutFails, Restrict
<1>2. lost' \subseteq Paths /\ D \cap lost' = {}
      /\ UNCHANGED <<entries, mutex, inflight, most, clock>>
  BY PathShape DEF PutFails, CInv, CTypeOK
<1> HIDE DEF D
<1> QED BY <1>1, <1>2, FilesGo

LEMMA RestartStep == ASSUME CInv, Restart PROVE CInv'
<1>1. DOMAIN entries' = {} /\ DOMAIN disk' = {} /\ entries' \in [DOMAIN entries' -> Entry]
  BY DEF Restart
<1>2. lost' \subseteq Paths /\ mutex' = "free" /\ inflight' = 0 /\ most' = 0 /\ clock' \in Nat
  BY DEF Restart, CInv, CTypeOK
<1> QED BY <1>1, <1>2 DEF CInv, CTypeOK, FilesHaveTheirEntry

LEMMA PutReturnsStep == ASSUME CInv, PutReturns PROVE CInv'
<1>1. CTypeOK'
  BY DEF PutReturns, CInv, CTypeOK
<1>2. FilesHaveTheirEntry'
  BY DEF PutReturns, CInv, FilesHaveTheirEntry, path_of
<1> QED BY <1>1, <1>2 DEF CInv

LEMMA GetHitStep == ASSUME CInv, NEW k \in Keys, NEW t \in Types, GetHit(k, t) PROVE CInv'
<1>1. PICK s \in found(k, t) :
        entries' = [entries EXCEPT ![s] = hit(@, @.count + 1)]
  BY DEF GetHit
<1>2. s \in DOMAIN entries /\ entries[s] \in Entry /\ clock \in Nat
  BY DEF found, stamps, CInv, CTypeOK
<1> DEFINE new == hit(entries[s], entries[s].count + 1)
<1>3. new \in Entry /\ new.key = entries[s].key /\ new.type = entries[s].type
      /\ new.size = entries[s].size
  BY <1>2 DEF Entry, hit
<1>4. entries' = [entries EXCEPT ![s] = new]
  BY <1>1
<1> HIDE DEF new
<1>5. /\ DOMAIN entries' = DOMAIN entries
      /\ \A r \in DOMAIN entries : /\ entries'[r].key = entries[r].key
                                   /\ entries'[r].type = entries[r].type
                                   /\ entries'[r].size = entries[r].size
  BY <1>2, <1>3, <1>4
<1>6. entries' \in [DOMAIN entries' -> Entry]
  BY <1>2, <1>3, <1>4 DEF CInv, CTypeOK
<1>7. UNCHANGED <<disk, lost, mutex, inflight, most>> /\ clock' = clock + 1
  BY DEF GetHit
<1>8. CTypeOK'
  BY <1>2, <1>5, <1>6, <1>7 DEF CInv, CTypeOK
<1>9. FilesHaveTheirEntry'
  BY <1>5, <1>7 DEF CInv, FilesHaveTheirEntry, path_of
<1> QED BY <1>8, <1>9 DEF CInv

(* What put does to the entries.                                           *)
LEMMA PutEntries ==
  ASSUME CTypeOK, NEW k \in Keys, NEW t \in Types, NEW n \in Sizes, NEW b \in BOOLEAN,
         Put(k, t, n, b)
  PROVE  /\ clock \in Nat /\ clock \notin DOMAIN entries
         /\ DOMAIN entries' = DOMAIN entries \cup {clock}
         /\ entries' \in [DOMAIN entries' -> Entry]
         /\ entries'[clock] = [key |-> k, type |-> t, size |-> n, count |-> 0, access |-> clock]
         /\ \A s \in DOMAIN entries : entries'[s] = entries[s]
<1> DEFINE new == [key |-> k, type |-> t, size |-> n, count |-> 0, access |-> clock]
<1>1. clock \in Nat /\ clock \notin DOMAIN entries
  BY DEF CTypeOK
<1>2. new \in Entry
  BY <1>1 DEF Entry
<1>3. entries' = [s \in DOMAIN entries \cup {clock} |-> IF s = clock THEN new ELSE entries[s]]
  BY DEF Put
<1> HIDE DEF new
<1>4. /\ DOMAIN entries' = DOMAIN entries \cup {clock}
      /\ entries' \in [DOMAIN entries' -> Entry]
      /\ entries'[clock] = new
      /\ \A s \in DOMAIN entries : entries'[s] = entries[s]
  BY <1>1, <1>2, <1>3 DEF CTypeOK
<1> QED BY <1>1, <1>4 DEF new

LEMMA PutStep ==
  ASSUME CInv, NEW k \in Keys, NEW t \in Types, NEW n \in Sizes, NEW b \in BOOLEAN,
         Put(k, t, n, b)
  PROVE  CInv'
<1> DEFINE p == path(t, k)
<1>1. /\ clock \in Nat /\ clock \notin DOMAIN entries
      /\ DOMAIN entries' = DOMAIN entries \cup {clock}
      /\ entries' \in [DOMAIN entries' -> Entry]
      /\ entries'[clock] = [key |-> k, type |-> t, size |-> n, count |-> 0, access |-> clock]
      /\ \A s \in DOMAIN entries : entries'[s] = entries[s]
  BY PutEntries DEF CInv
<1>2. /\ mutex' = "put" /\ inflight' \in Nat /\ most' \in Nat /\ clock' = clock + 1
      /\ p \in Paths
  BY CacheAssumption, PathShape DEF Put, CInv, CTypeOK
<1>3. /\ \A f \in DOMAIN disk' \ {p} : f \in DOMAIN disk /\ disk'[f] = disk[f]
      /\ p \in DOMAIN disk' => disk'[p] = [key |-> k, by |-> clock, size |-> n]
      /\ lost' \subseteq lost \cup {p} /\ DOMAIN disk' \cap lost' = {}
  <2>1. CASE b
    <3>1. /\ disk' = [f \in DOMAIN disk \cup {p} |->
                        IF f = p THEN [key |-> k, by |-> clock, size |-> n] ELSE disk[f]]
          /\ lost' = lost \ {p}
      BY <2>1 DEF Put
    <3> HIDE DEF p
    <3> QED BY <3>1 DEF CInv, CTypeOK
  <2>2. CASE ~ b
    <3>1. disk' = [f \in DOMAIN disk \ {p} |-> disk[f]] /\ lost' = lost \cup {p}
      BY <2>2 DEF Put, Restrict
    <3> HIDE DEF p
    <3> QED BY <3>1 DEF CInv, CTypeOK
  <2> QED BY <2>1, <2>2
<1>4. path_of([key |-> k, type |-> t, size |-> n, count |-> 0, access |-> clock]) = p
  BY DEF path_of
<1> HIDE DEF p
<1>5. CTypeOK'
  BY <1>1, <1>2, <1>3 DEF CInv, CTypeOK
<1>6. ASSUME NEW f \in DOMAIN disk' PROVE Accounted(f)'
  <2>1. CASE f = p
    BY <2>1, <1>1, <1>3, <1>4 DEF Accounted, path_of
  <2>2. CASE f # p
    <3>1. f \in DOMAIN disk /\ disk'[f] = disk[f] /\ Accounted(f)
      BY <2>2, <1>3 DEF CInv, FilesHaveTheirEntry, Accounted
    <3> QED BY <3>1, <1>1 DEF Accounted, path_of
  <2> QED BY <2>1, <2>2
<1> QED BY <1>5, <1>6 DEF CInv, FilesHaveTheirEntry, Accounted

-----------------------------------------------------------------------------
LEMMA CNextInv == CInv /\ [CNext]_cvars => CInv'
<1> SUFFICES ASSUME CInv, [CNext]_cvars PROVE CInv'
  OBVIOUS
<1>1. ASSUME NEW k \in Keys, NEW t \in Types, GetHit(k, t) PROVE CInv'
  BY <1>1, GetHitStep
<1>2. ASSUME NEW k \in Keys, NEW t \in Types, NEW n \in Sizes, NEW b \in BOOLEAN,
             Put(k, t, n, b)
      PROVE  CInv'
  BY <1>2, PutStep
<1>3. CASE EvictOne
  BY <1>3, EvictStep
<1>4. CASE PutReturns
  BY <1>4, PutReturnsStep
<1>5. ASSUME NEW k \in Keys, NEW t \in Types, PutFails(k, t) PROVE CInv'
  BY <1>5, PutFailsStep
<1>6. ASSUME NEW k \in Keys, NEW t \in Types, Remove(k, t) PROVE CInv'
  BY <1>6, RemoveStep
<1>7. CASE Clear
  BY <1>7, ClearStep
<1>8. ASSUME NEW f \in Paths, FileDeleted(f) PROVE CInv'
  BY <1>8, FileDeletedStep
<1>9. CASE Restart
  BY <1>9, RestartStep
<1>10. CASE UNCHANGED cvars
  BY <1>10 DEF cvars, CInv, CTypeOK, FilesHaveTheirEntry, path_of
<1> QED BY <1>1, <1>2, <1>3, <1>4, <1>5, <1>6, <1>7, <1>8, <1>9, <1>10 DEF CNext

(* The inductive invariant of the cache, from any directory at the start,   *)
(* over failing removals and over restarts.                                *)
THEOREM CacheInvariant == CSpec => []CInv
<1>1. CInit => CInv
  BY CInitInv
<1>2. CInv /\ [CNext]_cvars => CInv'
  BY CNextInv
<1> QED BY <1>1, <1>2, PTL DEF CSpec

(* The entries, the files and the clock keep their types. *)
THEOREM CacheTypes == CSpec => []CTypeOK
<1>1. CInv => CTypeOK
  BY DEF CInv
<1> QED BY <1>1, CacheInvariant, PTL

(* Whatever keys share a file, whatever is put, evicted, removed or deleted, *)
(* and whichever removals fail, a file of this process that is not among   *)
(* the lost ones has the entry of the put that wrote it.                   *)
THEOREM FilesAreAccountedFor == CSpec => []FilesHaveTheirEntry
<1>1. CInv => FilesHaveTheirEntry
  BY DEF CInv
<1> QED BY <1>1, CacheInvariant, PTL

-----------------------------------------------------------------------------
(* Sums over finite sets.                                                  *)

(* Induction over the subsets of a finite set, without an operator for the  *)
(* hypothesis: what holds of some of them holds of a least one.             *)
LEMMA LeastSubset ==
  ASSUME NEW S, IsFiniteSet(S), NEW T \in SUBSET (SUBSET S), T # {}
  PROVE  \E X \in T : \A Y \in T : ~ (Y \subseteq X /\ Y # X)
<1> DEFINE R == StrictSubsetOrdering(S)
<1>1. IsWellFoundedOn(R, SUBSET S)
  BY FS_StrictSubsetOrderingWellFounded, FS_FiniteSubsetsOfFinite
<1>2. \A X, Y \in SUBSET S : <<Y, X>> \in R <=> Y \subseteq X /\ Y # X
  BY DEF StrictSubsetOrdering
<1> HIDE DEF R
<1>3. PICK X \in T : \A Y \in T : ~ (<<Y, X>> \in R)
  BY <1>1, WFMin
<1> QED BY <1>2, <1>3

(* What SumFunctionOnSet picks and leaves. *)
First(s) == CHOOSE x \in s : TRUE
Rest(s) == s \ {First(s)}

(* g is the partial sums of fun over the subsets of S. *)
Sums(g, fun, S) ==
  g = [s \in SUBSET S |-> IF s = {} THEN 0 ELSE fun[First(s)] + g[Rest(s)]]

(* What is picked is an element, and what is left has one fewer.           *)
LEMMA FirstIn == ASSUME NEW s, s # {} PROVE First(s) \in s /\ Rest(s) \subseteq s /\ Rest(s) # s
BY DEF First, Rest

(* What partial sums are, and that there is one family of them on any     *)
(* finite set.                                                             *)
LEMMA SumsAre ==
  ASSUME NEW g, NEW fun, NEW S, Sums(g, fun, S)
  PROVE  /\ g[{}] = 0
         /\ \A s \in SUBSET S : s # {} => g[s] = fun[First(s)] + g[Rest(s)]
<1> DEFINE body(h) == [s \in SUBSET S |-> IF s = {} THEN 0 ELSE fun[First(s)] + h[Rest(s)]]
<1>1. /\ body(g)[{}] = 0
      /\ \A s \in SUBSET S : s # {} => body(g)[s] = fun[First(s)] + g[Rest(s)]
  OBVIOUS
<1>2. g = body(g)
  BY DEF Sums
<1> HIDE DEF body
<1> QED BY <1>1, <1>2

LEMMA SumsAgree ==
  ASSUME NEW fun, NEW A, IsFiniteSet(A), NEW B, NEW g, NEW h,
         Sums(g, fun, A), Sums(h, fun, B), NEW X \in SUBSET A, X \subseteq B
  PROVE  g[X] = h[X]
<1> DEFINE T == {Y \in SUBSET A : Y \subseteq B /\ g[Y] # h[Y]}
<1> SUFFICES ASSUME T # {} PROVE FALSE
  OBVIOUS
<1>0. T \in SUBSET (SUBSET A)
  OBVIOUS
<1>1. PICK Y \in T : \A Z \in T : ~ (Z \subseteq Y /\ Z # Y)
  <2> HIDE DEF T
  <2> QED BY <1>0, LeastSubset
<1>2. Y # {}
  BY SumsAre
<1>3. g[Y] = fun[First(Y)] + g[Rest(Y)] /\ h[Y] = fun[First(Y)] + h[Rest(Y)]
  BY <1>2, SumsAre
<1>4. Rest(Y) \subseteq Y /\ Rest(Y) # Y
  BY <1>2, FirstIn
<1>5. g[Rest(Y)] = h[Rest(Y)]
  BY <1>1, <1>4
<1> QED BY <1>3, <1>5

LEMMA SumsExist ==
  ASSUME NEW fun, NEW S, IsFiniteSet(S)
  PROVE  \E g : Sums(g, fun, S)
<1> DEFINE T == {X \in SUBSET S : ~ \E g : Sums(g, fun, X)}
<1> SUFFICES ASSUME T # {} PROVE FALSE
  OBVIOUS
<1>0. T \in SUBSET (SUBSET S)
  OBVIOUS
<1>1. PICK X \in T : \A Y \in T : ~ (Y \subseteq X /\ Y # X)
  <2> HIDE DEF T
  <2> QED BY <1>0, LeastSubset
<1> DEFINE h(Y) == CHOOSE g : Sums(g, fun, Y)
<1>2. ASSUME NEW Y \in SUBSET X, Y # X PROVE Sums(h(Y), fun, Y)
  BY <1>1, <1>2
<1> DEFINE G == [s \in SUBSET X |-> IF s = {} THEN 0
                                    ELSE fun[First(s)] + h(Rest(s))[Rest(s)]]
<1> HIDE DEF h
<1>3. ASSUME NEW t \in SUBSET X, t # X PROVE G[t] = h(t)[t]
  <2>1. Sums(h(t), fun, t)
    BY <1>2, <1>3
  <2>2. CASE t = {}
    BY <2>1, <2>2, SumsAre
  <2>3. CASE t # {}
    <3>1. Rest(t) \subseteq t /\ Rest(t) # X /\ Rest(t) \in SUBSET X
      BY <1>3, <2>3, FirstIn
    <3>2. Sums(h(Rest(t)), fun, Rest(t))
      BY <1>2, <3>1
    <3>3. IsFiniteSet(t)
      BY FS_Subset
    <3>4. h(t)[Rest(t)] = h(Rest(t))[Rest(t)]
      BY <2>1, <3>1, <3>2, <3>3, SumsAgree
    <3>5. h(t)[t] = fun[First(t)] + h(t)[Rest(t)]
      BY <2>1, <2>3, SumsAre
    <3> QED BY <2>3, <3>4, <3>5
  <2> QED BY <2>2, <2>3
<1>4. ASSUME NEW s \in SUBSET X, s # {} PROVE Rest(s) \in SUBSET X /\ Rest(s) # X
  BY <1>4, FirstIn
<1>5. Sums(G, fun, X)
  <2>1. \A s \in SUBSET X : s # {} => h(Rest(s))[Rest(s)] = G[Rest(s)]
    BY <1>3, <1>4
  <2>2. G = [s \in SUBSET X |-> IF s = {} THEN 0 ELSE fun[First(s)] + G[Rest(s)]]
    BY <2>1
  <2> HIDE DEF G
  <2> QED BY <2>2 DEF Sums
<1> HIDE DEF G
<1> QED BY <1>1, <1>5

LEMMA SumIsASum ==
  ASSUME NEW fun, NEW S, IsFiniteSet(S)
  PROVE  \E g : Sums(g, fun, S) /\ SumFunctionOnSet(fun, S) = g[S]
<1> DEFINE g == CHOOSE h : Sums(h, fun, S)
<1>1. SumFunctionOnSet(fun, S) = g[S]
  BY DEF SumFunctionOnSet, FoldFunctionOnSet, MapThenFoldSet, Sums, First, Rest
<1>2. Sums(g, fun, S)
  BY SumsExist
<1> QED BY <1>1, <1>2

(* The sum over the empty set, and over a set with one element taken out. *)
LEMMA SumEmpty == ASSUME NEW fun PROVE SumFunctionOnSet(fun, {}) = 0
<1>1. IsFiniteSet({})
  BY FS_EmptySet
<1> QED BY <1>1, SumIsASum, SumsAre

LEMMA SumFirst ==
  ASSUME NEW fun, NEW S, IsFiniteSet(S), S # {}
  PROVE  SumFunctionOnSet(fun, S) = fun[First(S)] + SumFunctionOnSet(fun, Rest(S))
<1>1. IsFiniteSet(Rest(S)) /\ Rest(S) \in SUBSET S
  BY FS_Subset, FirstIn
<1>2. PICK g : Sums(g, fun, S) /\ SumFunctionOnSet(fun, S) = g[S]
  BY SumIsASum
<1>3. PICK h : Sums(h, fun, Rest(S)) /\ SumFunctionOnSet(fun, Rest(S)) = h[Rest(S)]
  BY <1>1, SumIsASum
<1>4. g[Rest(S)] = h[Rest(S)]
  BY <1>1, <1>2, <1>3, SumsAgree
<1> QED BY <1>2, <1>3, <1>4, SumsAre

(* A sum of naturals is a natural, whichever element is taken out first.   *)
LEMMA SumNat ==
  ASSUME NEW fun, NEW S, IsFiniteSet(S), \A x \in S : fun[x] \in Nat
  PROVE  SumFunctionOnSet(fun, S) \in Nat
<1> DEFINE T == {X \in SUBSET S : SumFunctionOnSet(fun, X) \notin Nat}
<1> SUFFICES ASSUME T # {} PROVE FALSE
  OBVIOUS
<1>0. T \in SUBSET (SUBSET S)
  OBVIOUS
<1>1. PICK X \in T : \A Y \in T : ~ (Y \subseteq X /\ Y # X)
  <2> HIDE DEF T
  <2> QED BY <1>0, LeastSubset
<1>2. X # {} /\ X \in SUBSET S /\ IsFiniteSet(X)
  <2>1. X # {}
    BY SumEmpty
  <2> QED BY <2>1, FS_Subset
<1>3. Rest(X) \subseteq X /\ Rest(X) # X /\ First(X) \in S
  BY <1>2, FirstIn
<1>4. SumFunctionOnSet(fun, Rest(X)) \in Nat
  BY <1>1, <1>3
<1> QED BY <1>2, <1>3, <1>4, SumFirst

LEMMA SumOut ==
  ASSUME NEW fun, NEW S, IsFiniteSet(S), \A x \in S : fun[x] \in Nat, NEW e \in S
  PROVE  SumFunctionOnSet(fun, S) = fun[e] + SumFunctionOnSet(fun, S \ {e})
<1> DEFINE Sum(X) == SumFunctionOnSet(fun, X)
           T == {X \in SUBSET S : \E x \in X : Sum(X) # fun[x] + Sum(X \ {x})}
<1> SUFFICES ASSUME T # {} PROVE FALSE
  OBVIOUS
<1>0. T \in SUBSET (SUBSET S)
  OBVIOUS
<1>1. PICK X \in T : \A Y \in T : ~ (Y \subseteq X /\ Y # X)
  <2> HIDE DEF T
  <2> QED BY <1>0, LeastSubset
<1>2. PICK x \in X : Sum(X) # fun[x] + Sum(X \ {x})
  OBVIOUS
<1>3. \A Y \in SUBSET X : Y # X => \A y \in Y : Sum(Y) = fun[y] + Sum(Y \ {y})
  BY <1>1
<1>4. \A Y \in SUBSET X : Sum(Y) \in Nat
  BY SumNat, FS_Subset
<1> DEFINE c == First(X)
<1>b. X \in SUBSET S
  OBVIOUS
<1>5. c \in X /\ Sum(X) = fun[c] + Sum(X \ {c})
  BY SumFirst, FirstIn, FS_Subset DEF Rest
<1> HIDE DEF Sum, c, T
<1>6. c # x
  BY <1>2, <1>5
<1>7. Sum(X \ {c}) = fun[x] + Sum((X \ {c}) \ {x})
  BY <1>3, <1>5, <1>6
<1>8. Sum(X \ {x}) = fun[c] + Sum((X \ {x}) \ {c})
  BY <1>3, <1>5, <1>6
<1>9. (X \ {x}) \ {c} = (X \ {c}) \ {x}
  OBVIOUS
<1>10. fun[x] \in Nat /\ fun[c] \in Nat /\ Sum((X \ {c}) \ {x}) \in Nat
  BY <1>4, <1>5, <1>b
<1> QED BY <1>2, <1>5, <1>7, <1>8, <1>9, <1>10

(* A sum depends on the values added alone; fewer naturals add up to less. *)
LEMMA SumSame ==
  ASSUME NEW fun, NEW g, NEW S, IsFiniteSet(S), \A x \in S : fun[x] = g[x]
  PROVE  SumFunctionOnSet(fun, S) = SumFunctionOnSet(g, S)
<1> DEFINE T == {X \in SUBSET S : SumFunctionOnSet(fun, X) # SumFunctionOnSet(g, X)}
<1> SUFFICES ASSUME T # {} PROVE FALSE
  OBVIOUS
<1>0. T \in SUBSET (SUBSET S)
  OBVIOUS
<1>1. PICK X \in T : \A Y \in T : ~ (Y \subseteq X /\ Y # X)
  <2> HIDE DEF T
  <2> QED BY <1>0, LeastSubset
<1>2. X # {} /\ X \in SUBSET S /\ IsFiniteSet(X)
  <2>1. X # {}
    BY SumEmpty
  <2> QED BY <2>1, FS_Subset
<1>3. Rest(X) \subseteq X /\ Rest(X) # X /\ First(X) \in S
  BY <1>2, FirstIn
<1>4. SumFunctionOnSet(fun, Rest(X)) = SumFunctionOnSet(g, Rest(X))
  BY <1>1, <1>3
<1> QED BY <1>2, <1>3, <1>4, SumFirst

LEMMA SumPart ==
  ASSUME NEW fun, NEW S, IsFiniteSet(S), \A x \in S : fun[x] \in Nat, NEW R \in SUBSET S
  PROVE  SumFunctionOnSet(fun, R) <= SumFunctionOnSet(fun, S)
<1> DEFINE Sum(X) == SumFunctionOnSet(fun, X)
           T == {X \in SUBSET S : R \subseteq X /\ ~ (Sum(R) <= Sum(X))}
<1> SUFFICES ASSUME T # {} PROVE FALSE
  OBVIOUS
<1>0. T \in SUBSET (SUBSET S)
  OBVIOUS
<1>1. PICK X \in T : \A Y \in T : ~ (Y \subseteq X /\ Y # X)
  <2> HIDE DEF T
  <2> QED BY <1>0, LeastSubset
<1>2. X \in SUBSET S /\ R \subseteq X /\ ~ (Sum(R) <= Sum(X))
  OBVIOUS
<1>3. IsFiniteSet(X) /\ IsFiniteSet(R) /\ \A x \in X : fun[x] \in Nat
  BY <1>2, FS_Subset
<1>4. Sum(R) \in Nat
  BY <1>3, SumNat
<1>5. PICK e \in X : e \notin R
  BY <1>2, <1>4
<1>6. Sum(X \ {e}) \in Nat
  BY <1>3, SumNat, FS_Subset
<1>7. Sum(X) = fun[e] + Sum(X \ {e})
  BY <1>3, SumOut
<1>8. Sum(R) <= Sum(X \ {e})
  BY <1>1, <1>2, <1>5
<1> QED BY <1>2, <1>3, <1>4, <1>6, <1>7, <1>8

(* Each element of F counts for one of E, and no two for the same. *)
LEMMA SumInto ==
  ASSUME NEW E, IsFiniteSet(E), NEW b, \A x \in E : b[x] \in Nat,
         NEW F, IsFiniteSet(F), NEW a,
         NEW m, \A f \in F : m[f] \in E /\ a[f] = b[m[f]],
         \A f, g \in F : m[f] = m[g] => f = g
  PROVE  SumFunctionOnSet(a, F) <= SumFunctionOnSet(b, E)
<1> DEFINE image(X) == {m[f] : f \in X}
           T == {X \in SUBSET F : SumFunctionOnSet(a, X) # SumFunctionOnSet(b, image(X))}
<1>1. SumFunctionOnSet(a, F) = SumFunctionOnSet(b, image(F))
  <2> SUFFICES ASSUME T # {} PROVE FALSE
    OBVIOUS
  <2>0. T \in SUBSET (SUBSET F)
    OBVIOUS
  <2>1. PICK X \in T : \A Y \in T : ~ (Y \subseteq X /\ Y # X)
    <3> HIDE DEF T
    <3> QED BY <2>0, LeastSubset
  <2>2. X # {} /\ X \in SUBSET F /\ IsFiniteSet(X)
    <3>1. image({}) = {}
      OBVIOUS
    <3>2. X # {}
      BY <3>1, SumEmpty
    <3> QED BY <3>2, FS_Subset
  <2>3. First(X) \in X /\ Rest(X) = X \ {First(X)}
    BY <2>2, FirstIn DEF Rest
  <2>4. SumFunctionOnSet(a, Rest(X)) = SumFunctionOnSet(b, image(Rest(X)))
    BY <2>1, <2>3
  <2>5. image(Rest(X)) = image(X) \ {m[First(X)]} /\ m[First(X)] \in image(X)
    BY <2>2, <2>3
  <2>6. image(X) \in SUBSET E
    BY <2>2
  <2>7. SumFunctionOnSet(b, image(X))
          = b[m[First(X)]] + SumFunctionOnSet(b, image(Rest(X)))
    <3>1. IsFiniteSet(image(X)) /\ \A y \in image(X) : b[y] \in Nat
      BY <2>6, FS_Subset
    <3> HIDE DEF image
    <3> QED BY <3>1, <2>5, SumOut
  <2>8. SumFunctionOnSet(a, X) = a[First(X)] + SumFunctionOnSet(a, Rest(X))
    BY <2>2, SumFirst
  <2> QED BY <2>1, <2>2, <2>3, <2>4, <2>7, <2>8
<1>2. image(F) \in SUBSET E
  OBVIOUS
<1> QED BY <1>1, <1>2, SumPart

-----------------------------------------------------------------------------
(* The entries are within the limit and the put in progress.               *)
EntriesWithinLimit == total_size <= MaxSize + inflight

LimitInv == CInv /\ EntriesWithinLimit

LEMMA TotalPart ==
  ASSUME NEW es, IsFiniteSet(DOMAIN es), es \in [DOMAIN es -> Entry],
         NEW S \in SUBSET (DOMAIN es), NEW R \in SUBSET S
  PROVE  TotalOf(es, R) \in Nat /\ TotalOf(es, S) \in Nat /\ TotalOf(es, R) <= TotalOf(es, S)
<1> DEFINE fun(X) == [s \in X |-> es[s].size]
<1>1. \A s \in DOMAIN es : es[s].size \in Nat
  BY CacheAssumption DEF Entry
<1>2. IsFiniteSet(S) /\ IsFiniteSet(R)
  BY FS_Subset
<1>3. TotalOf(es, S) = SumFunctionOnSet(fun(S), S) /\ TotalOf(es, R) = SumFunctionOnSet(fun(R), R)
  BY DEF TotalOf, SumFunction
<1>4. \A x \in S : fun(S)[x] \in Nat
  BY <1>1
<1>5. \A x \in R : fun(R)[x] \in Nat /\ fun(R)[x] = fun(S)[x]
  BY <1>1
<1> HIDE DEF fun
<1>6. SumFunctionOnSet(fun(R), R) = SumFunctionOnSet(fun(S), R)
  BY <1>2, <1>5, SumSame
<1>7. SumFunctionOnSet(fun(S), R) <= SumFunctionOnSet(fun(S), S)
  BY <1>2, <1>4, SumPart
<1>8. SumFunctionOnSet(fun(S), S) \in Nat /\ SumFunctionOnSet(fun(R), R) \in Nat
  BY <1>2, <1>4, <1>5, SumNat
<1> QED BY <1>3, <1>6, <1>7, <1>8

LEMMA StampsFinite == ASSUME CTypeOK PROVE IsFiniteSet(DOMAIN entries)
<1>1. clock - 1 \in Int /\ DOMAIN entries \in SUBSET (0 .. (clock - 1))
  BY DEF CTypeOK
<1>2. IsFiniteSet(0 .. (clock - 1))
  BY <1>1, FS_Interval
<1> QED BY <1>1, <1>2, FS_Subset

LEMMA TotalNat == ASSUME CTypeOK PROVE total_size \in Nat
<1>1. entries \in [DOMAIN entries -> Entry] /\ IsFiniteSet(DOMAIN entries)
  BY StampsFinite DEF CTypeOK
<1>2. DOMAIN entries \in SUBSET (DOMAIN entries)
  OBVIOUS
<1> QED BY <1>1, <1>2, TotalPart DEF total_size

(* One more entry, and the sum is larger by its size.                      *)
LEMMA PutLimit ==
  ASSUME CTypeOK, CTypeOK', EntriesWithinLimit, NEW k \in Keys, NEW t \in Types,
         NEW n \in Sizes, NEW b \in BOOLEAN, Put(k, t, n, b)
  PROVE  EntriesWithinLimit'
<1> DEFINE fun == [s \in DOMAIN entries' |-> entries'[s].size]
           old == [s \in DOMAIN entries |-> entries[s].size]
           all == DOMAIN entries'
<1>1. /\ clock \in Nat /\ clock \notin DOMAIN entries
      /\ DOMAIN entries' = DOMAIN entries \cup {clock}
      /\ entries' \in [DOMAIN entries' -> Entry]
      /\ entries'[clock] = [key |-> k, type |-> t, size |-> n, count |-> 0, access |-> clock]
      /\ \A s \in DOMAIN entries : entries'[s] = entries[s]
  BY PutEntries
<1>2. IsFiniteSet(DOMAIN entries) /\ IsFiniteSet(all)
  BY <1>1, StampsFinite, FS_AddElement
<1>3. /\ \A s \in all : fun[s] \in Nat
      /\ fun[clock] = n /\ clock \in all /\ all \ {clock} = DOMAIN entries
      /\ \A s \in DOMAIN entries : fun[s] = old[s]
  <2>1. \A s \in all : entries'[s] \in Entry
    BY <1>1
  <2>2. \A s \in all : fun[s] \in Nat
    BY <2>1, CacheAssumption DEF Entry
  <2>3. clock \in all /\ all \ {clock} = DOMAIN entries
    BY <1>1
  <2>4. fun[clock] = n /\ \A s \in DOMAIN entries : fun[s] = old[s]
    BY <1>1
  <2> QED BY <2>2, <2>3, <2>4
<1>4. (total_size)' = SumFunctionOnSet(fun, all) /\ total_size = SumFunctionOnSet(old, DOMAIN entries)
  BY DEF total_size, TotalOf, SumFunction
<1> HIDE DEF fun, old, all
<1>5. SumFunctionOnSet(fun, all) = n + SumFunctionOnSet(fun, DOMAIN entries)
  BY <1>2, <1>3, SumOut
<1>6. SumFunctionOnSet(fun, DOMAIN entries) = SumFunctionOnSet(old, DOMAIN entries)
  BY <1>2, <1>3, SumSame
<1>7. inflight = 0 /\ inflight' = n
  BY DEF Put, CTypeOK
<1>8. total_size \in Nat /\ n \in Nat
  BY TotalNat, CacheAssumption
<1> QED BY <1>4, <1>5, <1>6, <1>7, <1>8, CacheAssumption DEF EntriesWithinLimit

(* Entries go.                                                             *)
LEMMA FewerEntries ==
  ASSUME CTypeOK, EntriesWithinLimit, NEW S, entries' = Restrict(entries, DOMAIN entries \ S),
         inflight' = inflight
  PROVE  EntriesWithinLimit'
<1> DEFINE left == DOMAIN entries \ S
<1>1. IsFiniteSet(DOMAIN entries) /\ entries \in [DOMAIN entries -> Entry]
  BY StampsFinite DEF CTypeOK
<1>2. left \in SUBSET (DOMAIN entries) /\ DOMAIN entries \in SUBSET (DOMAIN entries)
  OBVIOUS
<1>3. DOMAIN entries' = left /\ [s \in left |-> entries'[s].size] = [s \in left |-> entries[s].size]
  BY DEF Restrict
<1> HIDE DEF left
<1>4. (total_size)' = TotalOf(entries, left)
  BY <1>3 DEF total_size, TotalOf
<1>5. TotalOf(entries, left) \in Nat /\ total_size \in Nat
      /\ TotalOf(entries, left) <= total_size
  BY <1>1, <1>2, TotalPart DEF total_size
<1>6. inflight \in Nat
  BY DEF CTypeOK
<1> QED BY <1>4, <1>5, <1>6, CacheAssumption DEF EntriesWithinLimit

LEMMA HitLimit ==
  ASSUME CTypeOK, EntriesWithinLimit, NEW k \in Keys, NEW t \in Types, GetHit(k, t)
  PROVE  EntriesWithinLimit'
<1>1. PICK s \in found(k, t) : entries' = [entries EXCEPT ![s] = hit(@, @.count + 1)]
  BY DEF GetHit
<1>2. DOMAIN entries' = DOMAIN entries /\ \A r \in DOMAIN entries : entries'[r].size = entries[r].size
  BY <1>1 DEF hit
<1>3. (total_size)' = total_size /\ inflight' = inflight
  BY <1>2 DEF total_size, TotalOf, GetHit
<1> QED BY <1>3 DEF EntriesWithinLimit

LEMMA NoEntriesLimit ==
  ASSUME DOMAIN entries = {}, inflight = 0 PROVE EntriesWithinLimit
<1>1. total_size = 0
  BY SumEmpty DEF total_size, TotalOf, SumFunction
<1> QED BY <1>1, CacheAssumption DEF EntriesWithinLimit

LEMMA LimitNext == LimitInv /\ [CNext]_cvars => LimitInv'
<1> SUFFICES ASSUME CInv, CInv', EntriesWithinLimit, [CNext]_cvars PROVE EntriesWithinLimit'
  BY CNextInv DEF LimitInv
<1> USE DEF CInv
<1>1. ASSUME NEW k \in Keys, NEW t \in Types, GetHit(k, t) PROVE EntriesWithinLimit'
  BY <1>1, HitLimit
<1>2. ASSUME NEW k \in Keys, NEW t \in Types, NEW n \in Sizes, NEW b \in BOOLEAN,
             Put(k, t, n, b)
      PROVE  EntriesWithinLimit'
  BY <1>2, PutLimit
<1>3. CASE EvictOne
  BY <1>3, FewerEntries DEF EvictOne, Drop
<1>4. CASE PutReturns
  <2>1. total_size <= MaxSize /\ inflight' = 0 /\ entries' = entries
    BY <1>4 DEF PutReturns
  <2>2. total_size \in Nat
    BY TotalNat
  <2> QED BY <2>1, <2>2, CacheAssumption DEF EntriesWithinLimit, total_size
<1>5. ASSUME NEW k \in Keys, NEW t \in Types, PutFails(k, t) PROVE EntriesWithinLimit'
  BY <1>5 DEF PutFails, EntriesWithinLimit, total_size
<1>6. ASSUME NEW k \in Keys, NEW t \in Types, Remove(k, t) PROVE EntriesWithinLimit'
  BY <1>6, FewerEntries DEF Remove, Drop
<1>7. CASE Clear
  BY <1>7, FewerEntries DEF Clear, Drop
<1>8. ASSUME NEW f \in Paths, FileDeleted(f) PROVE EntriesWithinLimit'
  BY <1>8 DEF FileDeleted, EntriesWithinLimit, total_size
<1>9. CASE Restart
  <2>1. DOMAIN entries' = {} /\ inflight' = 0
    BY <1>9 DEF Restart
  <2>2. (total_size)' = 0
    BY <2>1, SumEmpty DEF total_size, TotalOf, SumFunction
  <2> QED BY <2>1, <2>2, CacheAssumption DEF EntriesWithinLimit
<1>10. CASE UNCHANGED cvars
  BY <1>10 DEF cvars, EntriesWithinLimit, total_size
<1> QED BY <1>1, <1>2, <1>3, <1>4, <1>5, <1>6, <1>7, <1>8, <1>9, <1>10 DEF CNext

LEMMA LimitInit == CInit => LimitInv
<1> SUFFICES ASSUME CInit PROVE LimitInv
  OBVIOUS
<1>1. DOMAIN entries = {} /\ inflight = 0
  BY DEF CInit
<1> QED BY <1>1, NoEntriesLimit, CInitInv DEF LimitInv

(* The entries are within the limit, and in the course of a put within the  *)
(* limit and the data that is put.                                         *)
THEOREM EntriesFit == CSpec => []LimitInv
<1> QED BY LimitInit, LimitNext, PTL DEF CSpec

(* The files that are not lost have each an entry of their size.           *)
LEMMA DiskFits == ASSUME LimitInv PROVE DiskWithinLimit
<1> DEFINE F == DOMAIN disk
           m == [f \in F |-> disk[f].by]
           a == [f \in F |-> disk[f].size]
           b == [s \in DOMAIN entries |-> entries[s].size]
<1>1. IsFiniteSet(DOMAIN entries) /\ \A s \in DOMAIN entries : b[s] \in Nat
  BY StampsFinite, CacheAssumption DEF LimitInv, CInv, CTypeOK, Entry
<1>2. \A f \in F : m[f] \in DOMAIN entries /\ a[f] = b[m[f]] /\ path_of(entries[m[f]]) = f
  BY DEF LimitInv, CInv, FilesHaveTheirEntry
<1>3. \A f, g \in F : m[f] = m[g] => f = g
  BY <1>2
<1>4. m \in [F -> DOMAIN entries]
  BY <1>2
<1>5. DOMAIN a = F /\ DOMAIN b = DOMAIN entries
  OBVIOUS
<1>6. total_size = SumFunctionOnSet(b, DOMAIN entries)
  BY DEF total_size, TotalOf, SumFunction
<1>7. SumFunction(a) = SumFunctionOnSet(a, F)
  BY DEF SumFunction
<1>8. DiskWithinLimit <=> SumFunction(a) <= MaxSize + inflight
  BY DEF DiskWithinLimit
<1> HIDE DEF F, m, a, b
<1>9. m \in Injection(F, DOMAIN entries)
  BY <1>3, <1>4 DEF Injection, IsInjective
<1>10. IsFiniteSet(F)
  BY <1>1, <1>9, FS_Injection
<1>11. SumFunctionOnSet(a, F) <= SumFunctionOnSet(b, DOMAIN entries)
  BY <1>1, <1>2, <1>3, <1>10, SumInto
<1>12. SumFunctionOnSet(a, F) \in Nat /\ SumFunctionOnSet(b, DOMAIN entries) \in Nat
  <2>1. \A f \in F : a[f] \in Nat
    BY <1>1, <1>2
  <2> QED BY <1>1, <1>10, <2>1, SumNat
<1>13. MaxSize + inflight \in Nat
  BY CacheAssumption DEF LimitInv, CInv, CTypeOK
<1> QED BY <1>6, <1>7, <1>8, <1>11, <1>12, <1>13 DEF LimitInv, EntriesWithinLimit

(* The files of this process that are not lost exceed the limit by the data *)
(* of the put in progress at most, for any limit and sizes, and although   *)
(* the cache adds up the sizes of entries that share a file or have lost   *)
(* theirs.                                                                 *)
THEOREM DiskStaysWithinLimit == CSpec => []DiskWithinLimit
<1> QED BY EntriesFit, DiskFits, PTL

-----------------------------------------------------------------------------
(* The order of the eviction.  Counts do not change in the course of a put, *)
(* so the entry whose turn it is bounds those that went before it.         *)
LEMMA OrderNext == CInv /\ CInv' /\ LeastUsedGoFirst /\ [CNext]_cvars => LeastUsedGoFirst'
<1> SUFFICES ASSUME CTypeOK, CTypeOK', LeastUsedGoFirst, [CNext]_cvars PROVE LeastUsedGoFirst'
  BY DEF CInv
<1>1. CASE mutex' = "free"
  <2>1. most' = 0 /\ \A s \in DOMAIN entries' : entries'[s].count \in Nat
    BY <1>1 DEF CTypeOK, Entry
  <2> QED BY <2>1 DEF LeastUsedGoFirst
<1>2. ASSUME NEW k \in Keys, NEW t \in Types, NEW n \in Sizes, NEW b \in BOOLEAN,
             Put(k, t, n, b)
      PROVE  LeastUsedGoFirst'
  <2>1. most' = 0
    BY <1>2 DEF Put, CTypeOK
  <2>2. \A s \in DOMAIN entries' : entries'[s].count \in Nat
    BY DEF CTypeOK, Entry
  <2> QED BY <2>1, <2>2 DEF LeastUsedGoFirst
<1>3. CASE EvictOne
  <2>1. PICK s \in DOMAIN entries :
          /\ \A r \in DOMAIN entries : ~ goes_before(r, s)
          /\ entries' = Restrict(entries, DOMAIN entries \ {s})
          /\ most' = IF entries[s].count > most THEN entries[s].count ELSE most
    BY <1>3 DEF EvictOne, Drop
  <2>2. most \in Nat /\ \A r \in DOMAIN entries : entries[r].count \in Nat
    BY DEF CTypeOK, Entry
  <2>3. \A r \in DOMAIN entries' : r \in DOMAIN entries /\ entries'[r] = entries[r]
    BY <2>1 DEF Restrict
  <2>4. \A r \in DOMAIN entries : entries[s].count <= entries[r].count /\ most <= entries[r].count
    BY <2>1, <2>2 DEF goes_before, LeastUsedGoFirst
  <2> QED BY <2>1, <2>2, <2>3, <2>4 DEF LeastUsedGoFirst
<1>4. ASSUME NEW f \in Paths, FileDeleted(f) PROVE LeastUsedGoFirst'
  BY <1>4 DEF FileDeleted, LeastUsedGoFirst
<1>5. CASE UNCHANGED cvars
  BY <1>5 DEF cvars, LeastUsedGoFirst
<1> QED BY <1>1, <1>2, <1>3, <1>4, <1>5
        DEF CNext, GetHit, PutReturns, PutFails, Remove, Clear, Restart

(* For any sizes, limit and history of hits, a put evicts nothing that was  *)
(* used more often than something it leaves.                               *)
THEOREM LeastUsedGoFirstHolds == CSpec => []LeastUsedGoFirst
<1>1. CInit => LeastUsedGoFirst
  BY DEF CInit, LeastUsedGoFirst
<1> QED BY <1>1, OrderNext, CacheInvariant, PTL DEF CSpec
===============================================================================
