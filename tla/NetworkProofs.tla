---------------------------- MODULE NetworkProofs ----------------------------
(***************************************************************************)
(* Proofs about Network and AdaptiveScheduler.                             *)
(*   - The metrics and the events agree and, before the first snapshot,    *)
(*     uptime and downtime do not overlap.  Both need to know how far the  *)
(*     task is within an iteration: between the swap of is_online and the  *)
(*     end of the iteration the two accounts differ by what is still to be *)
(*     done.                                                               *)
(*   - A rule is muted by a recent firing only: through the six visits of  *)
(*     evaluate, what is new in the log is of rules already visited, so    *)
(*     the entry that mutes a rule was there before.                       *)
(*   - The scheduler's suggestion fits: each of its steps is monotone in   *)
(*     the quality and in the failures.                                    *)
(***************************************************************************)
EXTENDS AdaptiveScheduler, FiniteSetTheorems, TLAPS

(* Types, without the rules: their log plays no part in the accounts. *)
TaskTypes ==
  /\ pc \in {"collect", "record", "totals", "announce", "sleep", "dead"}
  /\ was_online \in BOOLEAN /\ is_online \in BOOLEAN /\ snapped \in BOOLEAN
  /\ lost \in Nat /\ recovered \in Nat /\ reconnects \in Nat /\ now \in Nat
  /\ inner \in [last_online : Int, last_offline : Int,
                total_uptime : Nat, total_downtime : Nat]
  /\ inner.last_online \in {None} \cup 0 .. now
  /\ inner.last_offline \in {None} \cup 0 .. now

(* What the atomics have counted and the bus has not been told. *)
Accounts ==
  /\ lost = recovered + (IF was_online THEN 0 ELSE 1)
  /\ reconnects - recovered \in {0, 1}
  /\ pc \in {"collect", "record", "sleep"} =>
       reconnects = recovered /\ is_online = (was_online /\ recovered > 0)
  /\ pc = "totals" => Online # was_online
  /\ pc \in {"totals", "announce"} =>
       /\ reconnects = recovered + (IF Online /\ ~ was_online THEN 1 ELSE 0)
       /\ is_online = (IF Online = was_online THEN was_online /\ recovered > 0
                       ELSE Online)

(* The state the totals are up to date with. *)
Counted == IF pc = "totals" THEN ~ Online ELSE is_online

(* The totals end where the current stretch begins. *)
Stretches ==
  ~ snapped =>
    /\ inner.total_uptime + inner.total_downtime <= now
    /\ pc # "dead" =>
         LET begin == IF Counted THEN inner.last_online ELSE inner.last_offline IN
         IF begin = None THEN inner.total_uptime + inner.total_downtime = 0
         ELSE inner.total_uptime + inner.total_downtime <= begin

NInv == TaskTypes /\ Accounts /\ Stretches

-----------------------------------------------------------------------------
LEMMA NInitInv == NInit => NInv
<1> SUFFICES ASSUME NInit PROVE NInv
  OBVIOUS
<1>1. TaskTypes
  <2>1. was_online \in BOOLEAN /\ is_online \in BOOLEAN /\ snapped \in BOOLEAN
    BY DEF NInit
  <2>2. pc = "collect" /\ lost = 0 /\ recovered = 0 /\ reconnects = 0 /\ now = 0
    BY DEF NInit
  <2>3. inner = [last_online |-> None, last_offline |-> None,
                 total_uptime |-> 0, total_downtime |-> 0]
    BY DEF NInit
  <2> QED BY <2>1, <2>2, <2>3 DEF TaskTypes, None
<1>0. pc = "collect" /\ pc \notin {"totals", "announce"}
  BY DEF NInit
<1>2. Accounts
  <2>1. lost = 0 /\ recovered = 0 /\ reconnects = 0 /\ was_online = TRUE
    BY DEF NInit
  <2>2. is_online = FALSE
    BY DEF NInit
  <2>3. ~ (recovered > 0)
    BY <2>1
  <2>4. is_online = (was_online /\ recovered > 0)
    BY <2>2, <2>3, Zenon
  <2> QED BY <1>0, <2>1, <2>4 DEF Accounts
<1>3. Counted = is_online
  BY <1>0, Zenon DEF Counted
<1>4. Stretches
  BY <1>3 DEF NInit, Stretches, None
<1> QED BY <1>1, <1>2, <1>4 DEF NInv

LEMMA NStep == NInv /\ [NNext]_nvars => NInv'
<1> SUFFICES ASSUME NInv, [NNext]_nvars PROVE NInv'
  OBVIOUS
<1>a. NetworkAssumption
  BY NetworkAssumption
<1>1. ASSUME NetChanges PROVE NInv'
  BY <1>1 DEF NetChanges, mvars, NInv, TaskTypes, Accounts, Stretches, Counted, Online
<1>2. ASSUME Collect PROVE NInv'
  BY <1>2 DEF Collect, GoTo, mvars, NInv, TaskTypes, Accounts, Stretches, Counted
<1>3. ASSUME Record PROVE NInv'
  <2>1. Online \in BOOLEAN /\ Online' = Online
    BY <1>3 DEF Record, Online
  <2>2. TaskTypes'
    BY <1>3, <2>1 DEF Record, GoTo, NInv, TaskTypes
  <2>3. Accounts'
    BY <1>3, <2>1 DEF Record, GoTo, NInv, TaskTypes, Accounts
  <2>4. Counted' = Counted
    BY <1>3, <2>1 DEF Record, GoTo, NInv, TaskTypes, Counted
  <2>5. Stretches'
    BY <1>3, <2>4 DEF Record, NInv, Stretches
  <2> QED BY <2>2, <2>3, <2>5 DEF NInv
<1>4. ASSUME RecordTotals PROVE NInv'
  <2>1. Online \in BOOLEAN /\ Online' = Online
    BY <1>4 DEF RecordTotals, Online
  <2>2. CASE inner' = totals(inner) /\ GoTo("announce")
    <3>1. TaskTypes'
      <4>1. since(inner.last_online) \in Nat /\ since(inner.last_offline) \in Nat
        BY DEF since, None, NInv, TaskTypes
      <4>2. totals(inner) \in [last_online : Int, last_offline : Int,
                              total_uptime : Nat, total_downtime : Nat]
        <5>1. /\ now \in Int
              /\ inner.total_downtime + since(inner.last_offline) \in Nat
              /\ inner.total_uptime + since(inner.last_online) \in Nat
          BY <4>1 DEF NInv, TaskTypes
        <5>2. CASE Online
          BY <5>1, <5>2 DEF totals, NInv, TaskTypes
        <5>3. CASE ~ Online
          BY <5>1, <5>3 DEF totals, NInv, TaskTypes
        <5> QED BY <5>2, <5>3
      <4>3. /\ totals(inner).last_online \in {None} \cup 0 .. now
            /\ totals(inner).last_offline \in {None} \cup 0 .. now
        BY DEF totals, None, NInv, TaskTypes
      <4> QED BY <1>4, <2>2, <4>2, <4>3 DEF RecordTotals, GoTo, NInv, TaskTypes
    <3>2. Accounts'
      BY <1>4, <2>1, <2>2 DEF RecordTotals, GoTo, NInv, TaskTypes, Accounts
    <3>3. Stretches'
      BY <1>4, <2>1, <2>2
      DEF RecordTotals, GoTo, totals, since, None, NInv, TaskTypes, Accounts,
          Stretches, Counted
    <3> QED BY <3>1, <3>2, <3>3 DEF NInv
  <2>3. CASE UNCHANGED inner /\ GoTo("dead")
    BY <1>4, <2>3 DEF RecordTotals, GoTo, NInv, TaskTypes, Accounts, Stretches
  <2> QED BY <1>4, <2>2, <2>3 DEF RecordTotals
<1>5. ASSUME Announce PROVE NInv'
  BY <1>5 DEF Announce, GoTo, mvars, NInv, TaskTypes, Accounts, Stretches, Counted,
              Online
<1>6. ASSUME Sleep PROVE NInv'
  BY <1>6, <1>a DEF Sleep, GoTo, mvars, NInv, TaskTypes, Accounts, Stretches,
              Counted, NetworkAssumption
<1>7. ASSUME Snapshot PROVE NInv'
  BY <1>7 DEF Snapshot, since, None, NInv, TaskTypes, Accounts, Stretches, Counted,
              Online
<1>8. CASE UNCHANGED nvars
  BY <1>8 DEF nvars, mvars, NInv, TaskTypes, Accounts, Stretches, Counted, Online
<1> QED BY <1>1, <1>2, <1>3, <1>4, <1>5, <1>6, <1>7, <1>8 DEF NNext, Monitor

(* The invariant holds in every behaviour. *)
THEOREM NetworkInvariant == NSpec => []NInv
BY NInitInv, NStep, PTL DEF NSpec

(* However the network changes and wherever the task dies, the events on    *)
(* the bus and the metrics account for the same losses and recoveries.     *)
THEOREM MetricsAndEventsAgree == NSpec => []MetricsMatchEvents
<1>1. NInv => MetricsMatchEvents
  BY DEF NInv, TaskTypes, Accounts, MetricsMatchEvents
<1> QED BY <1>1, NetworkInvariant, PTL

(* Before the first snapshot, uptime and downtime fit into the daemon's     *)
(* life.                                                                   *)
THEOREM TotalsAreDisjoint == NSpec => []TotalsWithinLife
<1>1. NInv => TotalsWithinLife
  BY DEF NInv, Stretches, TotalsWithinLife
<1> QED BY <1>1, NetworkInvariant, PTL

-----------------------------------------------------------------------------
(* What the probes read.                                                   *)
Readings == [loss : Nat, latency : Nat, dns : BOOLEAN]

LEMMA MeasuredType == ASSUME NEW n \in Answers \cup {Failing} PROVE measured(n) \in Readings
<1>1. Probes \in Nat /\ Probes > 0
  <2>1. Cardinality(Targets) \in Nat /\ Cardinality(Targets) # 0
    BY NetworkAssumption, FS_CardinalityType, FS_EmptySet
  <2> QED BY <2>1 DEF Probes, PING_COUNT
<1>2. CASE n = Failing
  BY <1>2 DEF measured, Unknown, Status, Readings
<1>3. CASE n # Failing
  <2>1. n \in [replies : Nat, http : BOOLEAN, latency : Nat, dns : BOOLEAN]
    BY <1>3, NetworkAssumption
  <2>2. loss(n) \in Nat
    <3>1. CASE n.replies > Probes
      BY <3>1 DEF loss, Wrapped
    <3>2. CASE ~ (n.replies > Probes)
      <4> DEFINE P == Probes
                 x == (P - n.replies) * 100
      <4>1. x \in Nat /\ P \in Nat /\ P > 0
        BY <1>1, <2>1, <3>2
      <4>2. loss(n) = x \div P
        BY <3>2 DEF loss
      <4> HIDE DEF x, P
      <4>3. x \div P \in Nat
        BY <4>1
      <4> QED BY <4>2, <4>3
    <3> QED BY <3>1, <3>2
  <2> QED BY <1>3, <2>1, <2>2 DEF measured, check_connectivity, Status, Readings
<1> QED BY <1>2, <1>3

-----------------------------------------------------------------------------
(* The rules.                                                              *)
Logs == {log \in Seq(Rules \X (0 .. MaxTime)) : Len(log) <= LogSize}

(* A rule with a recent entry in the log.                                  *)
Recent(log, rule) ==
  \E i \in DOMAIN log : log[i][1] = rule /\ now - log[i][2] < Cooldown

(* What holds after n visits: what is new in the log is of visited rules,   *)
(* and of those the silent ones had fired.                                 *)
Visited(e, n, log, s) ==
  /\ e.log \in Logs /\ e.hits \subseteq Rules
  /\ \A i \in DOMAIN e.log :
       \/ \E j \in DOMAIN log : e.log[i] = log[j]
       \/ \E m \in 1 .. n : e.log[i][1] = Order[m]
  /\ \A m \in 1 .. n :
       condition(Order[m], s) /\ Order[m] \notin e.hits => Recent(log, Order[m])

LEMMA OrderFacts ==
  /\ Len(Order) = 6
  /\ \A m, n \in 1 .. 6 : Order[m] = Order[n] => m = n
  /\ Rules = {Order[m] : m \in 1 .. 6}
<1>1. /\ Len(Order) = 6
      /\ Order[1] = "high-latency" /\ Order[2] = "high-packet-loss"
      /\ Order[3] = "offline-queue" /\ Order[4] = "recovered"
      /\ Order[5] = "dns-failure" /\ Order[6] = "degraded-notify"
  BY DEF Order
<1>2. \A m \in 1 .. 6 : m \in {1, 2, 3, 4, 5, 6}
  OBVIOUS
<1>3. \A m, n \in {1, 2, 3, 4, 5, 6} : Order[m] = Order[n] => m = n
  BY <1>1
<1>4. Rules = {Order[m] : m \in 1 .. 6}
  BY <1>1 DEF Rules
<1> QED BY <1>1, <1>2, <1>3, <1>4

LEMMA VisitStep ==
  ASSUME NEW log \in Logs, NEW s, NEW n \in 1 .. 6, NEW e, Visited(e, n - 1, log, s),
         now \in 0 .. MaxTime
  PROVE  Visited(visit(e, Order[n], s), n, log, s)
<1> DEFINE rule == Order[n]
<1>1. rule \in Rules /\ \A m \in 1 .. n - 1 : Order[m] # rule
  BY OrderFacts
<1>2. CASE cooling(e.log, rule)
  <2>1. visit(e, rule, s) = e
    BY <1>2 DEF visit
  <2>2. Recent(log, rule)
    <3>1. PICK i \in DOMAIN e.log : e.log[i][1] = rule /\ now - e.log[i][2] < Cooldown
      BY <1>2 DEF cooling
    <3>2. PICK j \in DOMAIN log : e.log[i] = log[j]
      BY <1>1, <3>1 DEF Visited
    <3> QED BY <3>1, <3>2 DEF Recent
  <2> QED BY <2>1, <2>2 DEF Visited
<1>3. CASE ~ condition(rule, s)
  <2>1. visit(e, rule, s) = e
    BY <1>3 DEF visit
  <2> QED BY <2>1, <1>3 DEF Visited
<1>4. CASE ~ cooling(e.log, rule) /\ condition(rule, s)
  <2> DEFINE longer == Append(e.log, <<rule, now>>)
             l == IF Len(longer) > LogSize THEN Tail(longer) ELSE longer
  <2>1. visit(e, rule, s) = [log |-> l, hits |-> e.hits \cup {rule}]
    BY <1>4 DEF visit
  <2>2. e.log \in Seq(Rules \X (0 .. MaxTime)) /\ Len(e.log) <= LogSize
    BY DEF Visited, Logs
  <2>3. /\ longer \in Seq(Rules \X (0 .. MaxTime)) /\ Len(longer) = Len(e.log) + 1
        /\ \A i \in DOMAIN longer : \/ i \in DOMAIN e.log /\ longer[i] = e.log[i]
                                    \/ longer[i] = <<rule, now>>
    BY <1>1, <2>2
  <2> HIDE DEF longer
  <2>4. /\ l \in Logs
        /\ \A i \in DOMAIN l : \E k \in DOMAIN longer : l[i] = longer[k]
    <3>1. CASE Len(longer) > LogSize
      <4>1. Tail(longer) \in Seq(Rules \X (0 .. MaxTime)) /\ Len(Tail(longer)) = Len(longer) - 1
            /\ \A i \in DOMAIN Tail(longer) : i + 1 \in DOMAIN longer
                                              /\ Tail(longer)[i] = longer[i + 1]
        BY <2>3, <3>1, NetworkAssumption
      <4> QED BY <2>2, <2>3, <3>1, <4>1, NetworkAssumption DEF Logs
    <3>2. CASE ~ (Len(longer) > LogSize)
      BY <2>3, <3>2, NetworkAssumption DEF Logs
    <3> QED BY <3>1, <3>2
  <2>5. \A i \in DOMAIN l : (\E j \in DOMAIN log : l[i] = log[j])
                            \/ (\E m \in 1 .. n : l[i][1] = Order[m])
    <3> TAKE i \in DOMAIN l
    <3>1. PICK k \in DOMAIN longer : l[i] = longer[k]
      BY <2>4
    <3>2. CASE longer[k] = <<rule, now>>
      BY <3>1, <3>2
    <3>3. CASE k \in DOMAIN e.log /\ longer[k] = e.log[k]
      BY <3>1, <3>3 DEF Visited
    <3> QED BY <2>3, <3>2, <3>3
  <2> HIDE DEF l
  <2>6. \A m \in 1 .. n : condition(Order[m], s) /\ Order[m] \notin e.hits \cup {rule}
                            => Recent(log, Order[m])
    BY DEF Visited
  <2>7. e.hits \cup {rule} \subseteq Rules
    BY <1>1 DEF Visited
  <2> QED BY <2>1, <2>4, <2>5, <2>6, <2>7 DEF Visited
<1> QED BY <1>2, <1>3, <1>4

(* f leads from a log to what evaluate makes of it, visit by visit.        *)
Visits(f, log, s) ==
  /\ f[0] = {[log |-> log, hits |-> {}]}
  /\ \A n \in 1 .. 6 : f[n] = {visit(e, Order[n], s) : e \in f[n - 1]}
  /\ evaluate(log, s) = f[6]

(* The recursion of evaluate has a solution.                               *)
LEMMA EvaluateVisits == ASSUME NEW log, NEW s PROVE \E f : Visits(f, log, s)
<1> DEFINE next(es, n) == {visit(e, Order[n], s) : e \in es}
           start == {[log |-> log, hits |-> {}]}
           body(g) == [n \in 0 .. Len(Order) |-> IF n = 0 THEN start ELSE next(g[n - 1], n)]
           f == CHOOSE g : g = body(g)
<1>1. evaluate(log, s) = f[Len(Order)]
  BY DEF evaluate
<1> HIDE DEF next, start
<1>2. \E g : g = body(g)
  <2> DEFINE s1 == next(start, 1)
             s2 == next(s1, 2)
             s3 == next(s2, 3)
             s4 == next(s3, 4)
             s5 == next(s4, 5)
             s6 == next(s5, 6)
             g == [n \in 0 .. 6 |-> IF n = 0 THEN start ELSE IF n = 1 THEN s1
                     ELSE IF n = 2 THEN s2 ELSE IF n = 3 THEN s3
                     ELSE IF n = 4 THEN s4 ELSE IF n = 5 THEN s5 ELSE s6]
  <2>1. g[0] = start /\ g[1] = s1 /\ g[2] = s2 /\ g[3] = s3 /\ g[4] = s4 /\ g[5] = s5
        /\ g[6] = s6
    <3> HIDE DEF s1, s2, s3, s4, s5, s6
    <3> QED OBVIOUS
  <2>2. DOMAIN g = 0 .. 6 /\ g = [n \in 0 .. 6 |-> g[n]]
    OBVIOUS
  <2> HIDE DEF g
  <2>3. \A n \in 0 .. 6 : g[n] = IF n = 0 THEN start ELSE next(g[n - 1], n)
    <3> TAKE n \in 0 .. 6
    <3>1. n = 0 \/ n = 1 \/ n = 2 \/ n = 3 \/ n = 4 \/ n = 5 \/ n = 6
      OBVIOUS
    <3> QED BY <2>1, <3>1
  <2> HIDE DEF s1, s2, s3, s4, s5, s6
  <2>4. body(g) = [n \in 0 .. 6 |-> g[n]]
    BY <2>3, OrderFacts
  <2> HIDE DEF body
  <2> QED BY <2>2, <2>4
<1>3. f = body(f)
  BY <1>2
<1> HIDE DEF f
<1>4. f[0] = start /\ \A n \in 1 .. 6 : f[n] = next(f[n - 1], n)
  <2>1. /\ body(f)[0] = start
        /\ \A n \in 1 .. 6 : body(f)[n] = next(f[n - 1], n)
    BY OrderFacts
  <2> HIDE DEF body
  <2> QED BY <1>3, <2>1
<1> QED BY <1>1, <1>4, OrderFacts DEF next, start, Visits

LEMMA Evaluated ==
  ASSUME NEW log \in Logs, NEW s, now \in 0 .. MaxTime
  PROVE  \A e \in evaluate(log, s) : Visited(e, 6, log, s)
<1>1. PICK f : Visits(f, log, s)
  BY EvaluateVisits
<1> DEFINE Good(n) == \A e \in f[n] : Visited(e, n, log, s)
<1>2. Good(0)
  BY <1>1 DEF Visited, Visits
<1>3. ASSUME NEW n \in 1 .. 6, Good(n - 1) PROVE Good(n)
  BY <1>1, <1>3, VisitStep DEF Visits
<1> HIDE DEF Good
<1>4. Good(1)
  BY <1>2, <1>3
<1>5. Good(2)
  BY <1>3, <1>4
<1>6. Good(3)
  BY <1>3, <1>5
<1>7. Good(4)
  BY <1>3, <1>6
<1>8. Good(5)
  BY <1>3, <1>7
<1>9. Good(6)
  BY <1>3, <1>8
<1> QED BY <1>1, <1>9 DEF Good, Visits

-----------------------------------------------------------------------------
(* The types of the whole, rules and readings included.                    *)
NAllTypes ==
  /\ NInv
  /\ now \in 0 .. MaxTime /\ net \in Answers \cup {Failing} /\ reading \in Readings
  /\ fired \in Logs /\ hits \subseteq Rules

LEMMA NAllTypesInit == NInit => NAllTypes
BY NInitInv, NetworkAssumption DEF NInit, NAllTypes, Unknown, Status, Readings, Logs

LEMMA NAllTypesStep == NAllTypes /\ [NNext]_nvars => NAllTypes'
<1> SUFFICES ASSUME NAllTypes, [NNext]_nvars PROVE NAllTypes'
  OBVIOUS
<1>0. NInv'
  BY NStep DEF NAllTypes
<1> USE DEF NAllTypes
<1>1. ASSUME NetChanges PROVE NAllTypes'
  BY <1>0, <1>1 DEF NetChanges
<1>2. ASSUME Collect PROVE NAllTypes'
  BY <1>0, <1>2, MeasuredType DEF Collect
<1>3. ASSUME Record PROVE NAllTypes'
  BY <1>0, <1>3 DEF Record
<1>4. ASSUME RecordTotals PROVE NAllTypes'
  BY <1>0, <1>4 DEF RecordTotals
<1>5. ASSUME Announce PROVE NAllTypes'
  <2>1. PICK e \in evaluate(fired, reading) : fired' = e.log /\ hits' = e.hits
    BY <1>5 DEF Announce
  <2>2. Visited(e, 6, fired, reading)
    BY <2>1, Evaluated
  <2> QED BY <1>0, <1>5, <2>1, <2>2 DEF Announce, Visited
<1>6. ASSUME Sleep PROVE NAllTypes'
  BY <1>0, <1>6, NetworkAssumption DEF Sleep
<1>7. ASSUME Snapshot PROVE NAllTypes'
  BY <1>0, <1>7 DEF Snapshot
<1>8. CASE UNCHANGED nvars
  BY <1>0, <1>8 DEF nvars
<1> QED BY <1>1, <1>2, <1>3, <1>4, <1>5, <1>6, <1>7, <1>8 DEF NNext, Monitor

(* The task, the probes, the metrics and the rules together.               *)
THEOREM NetworkAllTypes == NSpec => []NAllTypes
BY NAllTypesInit, NAllTypesStep, PTL DEF NSpec

(* The task's place, the metrics' instants and the log of the rules keep    *)
(* their types, whatever the cooldown and the size of the log.             *)
THEOREM NetworkTypes == NSpec => []NTypeOK
<1>1. NAllTypes => NTypeOK
  <2> SUFFICES ASSUME NAllTypes PROVE NTypeOK
    OBVIOUS
  <2>1. inner \in [last_online : None .. MaxTime, last_offline : None .. MaxTime,
                   total_uptime : Nat, total_downtime : Nat]
    BY NetworkAssumption DEF NAllTypes, NInv, TaskTypes, None
  <2> QED BY <2>1 DEF NTypeOK, NAllTypes, NInv, TaskTypes, Logs
<1> QED BY <1>1, NetworkAllTypes, PTL

(* No rule is muted but by a firing of its own within the last cooldown,    *)
(* although only the first of its entries is looked at, and entries of     *)
(* other rules push old ones out during the same evaluation.               *)
THEOREM RulesAreNotMutedLonger == NSpec => MutedByRecentFiring
<1> DEFINE Muted ==
      pc = "announce" /\ pc' = "sleep" =>
        \A rule \in Rules :
          condition(rule, reading) /\ rule \notin hits' =>
            \E i \in DOMAIN fired : fired[i][1] = rule /\ now - fired[i][2] < Cooldown
<1>1. NAllTypes /\ [NNext]_nvars => [Muted]_nvars
  <2> SUFFICES ASSUME NAllTypes, [NNext]_nvars, pc = "announce", pc' = "sleep" PROVE Muted
    BY DEF Muted
  <2>1. Announce
    BY DEF NNext, Monitor, NetChanges, Collect, Record, RecordTotals, Sleep, Snapshot, GoTo,
           nvars
  <2>2. PICK e \in evaluate(fired, reading) : hits' = e.hits
    BY <2>1 DEF Announce
  <2>3. Visited(e, 6, fired, reading)
    BY <2>2, Evaluated DEF NAllTypes
  <2>4. \A m \in 1 .. 6 : condition(Order[m], reading) /\ Order[m] \notin hits'
                            => Recent(fired, Order[m])
    BY <2>2, <2>3 DEF Visited
  <2>5. \A rule \in Rules : condition(rule, reading) /\ rule \notin hits' => Recent(fired, rule)
    BY <2>4, OrderFacts
  <2> QED BY <2>5 DEF Recent
<1> QED BY <1>1, NetworkAllTypes, PTL DEF NSpec, MutedByRecentFiring

-----------------------------------------------------------------------------
(* The scheduler.                                                          *)
Settings == [max_concurrency : Nat, min_concurrency : Nat, cooldown : Nat, Good : Nat, Degraded : Nat,
             Bad : Nat]

(* What is suggested, from the number for the quality and the penalty.     *)
Suggested(c, cooling_down, m, p) ==
  AtMost(IF cooling_down THEN c.min_concurrency
         ELSE AtLeast(AtLeast(m - p, 0), c.min_concurrency),
         c.max_concurrency)

LEMMA SuggestedMonotone ==
  ASSUME NEW c \in Settings, NEW d \in BOOLEAN, NEW e \in BOOLEAN, d => e,
         NEW m \in Nat, NEW k \in Nat, m <= k, NEW p \in Nat, NEW q \in Nat, q <= p
  PROVE  /\ Suggested(c, d, m, p) <= Suggested(c, d, k, q)
         /\ Suggested(c, e, m, p) <= Suggested(c, d, k, q)
         /\ Suggested(c, d, m, p) <= c.max_concurrency
         /\ Suggested(c, d, m, p) >= AtMost(c.min_concurrency, c.max_concurrency)
BY DEF Suggested, AtMost, AtLeast, Settings

LEMMA SuggestionParts ==
  ASSUME NEW c \in Settings, NEW own, NEW s
  PROVE  /\ suggest_concurrency(c, own, s)
              = Suggested(c, in_cooldown(c, own), c[classify_quality(s)], failure_penalty(own))
         /\ c[classify_quality(s)] \in Nat
BY DEF suggest_concurrency, Suggested, classify_quality, Settings

LEMMA PenaltyMonotone ==
  ASSUME NEW own \in ScheduleInner
  PROVE  /\ failure_penalty(own) \in Nat /\ failure_penalty(record_failure(own)) \in Nat
         /\ failure_penalty(record_success(own)) \in Nat
         /\ failure_penalty(own) <= failure_penalty(record_failure(own))
         /\ failure_penalty(record_success(own)) <= failure_penalty(own)
         /\ own.just_failed \in BOOLEAN /\ record_failure(own).just_failed = TRUE
         /\ record_success(own).just_failed = own.just_failed
<1>1. own.recent_failures \in Nat /\ own.just_failed \in BOOLEAN
  BY SchedulerAssumption DEF ScheduleInner
<1>2. /\ record_failure(own).recent_failures = own.recent_failures + 1
      /\ record_success(own).recent_failures = 0
      /\ record_failure(own).just_failed = TRUE
      /\ record_success(own).just_failed = own.just_failed
  BY DEF record_failure, record_success, ScheduleInner
<1> QED BY <1>1, <1>2 DEF failure_penalty, AtMost

(* A reading no better than another is not classified better.              *)
LEMMA QualityMonotone ==
  ASSUME NEW c \in Settings, Ordered(c), NEW r \in Readings, NEW s \in Readings,
         NoBetter(r, s)
  PROVE  c[classify_quality(r)] <= c[classify_quality(s)]
<1>1. /\ r.loss \in Nat /\ r.latency \in Nat /\ s.loss \in Nat /\ s.latency \in Nat
      /\ c.Good \in Nat /\ c.Degraded \in Nat /\ c.Bad \in Nat
      /\ c.Good >= c.Degraded /\ c.Degraded >= c.Bad
  BY DEF Readings, Settings, Ordered
<1>2. \A x \in Readings : /\ verdict(x) = "Offline" <=> x.loss >= 80
                          /\ verdict(x) = "Degraded" <=> x.loss < 80 /\ (x.loss > 10 \/ x.latency > 500)
  BY DEF verdict, Readings
<1>3. r.loss >= 80 \/ (r.loss >= s.loss /\ r.latency >= s.latency)
  BY <1>2 DEF NoBetter
<1>4. classify_quality(r) = "Bad" \/ (r.loss < 50 /\ r.loss >= s.loss /\ r.latency >= s.latency)
  BY <1>1, <1>2, <1>3 DEF classify_quality
<1>5. c[classify_quality(s)] >= c.Bad
  BY <1>1 DEF classify_quality
<1>6. CASE classify_quality(r) = "Bad"
  BY <1>1, <1>5, <1>6 DEF Settings
<1>7. CASE r.loss < 50 /\ r.loss >= s.loss /\ r.latency >= s.latency
  <2>1. s.loss < 50 /\ classify_quality(s) # "Bad"
    BY <1>1, <1>2, <1>7 DEF classify_quality
  <2>2. classify_quality(s) = "Good" \/ classify_quality(r) # "Good"
    BY <1>1, <1>2, <1>7, <2>1 DEF classify_quality
  <2> QED BY <1>1, <2>1, <2>2 DEF classify_quality
<1> QED BY <1>4, <1>6, <1>7

(* For any settings, any failures and any reading, a suggestion is within   *)
(* the bounds, moves the right way after a failure and a success, and does *)
(* not grow as the network gets worse.                                     *)
THEOREM SuggestionsFit == NSpec => []SuggestionFits
<1>1. NAllTypes => SuggestionFits
  <2> SUFFICES ASSUME NAllTypes, NEW c \in Configs, NEW own \in ScheduleInner
               PROVE  LET suggested == suggest_concurrency(c, own, reading) IN
                      /\ suggested <= c.max_concurrency
                      /\ suggested >= AtMost(c.min_concurrency, c.max_concurrency)
                      /\ suggest_concurrency(c, record_failure(own), reading) <= suggested
                      /\ suggest_concurrency(c, record_success(own), reading) >= suggested
                      /\ \A n \in Answers \cup {Failing} :
                           Ordered(c) /\ NoBetter(reading, measured(n)) =>
                             suggested <= suggest_concurrency(c, own, measured(n))
    BY DEF SuggestionFits
  <2> DEFINE m == c[classify_quality(reading)]
             p == failure_penalty(own)
             d == in_cooldown(c, own)
             e == in_cooldown(c, record_failure(own))
  <2>1. c \in Settings /\ reading \in Readings
    BY SchedulerAssumption DEF Settings, NAllTypes
  <2>2. m \in Nat /\ suggest_concurrency(c, own, reading) = Suggested(c, d, m, p)
    BY <2>1, SuggestionParts
  <2>3. suggest_concurrency(c, record_failure(own), reading)
          = Suggested(c, e, m, failure_penalty(record_failure(own)))
    BY PenaltyMonotone DEF suggest_concurrency, Suggested
  <2>4. suggest_concurrency(c, record_success(own), reading)
          = Suggested(c, d, m, failure_penalty(record_success(own)))
    BY PenaltyMonotone DEF suggest_concurrency, Suggested, in_cooldown
  <2>5. d \in BOOLEAN /\ e \in BOOLEAN /\ (d => e)
    BY PenaltyMonotone DEF in_cooldown
  <2>6. /\ p \in Nat
        /\ failure_penalty(record_failure(own)) \in Nat
        /\ failure_penalty(record_success(own)) \in Nat
        /\ p <= failure_penalty(record_failure(own))
        /\ failure_penalty(record_success(own)) <= p
    BY PenaltyMonotone
  <2>7. ASSUME NEW n \in Answers \cup {Failing}, Ordered(c), NoBetter(reading, measured(n))
        PROVE  suggest_concurrency(c, own, reading) <= suggest_concurrency(c, own, measured(n))
    <3>1. measured(n) \in Readings
      BY MeasuredType
    <3> DEFINE k == c[classify_quality(measured(n))]
    <3>2. k \in Nat /\ suggest_concurrency(c, own, measured(n)) = Suggested(c, d, k, p)
      BY <2>1, SuggestionParts
    <3>3. m <= k
      BY <2>1, <2>7, <3>1, QualityMonotone
    <3> HIDE DEF m, k, p, d, e
    <3>4. p <= p
      BY <2>5, <2>6
    <3>5. Suggested(c, d, m, p) <= Suggested(c, d, k, p)
      BY <2>1, <2>2, <2>5, <2>6, <3>2, <3>3, <3>4, SuggestedMonotone
    <3> QED BY <2>2, <3>2, <3>5
  <2> HIDE DEF m, p, d, e
  <2>8. m <= m /\ p <= p
    BY <2>2, <2>5, <2>6
  <2>9. /\ Suggested(c, d, m, p) <= c.max_concurrency
        /\ Suggested(c, d, m, p) >= AtMost(c.min_concurrency, c.max_concurrency)
    BY <2>1, <2>2, <2>5, <2>6, <2>8, SuggestedMonotone
  <2>10. Suggested(c, e, m, failure_penalty(record_failure(own))) <= Suggested(c, d, m, p)
    BY <2>1, <2>2, <2>5, <2>6, <2>8, SuggestedMonotone
  <2>11. Suggested(c, d, m, p) <= Suggested(c, d, m, failure_penalty(record_success(own)))
    BY <2>1, <2>2, <2>5, <2>6, <2>8, SuggestedMonotone
  <2>12. /\ Suggested(c, d, m, p) \in Int
         /\ Suggested(c, d, m, failure_penalty(record_success(own))) \in Int
    BY <2>1, <2>2, <2>5, <2>6 DEF Suggested, AtMost, AtLeast, Settings
  <2> QED BY <2>2, <2>3, <2>4, <2>7, <2>9, <2>10, <2>11, <2>12
<1> QED BY <1>1, NetworkAllTypes, PTL
=============================================================================
