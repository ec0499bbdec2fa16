------------------------------- MODULE Network -------------------------------
(***************************************************************************)
(* The monitor task of cmd_daemon (src/main.rs) with what it calls: the    *)
(* probes' verdict (src/monitor), the metrics engine (src/metrics.rs) and  *)
(* the rule engine (src/rule_engine.rs).  IPC clients take snapshots of    *)
(* the metrics meanwhile.                                                  *)
(*                                                                         *)
(* The metrics are atomics and a mutex that is only ever tried: whenever   *)
(* another task may be inside, try_lock().unwrap() may panic, which ends   *)
(* the monitor task; nobody restarts it.                                   *)
(***************************************************************************)
EXTENDS Integers, Sequences, FiniteSets

CONSTANTS
  Targets,    \* PING_TARGETS, pinged PING_COUNT times each
  Answers,    \* what the probes may find: replies, http, latency, dns
  Failing,    \* a network on which a probe returns an error
  Cooldown,   \* of the default rules, in iterations (30 s)
  LogSize,    \* of last_triggered (1000)
  MaxFlips,   \* bound: changes of the network
  MaxTime     \* bound: where the clock stops

PING_COUNT == 4
Probes == Cardinality(Targets) * PING_COUNT

ASSUME NetworkAssumption ==
  /\ IsFiniteSet(Targets) /\ Targets # {}
  /\ Answers \subseteq [replies : Nat, http : BOOLEAN, latency : Nat, dns : BOOLEAN]
  /\ Failing \notin Answers
  /\ Cooldown \in Nat /\ LogSize \in Nat \ {0}
  /\ MaxFlips \in Nat /\ MaxTime \in Nat

VARIABLES
  net,         \* the network: what probes find now
  flips,       \* changes of the network so far
  now,         \* Instant::now(), in iterations
  pc,          \* where the monitor task is
  was_online,  \* its verdict of the last iteration
  reading,     \* NetworkStatus of this iteration
  is_online,   \* MetricsEngine.is_online
  reconnects,  \* MetricsEngine.reconnect_count
  inner,       \* MetricsInner: last_online, last_offline and the two
               \* totals
  fired,       \* RuleEngine.last_triggered: pairs of a rule and a time
  hits,        \* the evaluations of this iteration: rules that fired
  lost,        \* InternetLost events published
  recovered,   \* InternetRecovered events published
  snapped      \* history: a snapshot was taken

mvars == <<is_online, reconnects, inner>>
nvars == <<net, flips, now, pc, was_online, reading, mvars, fired, hits,
           lost, recovered, snapped>>

-----------------------------------------------------------------------------
(* The probes. *)

(* Loss in percent, rounded down, which moves no count of replies over a    *)
(* threshold of the source's 12 probes.  Duplicates count as replies, and  *)
(* total_probes - succeeded is a usize: a release build wraps round to a   *)
(* number beyond every threshold, a debug build panics (see Collect).      *)
Wrapped == 1000
loss(a) ==
  IF a.replies > Probes THEN Wrapped
  ELSE ((Probes - a.replies) * 100) \div Probes

Status(l, latency, dns) == [loss |-> l, latency |-> latency, dns |-> dns]

(* check_connectivity, with the HTTP fallback when no ping is answered. *)
check_connectivity(a) ==
  IF a.replies > 0 THEN Status(loss(a), a.latency, a.dns)
  ELSE IF a.http THEN Status(0, a.latency, a.dns)
  ELSE Status(100, 0, a.dns)

(* What stands for an error of a probe. *)
Unknown == Status(100, 0, FALSE)

(* The NetworkStatus of an iteration. *)
measured(n) == IF n = Failing THEN Unknown ELSE check_connectivity(n)

(* collect_network_status: the status. *)
verdict(s) ==
  IF s.loss >= 80 THEN "Offline"
  ELSE IF s.loss > 10 \/ s.latency > 500 THEN "Degraded"
  ELSE "Online"

-----------------------------------------------------------------------------
(* The rules of load_defaults. *)
Rules == {"high-latency", "high-packet-loss", "offline-queue", "recovered",
          "dns-failure", "degraded-notify"}

(* Condition::evaluate of a rule. *)
condition(rule, s) ==
  CASE rule = "high-latency" -> s.latency > 500
    [] rule = "high-packet-loss" -> s.loss > 30
    [] rule = "offline-queue" -> verdict(s) = "Offline"
    [] rule = "recovered" -> verdict(s) = "Online" /\ s.loss < 10
    [] rule = "dns-failure" -> ~ s.dns
    [] rule = "degraded-notify" -> verdict(s) = "Degraded"
Order == <<"high-latency", "high-packet-loss", "offline-queue", "recovered",
           "dns-failure", "degraded-notify">>

(* last_triggered.iter().find(..): the first entry of a rule decides. *)
decides(log, n) == \A m \in 1 .. n - 1 : log[m][1] # log[n][1]

(* Mutant: a rule that never fired counts as just fired. *)
cooling_FromTheStart(log, rule) ==
  \A n \in DOMAIN log :
    log[n][1] = rule /\ decides(log, n) => now - log[n][2] < Cooldown

(* The cooldown of a rule, measured from its first entry in the log. *)
cooling(log, rule) ==
  \E n \in DOMAIN log :
    log[n][1] = rule /\ decides(log, n) /\ now - log[n][2] < Cooldown

(* Mutant: nothing leaves the log. *)
visit_Unbounded(e, rule, s) ==
  IF cooling(e.log, rule) \/ ~ condition(rule, s) THEN e
  ELSE [log |-> Append(e.log, <<rule, now>>), hits |-> e.hits \cup {rule}]

(* One rule in evaluate: the log and the evaluations after it. *)
visit(e, rule, s) ==
  IF cooling(e.log, rule) \/ ~ condition(rule, s) THEN e
  ELSE LET longer == Append(e.log, <<rule, now>>) IN
       [log |-> IF Len(longer) > LogSize THEN Tail(longer) ELSE longer,
        hits |-> e.hits \cup {rule}]

(* RuleEngine::evaluate: every rule in the order they were added.  (What it *)
(* may lead to, as a set: there is always one outcome.)                    *)
evaluate(log, s) ==
  LET after[n \in 0 .. Len(Order)] ==
        IF n = 0 THEN {[log |-> log, hits |-> {}]}
        ELSE {visit(e, Order[n], s) : e \in after[n - 1]}
  IN after[Len(Order)]

-----------------------------------------------------------------------------
None == -1

NInit ==
  /\ net \in Answers \cup {Failing} /\ flips = 0 /\ now = 0
  /\ pc = "collect" /\ was_online = TRUE /\ reading = Unknown
  /\ is_online = FALSE /\ reconnects = 0
  /\ inner = [last_online |-> None, last_offline |-> None,
              total_uptime |-> 0, total_downtime |-> 0]
  /\ fired = << >> /\ hits = {}
  /\ lost = 0 /\ recovered = 0 /\ snapped = FALSE

NetChanges ==
  /\ flips < MaxFlips
  /\ flips' = flips + 1
  /\ net' \in (Answers \cup {Failing}) \ {net}
  /\ UNCHANGED <<now, pc, was_online, reading, mvars, fired, hits, lost,
                 recovered, snapped>>

-----------------------------------------------------------------------------
(* The monitor task. *)

GoTo(place) == pc' = place

(* Mutant: an iteration whose probes fail is skipped. *)
Collect_SkipsErrors ==
  /\ pc = "collect"
  /\ reading' = measured(net)
  /\ GoTo(IF net = Failing THEN "sleep" ELSE "record") \/ GoTo("dead")
  /\ UNCHANGED <<net, flips, now, was_online, mvars, fired, hits, lost,
                 recovered, snapped>>

(* collect_network_status, or what stands for its error, and               *)
(* record_connectivity, which may panic; a debug build may panic in the    *)
(* subtraction.                                                            *)
Collect ==
  /\ pc = "collect"
  /\ reading' = measured(net)
  /\ GoTo("record") \/ GoTo("dead")
  /\ UNCHANGED <<net, flips, now, was_online, mvars, fired, hits, lost,
                 recovered, snapped>>

Online == verdict(reading) = "Online"

(* The atomics of record_online and record_offline, called when the verdict *)
(* differs from the last one; the mutex comes after them, and only if they *)
(* changed.                                                                *)
Record ==
  /\ pc = "record"
  /\ IF Online # was_online /\ Online # is_online
       THEN /\ is_online' = Online
            /\ reconnects' = IF Online THEN reconnects + 1 ELSE reconnects
            /\ GoTo("totals")
       ELSE GoTo("announce") /\ UNCHANGED <<is_online, reconnects>>
  /\ UNCHANGED <<net, flips, now, was_online, reading, inner, fired, hits, lost,
                 recovered, snapped>>

(* Since an instant that may be None. *)
since(at) == IF at = None THEN 0 ELSE now - at

(* Mutant: the downtime is counted from the last recovery. *)
totals_FromRecovery(i) ==
  IF Online
    THEN [i EXCEPT !.last_online = now,
                   !.total_downtime = @ + since(i.last_online)]
    ELSE [i EXCEPT !.last_offline = now,
                   !.total_uptime = @ + since(i.last_online)]

(* record_online and record_offline under the mutex. *)
totals(i) ==
  IF Online
    THEN [i EXCEPT !.last_online = now,
                   !.total_downtime = @ + since(i.last_offline)]
    ELSE [i EXCEPT !.last_offline = now,
                   !.total_uptime = @ + since(i.last_online)]

RecordTotals ==
  /\ pc = "totals"
  /\ \/ inner' = totals(inner) /\ GoTo("announce")
     \/ UNCHANGED inner /\ GoTo("dead")
  /\ UNCHANGED <<net, flips, now, was_online, reading, is_online, reconnects,
                 fired, hits, lost, recovered, snapped>>

(* Mutant: the verdict is not kept for the next iteration. *)
Announce_Forgets ==
  /\ pc = "announce"
  /\ lost' = IF was_online /\ ~ Online THEN lost + 1 ELSE lost
  /\ recovered' = IF ~ was_online /\ Online THEN recovered + 1 ELSE recovered
  /\ \E e \in evaluate(fired, reading) : fired' = e.log /\ hits' = e.hits
  /\ GoTo("sleep")
  /\ UNCHANGED <<net, flips, now, was_online, reading, mvars, snapped>>

(* The event, the rules (what they ask for is dropped), was_online. *)
Announce ==
  /\ pc = "announce"
  /\ lost' = IF was_online /\ ~ Online THEN lost + 1 ELSE lost
  /\ recovered' = IF ~ was_online /\ Online THEN recovered + 1 ELSE recovered
  /\ \E e \in evaluate(fired, reading) : fired' = e.log /\ hits' = e.hits
  /\ was_online' = Online
  /\ GoTo("sleep")
  /\ UNCHANGED <<net, flips, now, reading, mvars, snapped>>

(* sleep(monitor_interval), the only wait that takes noticeable time. *)
Sleep ==
  /\ pc = "sleep"
  /\ now' = IF now < MaxTime THEN now + 1 ELSE now
  /\ GoTo("collect")
  /\ UNCHANGED <<net, flips, was_online, reading, mvars, fired, hits, lost,
                 recovered, snapped>>

Monitor == Collect \/ Record \/ RecordTotals \/ Announce \/ Sleep

(* MetricsEngine::snapshot by an IPC client; if it panics, its own task     *)
(* ends.                                                                   *)
Snapshot ==
  /\ snapped' = TRUE
  /\ inner' = IF is_online
                THEN IF inner.last_online = None THEN inner
                     ELSE [inner EXCEPT !.total_uptime = since(inner.last_online)]
                ELSE IF inner.last_offline = None THEN inner
                     ELSE [inner EXCEPT !.total_downtime = since(inner.last_offline)]
  /\ UNCHANGED <<net, flips, now, pc, was_online, reading, is_online,
                 reconnects, fired, hits, lost, recovered>>

NNext == NetChanges \/ Monitor \/ Snapshot

(* tokio schedules the monitor task and its sleeps end. *)
NSpec == NInit /\ [][NNext]_nvars /\ WF_nvars(Monitor)

-----------------------------------------------------------------------------
(* The variables of the task, of the metrics and of the rules keep their    *)
(* types.                                                                  *)
NTypeOK ==
  /\ pc \in {"collect", "record", "totals", "announce", "sleep", "dead"}
  /\ was_online \in BOOLEAN /\ is_online \in BOOLEAN
  /\ inner \in [last_online : None .. MaxTime, last_offline : None .. MaxTime,
                total_uptime : Nat, total_downtime : Nat]
  /\ fired \in Seq(Rules \X (0 .. MaxTime)) /\ Len(fired) <= LogSize
  /\ hits \subseteq Rules

(* The metrics and the bus tell the same story, although one compares with  *)
(* is_online, which starts FALSE, and the other with was_online, which     *)
(* starts TRUE: losses and recoveries alternate, a loss first, and the     *)
(* reconnects are the recoveries, but for one whose event is on its way.   *)
MetricsMatchEvents ==
  /\ lost = recovered + (IF was_online THEN 0 ELSE 1)
  /\ reconnects - recovered \in {0, 1}
  /\ pc \in {"collect", "sleep"} =>
       /\ reconnects = recovered
       /\ is_online = (was_online /\ recovered > 0)

(* As long as nobody took a snapshot, uptime and downtime are disjoint      *)
(* stretches of the daemon's life.  (A snapshot overwrites the totals with *)
(* the current stretch, which is then added once more.)                    *)
TotalsWithinLife ==
  ~ snapped => inner.total_uptime + inner.total_downtime <= now

(* A rule whose condition holds is silent only if it fired within the last  *)
(* cooldown: the first entry of the log, which decides, and the entries    *)
(* that dropped out of it never mute a rule for longer.                    *)
MutedByRecentFiring ==
  [][pc = "announce" /\ pc' = "sleep" =>
       \A rule \in Rules :
         condition(rule, reading) /\ rule \notin hits' =>
           \E i \in DOMAIN fired : fired[i][1] = rule /\ now - fired[i][2] < Cooldown]_nvars

(* Once the network stays as it is, the task's verdict is the network's for *)
(* good, so a lasting loss or recovery is announced, unless the task has   *)
(* panicked.                                                               *)
VerdictCatchesUp ==
  \A n \in Answers \cup {Failing} :
    <>[](net = n) =>
      <>[](pc = "dead" \/ was_online = (verdict(measured(n)) = "Online"))
=============================================================================
