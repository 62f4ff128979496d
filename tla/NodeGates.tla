----------------------------- MODULE NodeGates -----------------------------
(***************************************************************************)
(* What lets a node take part in scheduling, for one node: the score gate  *)
(* and the schedule gate of smart routing (store/smart_routing.go), the    *)
(* probe rounds that move the score gate (edge/monitoring.go,              *)
(* store/monitoring.go), the administrator's commands, and the counts that *)
(* decide DNS eligibility (store.go).  Every handler is one transaction of *)
(* a database with a single connection, so the interleavings are those of  *)
(* whole handlers; a report may arrive late, after a newer one, or never.  *)
(***************************************************************************)
EXTENDS Naturals, Sequences, FiniteSets, TLC

CONSTANTS
  ProbeTargets,     \* addresses an administrator may have probed
  Scores,           \* the scores of a round, and the thresholds
  Configs,          \* the configurations administrators send
  FirstConfigs,     \* the configuration at the start is one of these
  MinResumeRounds,  \* SmartRoutingMinResumeRounds, 3 in the code
  WeekDays,         \* days of a week, 7 in the code
  DayMinutes,       \* minutes of a day, 1440 in the code
  MaxProbes,        \* bound: rounds the edge measures
  MaxInFlight,      \* bound: reports under way at a time
  MaxCommands,      \* bound: administrator's commands
  MaxChecks         \* bound: health checks recorded

ASSUME GatesAssumption ==
  /\ Scores \subseteq Nat \ {0}
  /\ {MinResumeRounds, WeekDays, DayMinutes} \subseteq Nat \ {0}
  /\ {MaxProbes, MaxInFlight, MaxCommands, MaxChecks} \subseteq Nat

VARIABLES
  moment,      \* minutes since the week began
  policy,      \* the row of node_smart_routing
  routed,      \* the node's row: its status and monitor_auto_paused
  leaving,     \* its uninstall job: "none", "waiting", or running since this status
  probeList,   \* the enabled monitoring targets
  edgeList,    \* the targets the edge holds
  rounds,      \* reports under way
  latest,      \* the row of node_monitoring_status
  probes,      \* rounds measured so far
  commands,    \* administrator's commands so far
  seen,        \* history: the scores since the streaks were last cleared
  blockedThen, \* history: whether the score gate was blocked at that time
  manualPause, \* history: the last manual command was a pause
  joined,      \* history: made active by other than routing, no round since
  handled,     \* history: times of the rounds accepted since the last reset
  health,      \* a row of node_health or site_node_health
  checks       \* history: the outcomes of its checks

routingVars == <<policy, routed, leaving, probeList, edgeList, rounds, latest, probes,
                 commands, seen, blockedThen, manualPause, joined, handled>>
gateVars == <<moment, routingVars, health, checks>>

NotLoaded == [loaded |-> FALSE, targets |-> {}]
NoRound == [at |-> 0, score |-> 0]

-----------------------------------------------------------------------------
(* The weekly schedule *)

Day(at) == (at \div DayMinutes) % WeekDays
Yesterday(day) == (day + WeekDays - 1) % WeekDays

\* SmartRoutingScheduleAllows: windows are open at the start and closed at the
\* end, reach into the next day when they end before they start, and last the
\* whole day when both are equal.
Allows(at, windows) ==
  LET minute == at % DayMinutes
      day == Day(at)
  IN  \E w \in windows :
        \/ w.start = w.end /\ day \in w.days
        \/ w.start < w.end /\ day \in w.days /\ w.start <= minute /\ minute < w.end
        \/ w.end < w.start /\ day \in w.days /\ minute >= w.start
        \/ w.end < w.start /\ Yesterday(day) \in w.days /\ minute < w.end

\* The bounds of the windows from yesterday to a day after the week.
Candidates(at, windows) ==
  LET Bounds(w, start) ==
        CASE w.start = w.end -> {start, start + DayMinutes}
          [] w.start < w.end -> {start + w.start, start + w.end}
          [] OTHER -> {start + w.start, start + w.end + DayMinutes}
      days == 0..(WeekDays + 2)
      first == (at \div DayMinutes) * DayMinutes
  IN  UNION {LET start == first + offset * DayMinutes IN
             UNION {Bounds(w, start) : w \in {w \in windows : Day(start) \in w.days}}
             : offset \in days}

\* SmartRoutingNextTransition: the first bound at which the schedule changes.
\* Time is shifted by a week to give yesterday a number.
NextTransition(at, windows) ==
  LET now == at + WeekDays * DayMinutes
      base == now - DayMinutes
      flips == {t \in Candidates(base, windows) :
                  t > now /\ Allows(t, windows) # Allows(now, windows)}
  IN  IF flips = {} THEN 0 ELSE (CHOOSE t \in flips : \A u \in flips : t <= u) - now

-----------------------------------------------------------------------------
(* The gates *)

\* NormalizeSmartRoutingConfig, as far as it refuses a configuration.
ValidRules(c) ==
  /\ c.resumeAt >= c.pauseBelow
  /\ c.pauseRounds >= 1 /\ c.resumeRounds >= MinResumeRounds
  /\ c.on => c.scoreOn \/ c.scheduleOn
  /\ c.scheduleOn => c.windows # {}
  /\ \A w \in c.windows : w.days # {}

BlockedBy(p) ==
  IF ~p.on THEN {}
  ELSE {reason \in {"score", "schedule"} :
          \/ reason = "score" /\ p.scoreOn /\ p.gate = "blocked"
          \/ reason = "schedule" /\ p.scheduleOn /\ p.scheduleGate = "closed"}

\* advanceSmartRoutingScore.
AdvanceScore(p, score) ==
  IF p.gate = "blocked"
  THEN LET recovery == IF score >= p.resumeAt THEN p.recovery + 1 ELSE 0
           needed == IF p.resumeRounds < MinResumeRounds THEN MinResumeRounds
                                                         ELSE p.resumeRounds
       IN  IF recovery >= needed
           THEN [p EXCEPT !.gate = "allowed", !.low = 0, !.recovery = 0]
           ELSE [p EXCEPT !.low = 0, !.recovery = recovery]
  ELSE LET low == IF score < p.pauseBelow THEN p.low + 1 ELSE 0 IN
       CASE low = 0 -> [p EXCEPT !.gate = "allowed", !.low = 0, !.recovery = 0]
         [] low >= p.pauseRounds -> [p EXCEPT !.gate = "blocked", !.low = 0, !.recovery = 0]
         [] OTHER -> [p EXCEPT !.low = low, !.recovery = 0]

ScheduleGate(p) == IF p.scheduleOn /\ ~Allows(moment, p.windows) THEN "closed" ELSE "open"

\* Mutant: a draining node is resumed whoever drained it.
ReconciledAnyPause(node, p) ==
  LET blocked == BlockedBy(p) # {} IN
  CASE node.status = "active" /\ blocked -> [status |-> "draining", auto |-> TRUE]
    [] node.status = "draining" /\ ~blocked -> [status |-> "active", auto |-> FALSE]
    [] node.status = "draining" -> node
    [] OTHER -> [node EXCEPT !.auto = FALSE]

\* reconcileSmartRoutingNodeTx: the node's row under this policy.
Reconciled(node, p) ==
  LET blocked == BlockedBy(p) # {} IN
  CASE node.status = "active" /\ blocked -> [status |-> "draining", auto |-> TRUE]
    [] node.status = "draining" /\ node.auto /\ ~blocked -> [status |-> "active", auto |-> FALSE]
    [] node.status = "draining" -> node
    [] OTHER -> [node EXCEPT !.auto = FALSE]

ScoreConfig(c) == <<c.scoreOn, c.pauseBelow, c.pauseRounds, c.resumeAt, c.resumeRounds>>

\* The policy under a new configuration.  A change of the score rules clears
\* the streaks and, unless the gate is blocked, judges the latest score anew.
WithConfig(p, c, fresh) ==
  LET configured == c @@ p
      cleared == [configured EXCEPT !.low = 0, !.recovery = 0,
                    !.gate = CASE ~c.scoreOn -> "allowed"
                               [] p.gate = "blocked" -> "blocked"
                               [] OTHER -> "unknown"]
      judged == c.scoreOn /\ p.gate # "blocked" /\ fresh
      scored == IF ScoreConfig(p) = ScoreConfig(c) THEN configured
                ELSE IF judged THEN AdvanceScore(cleared, latest.score) ELSE cleared
  IN  [scored EXCEPT !.scheduleGate = ScheduleGate(scored)]

-----------------------------------------------------------------------------
(* Transactions that move the gates *)

\* What every such transaction ends with.
Enforce(p) ==
  /\ policy' = p
  /\ routed' = Reconciled(routed, p)
  /\ joined' = FALSE

\* Mutant: a report is recorded in the order it arrives.
AcceptableAnyTime(r) == probeList # {} /\ r.targets = probeList

\* RecordMonitoringRound: the results of every enabled target, newer than the
\* round on record.
Acceptable(r) ==
  /\ probeList # {} /\ r.targets = probeList
  /\ latest.at < r.at

AcceptRound(r) ==
  /\ Acceptable(r)
  /\ latest' = [at |-> r.at, score |-> r.score]
  /\ handled' = handled \union {[at |-> r.at, score |-> r.score]}
  /\ IF policy.scoreOn
     THEN Enforce(AdvanceScore(policy, r.score)) /\ seen' = Append(seen, r.score)
     ELSE Enforce(policy) /\ UNCHANGED seen

\* edgeMonitoringReport: a refused report is forgotten by both sides.
ReceiveRound(r) ==
  /\ r \in rounds
  /\ rounds' = rounds \ {r}
  /\ \/ AcceptRound(r)
     \/ ~Acceptable(r) /\ UNCHANGED <<policy, routed, joined, latest, handled, seen>>
  /\ UNCHANGED <<moment, leaving, probeList, edgeList, probes, commands, blockedThen,
                 manualPause, health, checks>>

LoseRound(r) ==
  /\ r \in rounds
  /\ rounds' = rounds \ {r}
  /\ UNCHANGED <<moment, policy, routed, leaving, probeList, edgeList, latest, probes, commands,
                 seen, blockedThen, manualPause, joined, handled, health, checks>>

Command == commands < MaxCommands /\ commands' = commands + 1

\* UpdateSmartRoutingPolicy.  The latest score is fresh or too old to be used.
UpdatePolicy(c, fresh) ==
  /\ Command
  /\ ValidRules(c)
  /\ fresh => latest # NoRound
  /\ Enforce(WithConfig(policy, c, fresh))
  /\ IF ScoreConfig(policy) = ScoreConfig(c) THEN UNCHANGED <<seen, blockedThen>>
     ELSE /\ blockedThen' = (c.scoreOn /\ policy.gate = "blocked")
          /\ seen' = IF c.scoreOn /\ policy.gate # "blocked" /\ fresh THEN <<latest.score>> ELSE <<>>
  /\ UNCHANGED <<moment, leaving, probeList, edgeList, rounds, latest, probes, manualPause,
                 handled, health, checks>>

\* ReconcileSmartRouting, at the start of every health round.
ReconcileRouting ==
  /\ Enforce([policy EXCEPT !.scheduleGate = ScheduleGate(policy)])
  /\ UNCHANGED <<moment, leaving, probeList, edgeList, rounds, latest, probes, commands, seen,
                 blockedThen, manualPause, handled, health, checks>>

TakenOver(p) == [p EXCEPT !.on = FALSE]

\* SetNodeStatusManual: smart routing is turned off and its pause forgotten in
\* the same transaction.
SetStatus(status) ==
  /\ Command
  /\ routed.status # "uninstalling"
  /\ leaving # "none" => status \in {routed.status, "revoked"}
  /\ policy' = TakenOver(policy)
  /\ routed' = [status |-> status, auto |-> FALSE]
  /\ manualPause' = (status # "active")
  /\ joined' = FALSE
  /\ UNCHANGED <<moment, leaving, probeList, edgeList, rounds, latest, probes, seen,
                 blockedThen, handled, health, checks>>

\* resetMonitoringStateTx, with what it belongs to: a target is created,
\* removed, enabled or disabled.  The streaks are cleared, the gate is kept.
ChangeProbeList(list) ==
  /\ Command
  /\ Cardinality((list \ probeList) \union (probeList \ list)) = 1
  /\ probeList' = list
  /\ policy' = [policy EXCEPT !.low = 0, !.recovery = 0]
  /\ latest' = NoRound
  /\ handled' = {}
  /\ seen' = <<>>
  /\ blockedThen' = (policy.gate = "blocked")
  /\ UNCHANGED <<moment, routed, leaving, edgeList, rounds, probes, manualPause, joined,
                 health, checks>>

-----------------------------------------------------------------------------
(* The edge's probe rounds *)

\* Agent.monitor: the list is pulled again, or believed to be current; nothing
\* is measured without targets.
ProbeRound(pulls) ==
  LET list == IF pulls THEN probeList ELSE edgeList.targets IN
  /\ probes < MaxProbes
  /\ Cardinality(rounds) < MaxInFlight
  /\ pulls \/ edgeList.loaded
  /\ edgeList' = [loaded |-> TRUE, targets |-> list]
  /\ probes' = probes + 1
  /\ \/ list = {} /\ UNCHANGED rounds
     \/ list # {} /\ \E score \in Scores :
          rounds' = rounds \union {[at |-> probes + 1, score |-> score, targets |-> list]}
  /\ UNCHANGED <<moment, policy, routed, leaving, probeList, latest, commands, seen,
                 blockedThen, manualPause, joined, handled, health, checks>>

-----------------------------------------------------------------------------
(* What else changes the node's row, or decides about DNS *)

\* The first heartbeat of a pending node.
JoinNode ==
  /\ routed.status = "pending"
  /\ routed' = [routed EXCEPT !.status = "active"]
  /\ joined' = TRUE
  /\ manualPause' = FALSE
  /\ UNCHANGED <<moment, policy, leaving, probeList, edgeList, rounds, latest, probes, commands,
                 seen, blockedThen, handled, health, checks>>

\* PrepareNodeUninstall, StartNodeUninstall, FailNodeUninstall and
\* CancelNodeUninstall, as far as they touch the node's status.
UninstallStep ==
  /\ Command
  /\ \/ /\ leaving = "none" /\ routed.status \in {"draining", "revoked"}
        /\ leaving' = "waiting" /\ UNCHANGED routed
     \/ /\ leaving = "waiting"
        /\ leaving' = "none" /\ UNCHANGED routed
     \/ /\ leaving = "waiting" /\ routed.status \in {"draining", "revoked"}
        /\ leaving' = routed.status /\ routed' = [routed EXCEPT !.status = "uninstalling"]
     \/ /\ routed.status = "uninstalling"
        /\ leaving' = "waiting" /\ routed' = [routed EXCEPT !.status = leaving]
  /\ UNCHANGED <<moment, policy, probeList, edgeList, rounds, latest, probes, seen, blockedThen,
                 manualPause, joined, handled, health, checks>>

\* The clock reaches another minute of the week; only a schedule reads it.
Pass ==
  /\ policy.scheduleOn
  /\ moment' = (moment + 1) % (WeekDays * DayMinutes)
  /\ UNCHANGED <<routingVars, health, checks>>

\* Mutant: a failure does not break a run of successes.
CountedLoosely(h, healthy) ==
  IF healthy
  THEN [successes |-> h.successes + 1, failures |-> 0, eligible |-> h.eligible \/ h.successes >= 4]
  ELSE [successes |-> h.successes, failures |-> h.failures + 1,
        eligible |-> h.eligible /\ h.failures < 2]

\* RecordNodeHealth, RecordSiteNodeHealth and RecordSiteNodeIPv6Health count
\* alike: five successes in a row make eligible, three failures end it.
Counted(h, healthy) ==
  IF healthy
  THEN [successes |-> h.successes + 1, failures |-> 0, eligible |-> h.eligible \/ h.successes >= 4]
  ELSE [successes |-> 0, failures |-> h.failures + 1, eligible |-> h.eligible /\ h.failures < 2]

RecordHealth(healthy) ==
  /\ Len(checks) < MaxChecks
  /\ health' = Counted(health, healthy)
  /\ checks' = Append(checks, healthy)
  /\ UNCHANGED <<moment, routingVars>>

-----------------------------------------------------------------------------
(* Specification *)

\* DefaultSmartRoutingConfig, unless the administrator has sent another one
\* before the first round.
GatesInit ==
  /\ moment \in 0..(WeekDays * DayMinutes - 1)
  /\ \E c \in {c \in FirstConfigs : ValidRules(c)} :
       policy = c @@ [gate |-> "unknown", low |-> 0, recovery |-> 0, scheduleGate |-> "open"]
  /\ routed = [status |-> "pending", auto |-> FALSE]
  /\ leaving = "none"
  /\ probeList \in SUBSET ProbeTargets
  /\ edgeList = NotLoaded
  /\ rounds = {} /\ latest = NoRound /\ handled = {}
  /\ probes = 0 /\ commands = 0
  /\ seen = <<>> /\ blockedThen = FALSE
  /\ manualPause = FALSE /\ joined = FALSE
  /\ health = [successes |-> 0, failures |-> 0, eligible |-> FALSE]
  /\ checks = <<>>

RoutingNext ==
  \/ \E r \in rounds : ReceiveRound(r) \/ LoseRound(r)
  \/ \E c \in Configs, fresh \in BOOLEAN : UpdatePolicy(c, fresh)
  \/ ReconcileRouting
  \/ \E status \in {"active", "draining", "revoked"} : SetStatus(status)
  \/ \E list \in SUBSET ProbeTargets : ChangeProbeList(list)
  \/ \E pulls \in BOOLEAN : ProbeRound(pulls)
  \/ JoinNode \/ UninstallStep \/ Pass

HealthNext == \E healthy \in BOOLEAN : RecordHealth(healthy)

-----------------------------------------------------------------------------
(* Properties *)

\* The last run of "length" outcomes of this kind ends at this position, 0 if
\* there is none: the reference for everything that counts in a row.
LastRun(s, length, Kind(_)) ==
  LET ends == {i \in length..Len(s) : \A j \in (i - length + 1)..i : Kind(s[j])}
  IN  IF ends = {} THEN 0 ELSE CHOOSE i \in ends : \A j \in ends : j <= i

\* The score gate is blocked exactly when the rules say so of the scores since
\* the streaks were cleared: the last run of low scores that is long enough
\* ended after the last long enough run of good ones.
GateEarned ==
  LET Low(score) == score < policy.pauseBelow
      Good(score) == score >= policy.resumeAt
      low == LastRun(seen, policy.pauseRounds, Low)
      good == LastRun(seen, policy.resumeRounds, Good)
  IN  policy.gate = "blocked" <=> \/ low > good
                                  \/ blockedThen /\ low = 0 /\ good = 0

\* The score on record is that of the newest round handled since the targets
\* last changed, in whatever order the reports arrive.
NewestRoundStands == \A r \in handled : r.at <= latest.at

\* A node that takes part is let in by every gate that is switched on, but for
\* one that has just joined; and smart routing resumes no node that an
\* administrator paused.
GatesRespected ==
  /\ routed.status = "active" => BlockedBy(policy) = {} \/ joined
  /\ manualPause => routed.status # "active"

\* DNS eligibility follows the last run that decides: five successes or three
\* failures, whatever came between.
EligibilityEarned ==
  LET Healthy(c) == c
      Failed(c) == ~c
  IN  health.eligible <=> LastRun(checks, 5, Healthy) > LastRun(checks, 3, Failed)

\* The next transition announced for a schedule is the first minute at which it
\* changes, and there is none only if it never does.
TransitionsExact ==
  LET next == NextTransition(moment, policy.windows)
      Differs(t) == Allows(moment + t, policy.windows) # Allows(moment, policy.windows)
      week == WeekDays * DayMinutes
      until == IF next = 0 THEN week ELSE next - 1
  IN  /\ next > 0 => Differs(next)
      /\ \A t \in 1..until : ~Differs(t)

GatesTypeOK ==
  /\ policy.gate \in {"unknown", "allowed", "blocked"}
  /\ policy.low \in 0..MaxProbes /\ policy.recovery \in 0..MaxProbes
  /\ routed \in [status : {"pending", "active", "draining", "revoked", "uninstalling"},
                 auto : BOOLEAN]
  /\ routed.auto => routed.status # "active"

\* A node is scheduled as its gates say, and the gates say what was measured.
GatesHold ==
  /\ GatesTypeOK
  /\ GateEarned
  /\ NewestRoundStands
  /\ GatesRespected
  /\ EligibilityEarned
  /\ TransitionsExact
=============================================================================
