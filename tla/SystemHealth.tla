---------------------------- MODULE SystemHealth ----------------------------
(***************************************************************************)
(* The health center (control/system_health.go, store/system_health.go):   *)
(* the verdicts of its checks over what the controller has observed, the   *)
(* snapshot that keeps each problem's first sighting and the recoveries,   *)
(* and the answer an administrator gets, also when collection fails or     *)
(* stands still.  A time is a number of collection intervals, Never = 0.   *)
(***************************************************************************)
EXTENDS Naturals, Sequences, FiniteSets

CONSTANTS
  CheckIds,         \* checks whose history is followed
  Assigned,          \* nodes a site is assigned to
  Now,              \* the time of the verdicts
  HeartbeatAge, ProbeAge, TaskAge, RunAge, BackupAge,   \* limits of freshness
  Skew,             \* how far a time may lie ahead
  Soon, Renewal,    \* limits of a certificate's remaining time
  Validity,         \* how long a snapshot counts as current
  Retention,        \* how long recoveries are kept
  MaxTicks          \* bound: time of the snapshots

ASSUME HealthCenterAssumption ==
  /\ {Now, HeartbeatAge, ProbeAge, TaskAge, RunAge, BackupAge, Skew, Soon, Renewal,
      Validity, Retention, MaxTicks} \subseteq Nat
  /\ Soon <= Renewal
  /\ Now > 2    \* no recent time of a case is Never

VARIABLES
  review,      \* a case for the verdicts
  tick,        \* the controller's clock
  saved,       \* system_health_snapshot
  lastError,   \* the last collection failed, in memory
  past         \* history: the collections that were saved

healthCenterVars == <<review, tick, saved, lastError, past>>

Never == 0
Attention == {"critical", "warning", "unknown"}
Verdicts == Attention \union {"healthy", "disabled"}
Rank(v) == CASE v = "critical" -> 0 [] v = "warning" -> 1 [] v = "unknown" -> 2
             [] v = "healthy" -> 3 [] v = "disabled" -> 4
Fresh(at, now, age) == at # Never /\ at <= now + Skew /\ now <= at + age

-----------------------------------------------------------------------------
(* Verdicts *)

HeartbeatVerdict(node, now) ==
  IF ~node.active THEN "disabled"
  ELSE IF node.beat = Never \/ node.beat > now + Skew THEN "unknown"
  ELSE IF ~Fresh(node.beat, now, HeartbeatAge) THEN "critical"
  ELSE "healthy"

ConfigurationVerdict(node, now) ==
  IF ~node.active THEN "disabled"
  ELSE IF ~Fresh(node.beat, now, HeartbeatAge) \/ (node.desired = 0 /\ node.serves) THEN "unknown"
  ELSE IF node.error \/ node.applied < node.desired THEN "warning"
  ELSE "healthy"

\* A probe counts when it, the node's own probe and the heartbeat are recent,
\* and it is not from before the publication.
Observed(site, node, now) ==
  /\ Fresh(node.siteProbe.at, now, ProbeAge) /\ Fresh(node.nodeProbe.at, now, ProbeAge)
  /\ Fresh(node.beat, now, HeartbeatAge)
  /\ node.siteProbe.at >= site.publishedAt
Passing(node) == node.siteProbe.ok /\ node.nodeProbe.ok
Serving(site, nodes) ==
  {n \in DOMAIN nodes : nodes[n].active /\ (site.ipv6 => nodes[n].ipv6)}

\* Mutant: a probe that passed once counts however old it is.
AnyPassing(site, nodes, now) == {n \in Serving(site, nodes) : Passing(nodes[n])}

Confirmed(site, nodes, now) ==
  {n \in Serving(site, nodes) : Observed(site, nodes[n], now) /\ Passing(nodes[n])}

AvailabilityVerdict(site, nodes, now) ==
  LET unknown == {n \in Serving(site, nodes) : ~Observed(site, nodes[n], now)}
      healthy == Confirmed(site, nodes, now)
  IN IF ~site.live THEN "disabled"
     ELSE IF Serving(site, nodes) = {} THEN "critical"
     ELSE IF healthy = {} THEN IF unknown # {} THEN "unknown" ELSE "critical"
     ELSE IF healthy # Serving(site, nodes) THEN "warning"
     ELSE "healthy"

\* A deployment task.
TaskVerdict(task, now) ==
  IF task.status = "failed" THEN "warning"
  ELSE IF /\ task.status = "active"
          /\ (task.deadline < now \/ now > task.updated + TaskAge) THEN "warning"
  ELSE "healthy"

\* Mutant: the certificate that was issued last counts, published or not.
NewestExpiry(site) == IF site.issued = {} THEN {} ELSE {c.notAfter : c \in site.issued}

\* The published certificate's expiry, or the issued one's before a publication.
ServingExpiry(site) ==
  IF site.published THEN site.serving ELSE {c.notAfter : c \in site.issued}

\* A failed task counts unless a certificate has come in since.
CertificateVerdict(site, tasks, now) ==
  LET left == {IF e <= now THEN 0 ELSE e - now : e \in ServingExpiry(site)}
      byExpiry == IF left = {} THEN IF site.published THEN "unknown" ELSE "disabled"
                  ELSE IF \E e \in left : e <= Soon THEN "critical"
                  ELSE IF \E e \in left : e <= Renewal THEN "warning"
                  ELSE "healthy"
      late == \E t \in tasks : /\ \A c \in site.issued : c.updated <= t.updated
                               /\ TaskVerdict(t, now) = "warning"
  IN IF ~site.live THEN "disabled"
     ELSE IF late /\ Rank(byExpiry) > Rank("warning") THEN "warning"
     ELSE byExpiry

UpgradeVerdict(task, now) ==
  IF ~task.managed THEN "disabled"
  ELSE IF task.status = "failed" \/ (task.status = "active" /\ now > task.deadline) THEN "warning"
  ELSE "healthy"

RolloutVerdict(rollout, now) ==
  CASE rollout.state \in {"none", "cancelled"} -> "disabled"
    [] rollout.state = "paused" -> "warning"
    [] rollout.state = "running" ->
         IF Fresh(rollout.updated, now, ProbeAge) THEN "healthy" ELSE "unknown"
    [] rollout.state = "finished" -> "healthy"

\* The last round of the health loop.
ReconcilerVerdict(round, now) ==
  IF ~Fresh(round.finished, now, ProbeAge) THEN "unknown"
  ELSE IF round.errors THEN "warning" ELSE "healthy"

\* evaluateBackupHealth: the state of the backup runs.
BackupState(run, now) ==
  IF run.updated > now + Skew \/ run.succeeded > now + Skew THEN "unknown"
  ELSE IF run.state = "active" /\ now >= run.started + RunAge THEN "stalled"
  ELSE IF run.succeeded # Never /\ now >= run.succeeded + BackupAge THEN "stale"
  ELSE IF run.state = "failed" THEN "failed"
  ELSE IF run.state = "active" THEN "running"
  ELSE IF run.succeeded # Never THEN "healthy" ELSE "unknown"

BackupVerdict(run, now) ==
  CASE BackupState(run, now) = "unknown" -> "unknown"
    [] BackupState(run, now) \in {"stale", "stalled", "failed"} -> "warning"
    [] OTHER -> IF run.succeeded = Never THEN "unknown" ELSE "healthy"

-----------------------------------------------------------------------------
(* The snapshot *)

NeedsAttention(v) == v \in Attention

\* Mutant: another severity of the same problem is a new problem.
SameVerdict(before, v) == v = before

\* The problem, or the good state, goes on.
GoesOn(before, v) == v = before \/ (NeedsAttention(v) /\ NeedsAttention(before))

\* A problem that is over: the check passes, or it was disabled or removed.
Recovery(c, outcome) ==
  [check |-> c, from |-> saved.checks[c].verdict, outcome |-> outcome,
   started |-> saved.checks[c].since, finished |-> tick]

\* Mutant: only checks that are still there are compared.
Ended(verdicts) ==
  {c \in DOMAIN saved.checks \intersect DOMAIN verdicts :
     NeedsAttention(saved.checks[c].verdict) /\ ~NeedsAttention(verdicts[c])}

Over(verdicts) ==
  {c \in DOMAIN saved.checks :
     /\ NeedsAttention(saved.checks[c].verdict)
     /\ c \in DOMAIN verdicts => ~NeedsAttention(verdicts[c])}

HowEnded(c, verdicts) ==
  IF c \in DOMAIN verdicts /\ verdicts[c] # "disabled" THEN "resolved" ELSE "retired"

\* SaveSystemHealthSnapshot, in one transaction.
Saved(verdicts) ==
  [at |-> tick,
   checks |-> [c \in DOMAIN verdicts |->
     [verdict |-> verdicts[c],
      since |-> IF c \in DOMAIN saved.checks /\ GoesOn(saved.checks[c].verdict, verdicts[c])
                THEN saved.checks[c].since ELSE tick]],
   recoveries |-> {r \in saved.recoveries
                     \union {Recovery(c, HowEnded(c, verdicts)) : c \in Over(verdicts)} :
                   r.finished + Retention > tick}]

\* Collect: the collection time must advance.
CollectHealth(verdicts) ==
  /\ tick > saved.at
  /\ saved' = Saved(verdicts) /\ lastError' = FALSE
  /\ past' = Append(past, [at |-> tick, verdicts |-> verdicts])
  /\ UNCHANGED <<review, tick>>

\* Reading the inputs or saving fails, or the clock has not advanced.
CollectFails == lastError' = TRUE /\ UNCHANGED <<review, tick, saved, past>>

RestartHealthCenter == lastError' = FALSE /\ UNCHANGED <<review, tick, saved, past>>

\* The clock goes on, or is set back.
PassTime == /\ tick' \in {t \in {tick + 1, tick - 2} : t \in 1..MaxTicks}
            /\ UNCHANGED <<review, saved, lastError, past>>

-----------------------------------------------------------------------------
(* The answer *)

Stale == saved.at = Never \/ tick >= saved.at + Validity \/ saved.at > tick + Skew

\* Mutant: a stale snapshot is presented as it was saved.
AsSaved(c) == saved.checks[c].verdict

\* Known problems stay; what was good is unknown once the snapshot is stale.
Presented(c) ==
  IF Stale /\ saved.checks[c].verdict = "healthy" THEN "unknown" ELSE saved.checks[c].verdict

\* The checks of the answer, that of the collection itself among them.
Answer == {Presented(c) : c \in DOMAIN saved.checks}
            \union (IF Stale \/ lastError THEN {"unknown"} ELSE {})

\* finalizeSystemHealth.
Overall == IF Answer = {} THEN "unknown"
           ELSE CHOOSE v \in Answer : \A w \in Answer : Rank(v) <= Rank(w)

-----------------------------------------------------------------------------

Times == {Never, 1, Now - HeartbeatAge - 1, Now - 1, Now + Skew + 1}
Probes == [at : {Never, Now - HeartbeatAge - 1, Now - 1}, ok : BOOLEAN]
NodeCases ==
  [active : BOOLEAN, ipv6 : BOOLEAN, beat : {1, Now - 1}, nodeProbe : [at : {1, Now - 1}, ok : BOOLEAN],
   siteProbe : Probes]
Tasks == [status : {"failed", "active", "done"}, updated : {1, Now - 2}, deadline : {Now - 1, Now + 1}]
Maybe(S) == {{}} \union {{x} : x \in S}
Expiries == {Now, Now + Soon, Now + Renewal, Now + Renewal + 1}

NoCase == [kind |-> "none"]

\* What one consistent read of the database can give the verdicts.
ReviewCases ==
  [kind : {"node"}, node : [active : BOOLEAN, beat : Times, desired : 0..2, applied : 0..2,
                            serves : BOOLEAN, error : BOOLEAN]]
  \union [kind : {"site"}, site : [live : {TRUE}, ipv6 : BOOLEAN, publishedAt : {1, Now - 2}],
          nodes : [Assigned -> NodeCases]]
  \union [kind : {"certificate"}, tasks : Maybe(Tasks),
          site : [live : {TRUE}, published : BOOLEAN, serving : Maybe(Expiries),
                  issued : Maybe([notAfter : Expiries, updated : {1, Now - 1}])]]
  \union [kind : {"backup"}, run : [state : {"active", "failed", "succeeded"}, started : Times,
                                    updated : Times, succeeded : Times]]
  \union [kind : {"upgrade"}, task : {[t EXCEPT !.managed = TRUE] : t \in
            [managed : {TRUE}, status : {"failed", "active", "done"}, deadline : Times]},
          rollout : [state : {"none", "cancelled", "paused", "running", "finished"}, updated : Times],
          round : [finished : Times, errors : BOOLEAN]]

\* The history does not depend on the cases of the verdicts.
HealthCenterInit ==
  /\ review \in ReviewCases \union {NoCase}
  /\ tick = 1 /\ lastError = FALSE /\ past = <<>>
  /\ saved = [at |-> Never, checks |-> [c \in {} |-> [verdict |-> "unknown", since |-> Never]],
              recoveries |-> {}]

SnapshotNext ==
  \/ \E S \in SUBSET CheckIds : \E verdicts \in [S -> Verdicts] : CollectHealth(verdicts)
  \/ CollectFails \/ RestartHealthCenter \/ PassTime

HealthCenterSpec == HealthCenterInit /\ [][SnapshotNext]_healthCenterVars

-----------------------------------------------------------------------------
(* Properties *)

\* No check of a node is green without a recent heartbeat; a heartbeat that
\* stopped, an error or an old version shows.
NodeVerdictsSound ==
  review.kind = "node" =>
    LET n == review.node
    IN /\ "healthy" \in {HeartbeatVerdict(n, Now), ConfigurationVerdict(n, Now)} =>
            n.active /\ Now - n.beat <= HeartbeatAge /\ n.beat # Never
       /\ n.active /\ (n.error \/ n.applied < n.desired) => ConfigurationVerdict(n, Now) # "healthy"
       /\ HeartbeatVerdict(n, Now) = "healthy" /\ ~n.error /\ n.applied = n.desired /\ n.desired > 0
            => ConfigurationVerdict(n, Now) = "healthy"

\* Green only when every serving node was seen to pass since the publication;
\* no alarm while one of them was; "critical" only when nothing is left in doubt.
SiteVerdictSound ==
  review.kind = "site" =>
    LET v == AvailabilityVerdict(review.site, review.nodes, Now)
        serving == Serving(review.site, review.nodes)
        SeenOK(n) == LET m == review.nodes[n] IN
          /\ m.siteProbe.ok /\ m.siteProbe.at >= review.site.publishedAt
          /\ Now <= m.siteProbe.at + ProbeAge /\ m.nodeProbe.ok /\ Now <= m.nodeProbe.at + ProbeAge
          /\ Now <= m.beat + HeartbeatAge
    IN /\ v = "healthy" => serving # {} /\ \A n \in serving : SeenOK(n)
       /\ (\E n \in serving : SeenOK(n)) => v \in {"healthy", "warning"}
       /\ v = "critical" => \A n \in serving : Observed(review.site, review.nodes[n], Now)

\* A certificate that is served and about to expire is critical whatever was
\* issued since; it is never green with a failure newer than any certificate.
CertificateVerdictSound ==
  review.kind = "certificate" =>
    LET v == CertificateVerdict(review.site, review.tasks, Now)
    IN /\ review.site.published /\ (\E e \in review.site.serving : e <= Now + Soon) => v = "critical"
       /\ v = "healthy" => \A t \in review.tasks :
            t.status = "failed" => \E c \in review.site.issued : c.updated > t.updated

\* Backups and tasks are green only on evidence that still counts.
RunVerdictsSound ==
  /\ review.kind = "backup" /\ BackupVerdict(review.run, Now) = "healthy" =>
       /\ review.run.succeeded # Never /\ Now < review.run.succeeded + BackupAge
       /\ review.run.state # "failed"
  /\ review.kind = "upgrade" =>
       /\ UpgradeVerdict(review.task, Now) = "healthy" =>
            review.task.status = "done" \/ (review.task.status = "active" /\ Now <= review.task.deadline)
       /\ "healthy" = ReconcilerVerdict(review.round, Now) =>
            Now <= review.round.finished + ProbeAge /\ ~review.round.errors
       /\ review.rollout.state = "running" /\ RolloutVerdict(review.rollout, Now) = "healthy" =>
            Now <= review.rollout.updated + ProbeAge

\* The runs of a problem in the collections that were saved.
Ill(c, i) == c \in DOMAIN past[i].verdicts /\ NeedsAttention(past[i].verdicts[c])
Run(c, i, j) == /\ \A k \in i..j : Ill(c, k)
                /\ i = 1 \/ ~Ill(c, i - 1)

\* Recoveries are the runs that have ended, each with its first sighting and how
\* it ended; what a check shows as its start is the start of its run.
HistoryFaithful ==
  /\ saved.recoveries =
       UNION {{[check |-> c, from |-> past[j].verdicts[c], started |-> past[i].at,
                finished |-> past[j + 1].at,
                outcome |-> IF /\ c \in DOMAIN past[j + 1].verdicts
                               /\ past[j + 1].verdicts[c] = "healthy"
                            THEN "resolved" ELSE "retired"] :
                i \in {k \in 1..j : Run(c, k, j) /\ ~Ill(c, j + 1)
                                    /\ past[j + 1].at + Retention > saved.at}} :
              c \in CheckIds, j \in 1..(Len(past) - 1)}
  /\ \A c \in DOMAIN saved.checks :
       \A i \in 1..Len(past) : Run(c, i, Len(past)) => saved.checks[c].since = past[i].at

\* No green answer rests on a snapshot that is too old or on a collection that
\* failed, and no known problem is lost in it.
AnswerHonest ==
  /\ lastError \/ Stale => Overall \in Attention
  /\ \A c \in DOMAIN saved.checks :
       /\ Presented(c) = "healthy" => saved.at <= tick + Skew /\ tick < saved.at + Validity
       /\ NeedsAttention(saved.checks[c].verdict) => Presented(c) = saved.checks[c].verdict
       /\ NeedsAttention(Presented(c)) => Overall \in Attention

\* What the health center says is backed by what was seen (control/system_health.go,
\* store/system_health.go).
HealthCenterHonest ==
  /\ NodeVerdictsSound /\ SiteVerdictSound /\ CertificateVerdictSound /\ RunVerdictsSound
  /\ HistoryFaithful /\ AnswerHonest
=============================================================================
