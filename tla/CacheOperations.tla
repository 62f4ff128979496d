-------------------------- MODULE CacheOperations --------------------------
(***************************************************************************)
(* Cache invalidation and prewarming of one site: the generations that     *)
(* make up the cache key (store/cache_operations.go, nginx/render.go), the *)
(* operations and their per-edge results (control/publisher.go), and the   *)
(* edge's prewarm jobs, whose results survive kills and lost answers       *)
(* (edge/cache_warmup.go).  A scope is the set of URLs it covers; the      *)
(* empty scope is an invalidation of the whole site.                       *)
(***************************************************************************)
EXTENDS Naturals, Sequences, FiniteSets
LOCAL INSTANCE SequencesExt

CONSTANTS
  Edges,            \* the edges assigned to the site
  Urls,             \* pages of the site
  Scopes,           \* scopes an administrator invalidates
  MaxRules,         \* MaxCacheInvalidationRules, 128 in the code
  MaxJobs,          \* MaxCacheWarmups, 16 in the code
  MaxOperations,    \* bound: cache operations
  MaxEdits,         \* bound: edits of the site
  MaxRuns,          \* bound: prewarm jobs run
  MaxEdgeFaults     \* bound: kills, lost messages and failed writes

ASSUME CacheAssumption ==
  /\ Scopes \subseteq SUBSET Urls
  /\ {MaxRules, MaxJobs} \subseteq Nat \ {0}
  /\ {MaxOperations, MaxEdits, MaxRuns, MaxEdgeFaults} \subseteq Nat

VARIABLES
  site,        \* the site's draft
  publication, \* the site as last published
  staged,      \* the state each edge is to apply, with its version
  ops,         \* the rows of cache_operations, their tasks and their edges
  underway,    \* the operation RunCacheInvalidation or RetryCachePrewarm is busy with
  lastTask,    \* the operation of the site's latest publish task, 0 if another's
  heard,       \* what the controller knows of each edge
  running,     \* the configuration each edge's nginx runs
  disk,        \* what each edge has on disk: applied version, completed jobs, results
  round,       \* where each edge's configuration round stands
  beat,        \* the heartbeat each edge has under way
  cached,      \* what each edge's cache holds
  editing,     \* the site as UpdateSite has read it
  retired,     \* history: the keys that invalidations were to replace
  lastRun,     \* history: each edge's last run of a job it holds completed
  used         \* operations, edits, runs and faults so far

cacheVars == <<site, publication, staged, ops, underway, lastTask, heard, running, disk, round,
               beat, cached, editing, retired, lastRun, used>>

-----------------------------------------------------------------------------
(* Cache keys *)

\* The generations in proxy_cache_key: the last matching rule, in the order of
\* their generations, gives the second.
KeyOf(s, u) ==
  LET matching == {r \in s.rules : u \in r.scope}
  IN  <<s.generation, IF matching = {} THEN 0
                      ELSE (CHOOSE r \in matching :
                              \A other \in matching : other.generation <= r.generation).generation>>

\* The pages of a scope.
Covered(scope) == IF scope = {} THEN Urls ELSE scope

Counting(s, scope) == [u \in Urls |-> IF u \in Covered(scope) THEN s.epoch[u] + 1 ELSE s.epoch[u]]

\* Mutant: old rules are dropped under the same generation.
InvalidatedCompactly(s, scope) ==
  LET others == {r \in s.rules : r.scope # scope}
      version == s.version + 1
      rules == IF Cardinality(others) >= MaxRules THEN {} ELSE others
  IN  IF scope = {}
      THEN [s EXCEPT !.generation = @ + 1, !.rules = {}, !.version = version,
                     !.epoch = Counting(s, scope)]
      ELSE [s EXCEPT !.rules = rules \union {[scope |-> scope, generation |-> version]},
                     !.version = version, !.epoch = Counting(s, scope)]

\* mutateCacheInvalidationTx: a rule gets the next configuration version as its
\* generation; when there is no room for one more, the site's generation moves
\* on and the older rules go.
Invalidated(s, scope) ==
  LET others == {r \in s.rules : r.scope # scope}
      version == s.version + 1
      full == Cardinality(others) >= MaxRules
  IN  IF scope = {}
      THEN [s EXCEPT !.generation = @ + 1, !.rules = {}, !.version = version,
                     !.epoch = Counting(s, scope)]
      ELSE [s EXCEPT !.generation = IF full THEN @ + 1 ELSE @,
                     !.rules = (IF full THEN {} ELSE others)
                                 \union {[scope |-> scope, generation |-> version]},
                     !.version = version, !.epoch = Counting(s, scope)]

\* appendCacheWarmup: the oldest job goes when there is no room.
WithJob(s, job) ==
  [s EXCEPT !.jobs = Append(IF Len(@) >= MaxJobs
                            THEN SubSeq(@, Len(@) - MaxJobs + 2, Len(@)) ELSE @, job)]

\* UpdateSite, from the site it has read: the rules and the jobs are kept.
Edited(read, change) ==
  [read EXCEPT !.caching = IF change = "caching" THEN ~@ ELSE @,
               !.generation = IF change = "caching" THEN @ + 1 ELSE @,
               !.enabled = IF change = "enabled" THEN ~@ ELSE @,
               !.version = @ + 1]

-----------------------------------------------------------------------------
(* Operations and their publish tasks *)

Count(n, kind) == used' = [used EXCEPT ![kind] = @ + n]
Fault == used.faults < MaxEdgeFaults /\ Count(1, "faults")

Reported == {"succeeded", "failed"}
NoRow == [conf |-> "not_targeted", target |-> 0, warm |-> "not_requested", run |-> 0]

\* insertCacheOperationTx: a row for each edge, and what to expect of it.
NewOperation(scope, paths) ==
  [scope |-> scope, paths |-> paths, failed |-> FALSE, task |-> "none", attached |-> FALSE,
   overdue |-> FALSE, epoch |-> site'.epoch,
   rows |-> [n \in Edges |->
      [NoRow EXCEPT !.warm = CASE paths = {} -> "not_requested"
                               [] heard[n].capable -> "pending"
                               [] OTHER -> "unsupported"]]]

Busy == lastTask # 0 /\ ops[lastTask].task = "active"

\* CreateCacheInvalidationOperation, under the publisher's mutex.
Invalidate ==
  /\ underway = 0 /\ ~Busy /\ Len(ops) < MaxOperations /\ site.caching
  /\ \E scope \in Scopes : \E paths \in {{}, Covered(scope)} :
       /\ site' = IF paths = {} THEN Invalidated(site, scope)
                  ELSE WithJob(Invalidated(site, scope), Len(ops) + 1)
       /\ ops' = Append(ops, NewOperation(scope, paths))
       /\ retired' = retired \union {<<u, KeyOf(site, u)>> : u \in Covered(scope)}
  /\ underway' = Len(ops) + 1
  /\ UNCHANGED <<publication, staged, lastTask, heard, running, disk, round, beat, cached,
                 editing, lastRun, used>>

\* CreateCachePrewarmRetryOperation: the same pages, and no invalidation.
RetryPrewarm ==
  /\ underway = 0 /\ ~Busy /\ Len(ops) < MaxOperations /\ site.caching
  /\ \E o \in DOMAIN ops :
       /\ ops[o].paths # {}
       /\ site' = [WithJob(site, Len(ops) + 1) EXCEPT !.version = @ + 1]
       /\ ops' = Append(ops, NewOperation(ops[o].scope, ops[o].paths))
  /\ underway' = Len(ops) + 1
  /\ UNCHANGED <<publication, staged, lastTask, heard, running, disk, round, beat, cached,
                 editing, retired, lastRun, used>>

\* cacheWarmupsForNode, and nodeStateMatches: a new version only for new content.
Restaged(s) ==
  [n \in Edges |->
     LET jobs == IF s.enabled /\ heard[n].capable THEN s.jobs ELSE <<>>
         content == [generation |-> s.generation, rules |-> s.rules, epoch |-> s.epoch,
                     serving |-> s.enabled /\ s.caching]
     IN  IF staged[n].content = content /\ staged[n].jobs = jobs THEN staged[n]
         ELSE [content |-> content, jobs |-> jobs, version |-> staged[n].version + 1]]

\* publishSiteLocked for the operation: the task exists before its first target.
StageOperation ==
  LET o == underway IN
  /\ o # 0 /\ ops[o].task = "none"
  /\ publication' = site
  /\ staged' = Restaged(site)
  /\ lastTask' = o
  /\ ops' = [ops EXCEPT ![o].task = "active",
                        ![o].rows = [n \in Edges |-> [@[n] EXCEPT !.conf = "pending",
                                                      !.target = staged'[n].version]]]
  /\ UNCHANGED <<site, underway, heard, running, disk, round, beat, cached, editing, retired,
                 lastRun, used>>

\* The publication fails, before or after its task exists; FailCacheOperation.
FailOperation ==
  LET o == underway IN
  /\ o # 0 /\ ops[o].task = "none"
  /\ \E made \in BOOLEAN :
       /\ ops' = [ops EXCEPT ![o].failed = TRUE, ![o].attached = made,
                             ![o].task = IF made THEN "failed" ELSE "none"]
       /\ lastTask' = IF made THEN o ELSE lastTask
  /\ underway' = 0
  /\ Fault
  /\ UNCHANGED <<site, publication, staged, heard, running, disk, round, beat, cached, editing,
                 retired, lastRun>>

\* AttachCacheOperationTask.
AttachTask ==
  /\ underway # 0 /\ ops[underway].task # "none"
  /\ ops' = [ops EXCEPT ![underway].attached = TRUE]
  /\ underway' = 0
  /\ UNCHANGED <<site, publication, staged, lastTask, heard, running, disk, round, beat, cached,
                 editing, retired, lastRun, used>>

\* The controller is restarted during the operation.
ForgetOperation ==
  /\ underway # 0
  /\ underway' = 0
  /\ Fault
  /\ UNCHANGED <<site, publication, staged, ops, lastTask, heard, running, disk, round, beat,
                 cached, editing, retired, lastRun>>

\* The site is published without a cache operation.
PublishSite ==
  /\ underway = 0 /\ ~Busy /\ site # publication
  /\ publication' = site /\ staged' = Restaged(site) /\ lastTask' = 0
  /\ UNCHANGED <<site, ops, underway, heard, running, disk, round, beat, cached, editing,
                 retired, lastRun, used>>

\* PublishAll renders what is published: the capabilities may have changed.
PublishAgain ==
  /\ underway = 0
  /\ staged # Restaged(publication) /\ staged' = Restaged(publication)
  /\ UNCHANGED <<site, publication, ops, underway, lastTask, heard, running, disk, round, beat,
                 cached, editing, retired, lastRun, used>>

\* UpdateSite, when nothing happens between its read and its transaction.
EditSite ==
  /\ used.edits < MaxEdits /\ Count(1, "edits")
  /\ \E change \in {"caching", "enabled"} : site' = Edited(site, change)
  /\ UNCHANGED <<publication, staged, ops, underway, lastTask, heard, running, disk, round, beat,
                 cached, editing, retired, lastRun>>

\* UpdateSite reads the site outside its transaction, and writes it later.
ReadSite ==
  /\ used.edits < MaxEdits /\ Count(1, "edits")
  /\ editing' = {site}
  /\ UNCHANGED <<site, publication, staged, ops, underway, lastTask, heard, running, disk, round,
                 beat, cached, retired, lastRun>>

WriteSite ==
  /\ \E read \in editing : site' = Edited(read, "enabled")
  /\ editing' = {}
  /\ UNCHANGED <<publication, staged, ops, underway, lastTask, heard, running, disk, round, beat,
                 cached, retired, lastRun, used>>

Pending(o) == {n \in Edges : ops[o].rows[n].conf = "pending"}
Confirmed(rows) == {n \in Edges : rows[n].conf = "succeeded"}

\* publishTaskOutcome.
TaskOutcome(rows) ==
  CASE Confirmed(rows) = Edges -> "succeeded"
    [] Confirmed(rows) = {} -> "failed"
    [] OTHER -> "partial"

\* reconcilePublishTask: when every edge has answered or the deadline is over.
CloseTask ==
  /\ Busy
  /\ LET rows == [n \in Edges |-> IF n \in Pending(lastTask)
                                  THEN [ops[lastTask].rows[n] EXCEPT !.conf = "timed_out"]
                                  ELSE ops[lastTask].rows[n]]
     IN  ops' = [ops EXCEPT ![lastTask].rows = rows, ![lastTask].task = TaskOutcome(rows)]
  /\ UNCHANGED <<site, publication, staged, underway, lastTask, heard, running, disk, round,
                 beat, cached, editing, retired, lastRun, used>>

\* reconcileLatePublishConfirmations, which counts as a change of the task.
ConfirmLateEdges ==
  /\ lastTask # 0 /\ ops[lastTask].task \in {"partial", "failed"}
  /\ LET late == {n \in Edges : /\ ops[lastTask].rows[n].conf \in {"failed", "timed_out"}
                                /\ heard[n].version >= ops[lastTask].rows[n].target}
         rows == [n \in Edges |-> IF n \in late
                                  THEN [ops[lastTask].rows[n] EXCEPT !.conf = "succeeded"]
                                  ELSE ops[lastTask].rows[n]]
     IN  /\ late # {}
         /\ ops' = [ops EXCEPT ![lastTask].rows = rows, ![lastTask].overdue = FALSE,
                               ![lastTask].task = TaskOutcome(rows)]
  /\ UNCHANGED <<site, publication, staged, underway, lastTask, heard, running, disk, round,
                 beat, cached, editing, retired, lastRun, used>>

\* Two minutes have passed since the task was closed.
GrowOverdue ==
  /\ \E o \in DOMAIN ops :
       /\ ops[o].task \in {"succeeded", "partial"} /\ ops[o].paths # {} /\ ~ops[o].overdue
       /\ ops' = [ops EXCEPT ![o].overdue = TRUE]
  /\ UNCHANGED <<site, publication, staged, underway, lastTask, heard, running, disk, round,
                 beat, cached, editing, retired, lastRun, used>>

\* Mutant: an edge without a result is passed over.
IssueUnlessPending(o, n) ==
  LET row == ops[o].rows[n] IN
  row.conf = "succeeded" /\ row.warm \notin {"succeeded", "not_requested", "pending"}

\* The edges of cacheOperationPresentation that make an operation partial.
WarmupIssue(o, n) ==
  LET row == ops[o].rows[n] IN
  /\ row.conf = "succeeded"
  /\ row.warm \notin {"succeeded", "not_requested"}
  /\ row.warm = "pending" => ops[o].overdue

\* cacheOperationPresentation, as hydrateCacheOperation calls it.
Presented(o) ==
  LET op == ops[o]
      waiting == \E n \in Edges : op.rows[n].conf = "succeeded" /\ op.rows[n].warm = "pending"
  IN  CASE ~op.attached -> IF op.failed THEN "failed" ELSE "queued"
        [] op.task = "active" -> "applying"
        [] op.task = "failed" -> "failed"
        [] op.paths = {} -> op.task
        [] ~op.overdue /\ waiting -> "applying"
        [] op.task = "partial" \/ \E n \in Edges : WarmupIssue(o, n) -> "partial"
        [] OTHER -> "succeeded"

-----------------------------------------------------------------------------
(* The edge *)

Idle == [at |-> "idle", list |-> <<>>, version |-> 0, before |-> {}, done |-> {},
         results |-> {}, failed |-> 0]
NoBeat == [at |-> "none", version |-> 0, failed |-> 0, results |-> {}]

Jobs(results) == {r.job : r \in results}
\* The places of the jobs of the state under way that have still to run.
ToRun(n) == {i \in DOMAIN round[n].list :
               round[n].list[i] \notin round[n].done \union Jobs(round[n].results)}

\* A page fetched through the edge's nginx: served from the cache if its key is
\* there, and kept if the site is cached.  A page that is fetched past the cache
\* leaves nothing there but, as a mark that it was fetched, the key <<0, 0>>.
Fetched(n, u) ==
  LET key == IF running[n].serving THEN KeyOf(running[n], u) ELSE <<0, 0>> IN
  IF running[n].serving /\ \E e \in cached[n] : e.url = u /\ e.key = key THEN {}
  ELSE {[url |-> u, key |-> key, epoch |-> running[n].epoch[u]]}

\* A visitor asks for a page.
Visit(n, u) ==
  /\ running[n].serving /\ Fetched(n, u) # {}
  /\ cached' = [cached EXCEPT ![n] = @ \union Fetched(n, u)]
  /\ UNCHANGED <<site, publication, staged, ops, underway, lastTask, heard, running, disk, round,
                 beat, editing, retired, lastRun, used>>

\* apply, as far as nginx's reload; then runCacheWarmups reads what is completed.
LoadState(n) ==
  /\ round[n].at = "idle" /\ staged[n].version > disk[n].applied
  /\ running' = [running EXCEPT ![n] = staged[n].content]
  /\ round' = [round EXCEPT ![n] = [Idle EXCEPT !.at = "run", !.list = staged[n].jobs,
                 !.version = staged[n].version, !.before = {running[n]},
                 !.done = disk[n].completed]]
  /\ UNCHANGED <<site, publication, staged, ops, underway, lastTask, heard, disk, beat, cached,
                 editing, retired, lastRun, used>>

\* executeCacheWarmup: all pages are fetched, or some fail.
RunJob(n) ==
  /\ round[n].at = "run"
  /\ used.runs < MaxRuns /\ Count(1, "runs")
  /\ \E i \in ToRun(n), status \in Reported :
       LET job == round[n].list[i] IN
       /\ \A k \in ToRun(n) : i <= k
       /\ round' = [round EXCEPT ![n].results =
            @ \union {[job |-> job, status |-> status, run |-> used.runs + 1]}]
       /\ cached' = IF status = "failed" THEN cached
                    ELSE [cached EXCEPT ![n] =
                            @ \union UNION {Fetched(n, u) : u \in ops[job].paths}]
       /\ lastRun' = [lastRun EXCEPT ![n][job] = used.runs + 1]
  /\ UNCHANGED <<site, publication, staged, ops, underway, lastTask, heard, running, disk, beat,
                 editing, retired>>

\* queueCacheWarmupResults: only queued jobs count as completed.
QueueResults(n) ==
  /\ round[n].at = "run" /\ ToRun(n) = {}
  /\ LET new == round[n].results
         kept == {p \in disk[n].pending : p.job \notin Jobs(new)}
     IN  \/ /\ disk' = [disk EXCEPT ![n].pending = kept \union new]
            /\ round' = [round EXCEPT ![n].at = "save", ![n].done = @ \union Jobs(new)]
            /\ UNCHANGED used
         \/ /\ new # {} /\ Fault
            /\ round' = [round EXCEPT ![n].at = "save"]
            /\ UNCHANGED disk
  /\ UNCHANGED <<site, publication, staged, ops, underway, lastTask, heard, running, beat, cached,
                 editing, retired, lastRun>>

\* saveCompletedCacheWarmups: the completed jobs of this state, or nothing.
SaveCompleted(n) ==
  /\ round[n].at = "save"
  /\ round' = [round EXCEPT ![n].at = "persist"]
  /\ \/ /\ disk' = [disk EXCEPT ![n].completed = round[n].done \intersect ToSet(round[n].list)]
        /\ UNCHANGED used
     \/ Fault /\ UNCHANGED disk
  /\ UNCHANGED <<site, publication, staged, ops, underway, lastTask, heard, running, beat, cached,
                 editing, retired, lastRun>>

\* The rest of apply: the version is persisted, or the old configuration returns.
PersistState(n) ==
  /\ round[n].at = "persist"
  /\ \/ /\ disk' = [disk EXCEPT ![n].applied = round[n].version]
        /\ round' = [round EXCEPT ![n] = Idle]
        /\ UNCHANGED <<running, used>>
     \/ /\ Fault
        /\ \E before \in round[n].before : running' = [running EXCEPT ![n] = before]
        /\ round' = [round EXCEPT ![n] = [Idle EXCEPT !.failed = round[n].version]]
        /\ UNCHANGED disk
  /\ UNCHANGED <<site, publication, staged, ops, underway, lastTask, heard, beat, cached, editing,
                 retired, lastRun>>

\* The agent is killed; nginx goes on.
KillAgent(n) ==
  /\ round[n].at # "idle" /\ Fault
  /\ round' = [round EXCEPT ![n] = Idle]
  /\ beat' = [beat EXCEPT ![n] = NoBeat]
  /\ UNCHANGED <<site, publication, staged, ops, underway, lastTask, heard, running, disk, cached,
                 editing, retired, lastRun>>

\* Heartbeat, with the results that are on disk now.
SendBeat(n) ==
  /\ beat[n].at = "none"
  /\ beat' = [beat EXCEPT ![n] = [at |-> "sent", version |-> disk[n].applied,
                                  failed |-> round[n].failed, results |-> disk[n].pending]]
  /\ UNCHANGED <<site, publication, staged, ops, underway, lastTask, heard, running, disk, round,
                 cached, editing, retired, lastRun, used>>

\* The row of this edge under a heartbeat: its task's status and its job's result.
AfterBeat(o, n) ==
  LET row == ops[o].rows[n]
      waiting == o = lastTask /\ row.conf = "pending"
      applied == beat[n].version >= row.target
      conf == CASE waiting /\ applied -> "succeeded"
                [] waiting /\ ~applied /\ beat[n].failed = row.target -> "failed"
                [] OTHER -> row.conf
      sent == {r \in beat[n].results : r.job = o}
  IN  IF sent = {} THEN [row EXCEPT !.conf = conf]
      ELSE LET r == CHOOSE r \in sent : TRUE
           IN  [row EXCEPT !.conf = conf, !.warm = r.status, !.run = r.run]

\* edgeHeartbeat and RecordCacheWarmupResults.
HandleBeat(n) ==
  /\ beat[n].at = "sent"
  /\ heard' = [heard EXCEPT ![n] = [capable |-> TRUE, version |-> beat[n].version]]
  /\ ops' = [o \in DOMAIN ops |-> [ops[o] EXCEPT !.rows[n] = AfterBeat(o, n)]]
  /\ beat' = [beat EXCEPT ![n].at = "handled"]
  /\ UNCHANGED <<site, publication, staged, underway, lastTask, running, disk, round, cached,
                 editing, retired, lastRun, used>>

\* Mutant: a result is acknowledged by its job alone.
LeftOfJob(n) == {p \in disk[n].pending : p.job \notin Jobs(beat[n].results)}

\* acknowledgeCacheWarmupResults: a result that was replaced since then stays.
Unacknowledged(n) == {p \in disk[n].pending : p \notin beat[n].results}

\* The edge has the answer.
AcknowledgeBeat(n) ==
  /\ beat[n].at = "handled"
  /\ disk' = [disk EXCEPT ![n].pending = Unacknowledged(n)]
  /\ round' = [round EXCEPT ![n].failed = IF @ = beat[n].failed THEN 0 ELSE @]
  /\ beat' = [beat EXCEPT ![n] = NoBeat]
  /\ UNCHANGED <<site, publication, staged, ops, underway, lastTask, heard, running, cached,
                 editing, retired, lastRun, used>>

\* The request or its answer is lost.
LoseBeat(n) ==
  /\ beat[n].at # "none" /\ Fault
  /\ beat' = [beat EXCEPT ![n] = NoBeat]
  /\ UNCHANGED <<site, publication, staged, ops, underway, lastTask, heard, running, disk, round,
                 cached, editing, retired, lastRun>>

-----------------------------------------------------------------------------

FirstSite == [generation |-> 1, rules |-> {}, jobs |-> <<>>, version |-> 1, caching |-> TRUE,
              enabled |-> TRUE, epoch |-> [u \in Urls |-> 0]]
FirstContent == [generation |-> 1, rules |-> {}, epoch |-> FirstSite.epoch, serving |-> TRUE]

CacheInit ==
  /\ site = FirstSite /\ publication = FirstSite
  /\ staged = [n \in Edges |-> [content |-> FirstContent, jobs |-> <<>>, version |-> 1]]
  /\ running = [n \in Edges |-> FirstContent]
  /\ ops = <<>> /\ underway = 0 /\ lastTask = 0
  /\ heard \in [Edges -> [capable : BOOLEAN, version : {1}]]
  /\ disk = [n \in Edges |-> [applied |-> 1, completed |-> {}, pending |-> {}]]
  /\ round = [n \in Edges |-> Idle] /\ beat = [n \in Edges |-> NoBeat]
  /\ cached = [n \in Edges |-> {}]
  /\ editing = {} /\ retired = {}
  /\ lastRun = [n \in Edges |-> [job \in 1..MaxOperations |-> 0]]
  /\ used = [edits |-> 0, runs |-> 0, faults |-> 0]

ControllerSteps ==
  \/ Invalidate \/ RetryPrewarm \/ StageOperation \/ FailOperation \/ AttachTask
  \/ ForgetOperation \/ PublishSite \/ PublishAgain \/ EditSite
  \/ CloseTask \/ ConfirmLateEdges \/ GrowOverdue

EdgeSteps(n) ==
  \/ \E u \in Urls : Visit(n, u)
  \/ LoadState(n) \/ RunJob(n) \/ QueueResults(n) \/ SaveCompleted(n) \/ PersistState(n)
  \/ KillAgent(n) \/ SendBeat(n) \/ HandleBeat(n) \/ AcknowledgeBeat(n) \/ LoseBeat(n)

CacheNext == ControllerSteps \/ \E n \in Edges : EdgeSteps(n)

CacheSpec == CacheInit /\ [][CacheNext]_cacheVars

\* With an editor whose read and write are apart: what it writes undoes an
\* invalidation between them.
SlowEditSpec ==
  CacheInit /\ [][Invalidate \/ StageOperation \/ AttachTask \/ ReadSite \/ WriteSite]_cacheVars

-----------------------------------------------------------------------------
(* Properties *)

CacheRule == [scope : Scopes, generation : Nat]
Content == [generation : Nat, rules : SUBSET CacheRule, epoch : [Urls -> Nat], serving : BOOLEAN]
Row == [conf : {"not_targeted", "pending", "succeeded", "failed", "timed_out"}, target : Nat,
        warm : {"not_requested", "pending", "unsupported"} \union Reported, run : 0..MaxRuns]
OperationIds == 1..MaxOperations

CacheTypeOK ==
  /\ \A s \in {site, publication} :
       /\ Cardinality(s.rules) <= MaxRules /\ Len(s.jobs) <= MaxJobs
       /\ s.jobs \in Seq(OperationIds) /\ s.version \in Nat
  /\ running \in [Edges -> Content]
  /\ \A n \in Edges : staged[n].content \in Content /\ staged[n].jobs \in Seq(OperationIds)
  /\ underway \in 0..Len(ops) /\ lastTask \in 0..Len(ops)
  /\ \A o \in DOMAIN ops : /\ ops[o].rows \in [Edges -> Row]
                           /\ ops[o].task \in {"none", "active", "succeeded", "partial", "failed"}
  /\ \A n \in Edges : /\ disk[n].completed \subseteq OperationIds
                      /\ disk[n].applied <= staged[n].version

\* No key that an invalidation was to replace is ever a page's key again.
RetiredKeysStay == \A r \in retired : KeyOf(site, r[1]) # r[2]

\* An edge serves from its cache nothing older than the invalidations in the
\* configuration it runs, whatever rules were replaced, compacted or rolled back.
NoStaleHits ==
  \A n \in Edges : running[n].serving =>
    \A e \in cached[n] :
      e.key = KeyOf(running[n], e.url) => e.epoch >= running[n].epoch[e.url]

\* An operation shown as succeeded is in force on every edge, and every edge
\* that it should have warmed has fetched its pages after the invalidation.
SucceededIsWarm ==
  \A o \in DOMAIN ops :
    Presented(o) = "succeeded" =>
      \A n \in Edges :
        /\ heard[n].version >= ops[o].rows[n].target
        /\ \A u \in ops[o].paths :
             \E e \in cached[n] : e.url = u /\ e.epoch >= ops[o].epoch[u]

\* What became of a job's last run is on its way to the controller, or there,
\* once the edge will not run it again.
ResultsKept ==
  \A n \in Edges : \A job \in disk[n].completed :
    \/ ops[job].rows[n].run = lastRun[n][job]
    \/ \E p \in disk[n].pending : p.job = job /\ p.run = lastRun[n][job]

\* Cache keys, operations and prewarm results as the docs promise them
\* (store/cache_operations.go, edge/cache_warmup.go).
CacheHolds == CacheTypeOK /\ RetiredKeysStay /\ NoStaleHits /\ SucceededIsWarm /\ ResultsKept
=============================================================================
