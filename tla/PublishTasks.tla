----------------------------- MODULE PublishTasks -----------------------------
(***************************************************************************)
(* The deployment tasks of one site: how a publication, or the retry of a  *)
(* failed one, waits for the edges, and how the reports the edges send     *)
(* with their heartbeats, the versions they have applied and the deadline  *)
(* settle it.                                                              *)
(*                                                                         *)
(* ReconcilePublishTasks is a sequence of statements without a             *)
(* transaction, and every heartbeat, every status request and every health *)
(* round runs it.  Each run is a process here and each statement a step,   *)
(* so that two of them interleave as they do in the controller.            *)
(***************************************************************************)
EXTENDS Naturals, Sequences, FiniteSets

CONSTANTS
    Nodes,          \* the edge nodes the site is assigned to
    Workers,        \* request handlers and health rounds that reconcile
    Publisher,      \* the holder of desiredStateMu, which reconciles as well
    NoNode,         \* a process that handles no heartbeat
    NoReport,       \* a heartbeat without an apply report
    SlowRendering,  \* may the deadline pass while the publisher renders?
    MaxTasks,       \* bound: publish tasks created
    MaxVersion      \* bound: the largest desired-state version

Procs == Workers \cup {Publisher}

ASSUME ConstantsAssumption ==
    /\ IsFiniteSet(Nodes)
    /\ Publisher \notin Workers
    /\ NoNode \notin Nodes
    /\ SlowRendering \in BOOLEAN
    /\ MaxTasks \in Nat
    /\ MaxVersion \in Nat

VARIABLES
    tasks,    \* deployment_tasks and publish_task_nodes of the site, by age
    desired,  \* the version of each node's desired state (0: none yet)
    applied,  \* nodes.applied_version
    reports,  \* the apply reports each edge has made
    proc,     \* the controller's processes
    plan      \* the targets the publisher is about to stage

vars == <<tasks, desired, applied, reports, proc, plan>>

Report == [version : Nat, ok : BOOLEAN]
Closed == {"succeeded", "partial", "failed"}
Verdict == [status : Closed, confirmed : Nat]

\* A row of deployment_tasks with its rows of publish_task_nodes.  "active"
\* stands for queued, dispatching and applying; confirmed for the number in
\* the detail text; a node without a row has target 0 and result "none".
Task == [status : Closed \cup {"active"}, confirmed : Nat, expired : BOOLEAN,
         target : [Nodes -> Nat],
         result : [Nodes -> {"none", "pending", "succeeded", "failed", "timed_out"}]]

\* A process: the statement it executes next, where ReconcilePublishTasks
\* returns to, whether it publishes or retries, the heartbeat it handles, the
\* task it looks at, the status and detail it is going to write or has read,
\* and whether its late confirmation has changed a row.
Process == [at : {"idle", "advance", "list", "confirm", "count", "expire", "close",
                  "list_closed", "late", "late_count", "late_close",
                  "plan", "create", "apply", "render", "stage", "finish"},
            next : {"idle", "plan", "create"}, retry : BOOLEAN,
            node : Nodes \cup {NoNode}, version : Nat,
            task : Nat, verdict : Verdict, changed : BOOLEAN]

NoVerdict == [status |-> "failed", confirmed |-> 0]
Idle == [at |-> "idle", next |-> "idle", retry |-> FALSE, node |-> NoNode, version |-> 0,
         task |-> 0, verdict |-> NoVerdict, changed |-> FALSE]
NoTargets == [n \in Nodes |-> 0]

TypeOK ==
    /\ tasks \in Seq(Task)
    /\ desired \in [Nodes -> Nat]
    /\ applied \in [Nodes -> Nat]
    /\ reports \in [Nodes -> SUBSET Report]
    /\ proc \in [Procs -> Process]
    /\ plan \in [Nodes -> Nat]

Init ==
    /\ tasks = << >>
    /\ desired = [n \in Nodes |-> 0]
    /\ applied = [n \in Nodes |-> 0]
    /\ reports = [n \in Nodes |-> {}]
    /\ proc = [p \in Procs |-> Idle]
    /\ plan = NoTargets

-------------------------------------------------------------------------------
(* Tasks *)

Latest == Len(tasks)
With(t, result) == {n \in Nodes : t.result[n] = result}
Targets(t) == {n \in Nodes : t.target[n] > 0}

\* Mutant: one confirmation is enough.
OutcomeAnyEdge(total, confirmed) ==
    [confirmed |-> confirmed,
     status |-> IF total = 0 \/ confirmed > 0 THEN "succeeded" ELSE "failed"]

\* publishTaskOutcome: the status and detail for this many confirmations.
Outcome(total, confirmed) ==
    [confirmed |-> confirmed,
     status |-> IF confirmed = total THEN "succeeded"
                ELSE IF confirmed > 0 THEN "partial" ELSE "failed"]

\* The rows of a task and of the nodes that have a result in "from" get the
\* result "to".
Settle(t, nodes, from, to) ==
    [t EXCEPT !.result = [n \in Nodes |->
        IF n \in nodes /\ t.result[n] \in from THEN to ELSE t.result[n]]]

\* Mutant: the version the node should have is compared, not the applied one.
HaveBeenAsked(t) == {n \in Nodes : desired[n] >= t.target[n]}

\* The nodes that have applied what the task waits for.
HaveApplied(t) == {n \in Nodes : applied[n] >= t.target[n]}

\* UpdateTask: unconditional, whatever the task's status is.
UpdateTask(i, verdict) ==
    tasks' = [tasks EXCEPT ![i].status = verdict.status,
                           ![i].confirmed = verdict.confirmed]

ActiveTasks == {i \in 1..Latest : tasks[i].status = "active"}

-------------------------------------------------------------------------------
(* The edge *)

\* The versions the edge has loaded, beside the empty configuration.
Loaded(n) == {0} \cup {r.version : r \in {r \in reports[n] : r.ok}}

\* Sync pulls a state newer than the version file; apply loads it, or fails and
\* restores the previous configuration.
Apply(n, ok) ==
    /\ \A v \in Loaded(n) : v < desired[n]
    /\ reports' = [reports EXCEPT ![n] = @ \cup {[version |-> desired[n], ok |-> ok]}]
    /\ UNCHANGED <<tasks, desired, applied, proc, plan>>

-------------------------------------------------------------------------------
(* Heartbeats *)

\* RecordPublishApply: the report settles the rows of active tasks that wait
\* for its version or an older one.
Recorded(t, n, r) ==
    IF t.status = "active" /\ t.result[n] = "pending" /\ t.target[n] =< r.version
    THEN [t EXCEPT !.result[n] = IF r.ok THEN "succeeded" ELSE "failed"]
    ELSE t

\* HeartbeatWithArtifacts, first statement: the report is recorded before the
\* applied version.  A heartbeat is lost when it is never received, and it may
\* be handled long after the edge has given up on it, so both parts may be old;
\* a restarted edge has no report, and the version file is written before the
\* report is set, so the two need not agree.
ReceiveHeartbeat(p, n) ==
    /\ proc[p].at = "idle"
    /\ \E v \in Loaded(n), r \in reports[n] \cup {NoReport} :
          /\ r # NoReport /\ r.ok => r.version =< v
          /\ tasks' = IF r = NoReport THEN tasks
                      ELSE [i \in DOMAIN tasks |-> Recorded(tasks[i], n, r)]
          /\ proc' = [proc EXCEPT ![p] =
                         [Idle EXCEPT !.at = "advance", !.node = n, !.version = v]]
    /\ UNCHANGED <<desired, applied, reports, plan>>

\* Second statement: applied_version never goes back.
AdvanceApplied(p) ==
    LET n == proc[p].node IN
    /\ proc[p].at = "advance"
    /\ applied' = [applied EXCEPT ![n] = IF proc[p].version > @ THEN proc[p].version ELSE @]
    /\ proc' = [proc EXCEPT ![p] = [Idle EXCEPT !.at = "list"]]
    /\ UNCHANGED <<tasks, desired, plan, reports>>

-------------------------------------------------------------------------------
(* ReconcilePublishTasks *)

Goto(p, at) == proc' = [proc EXCEPT ![p].at = at]

\* A status request or a health round.
StartPoll(p) ==
    /\ proc[p].at = "idle"
    /\ proc' = [proc EXCEPT ![p] = [Idle EXCEPT !.at = "list"]]
    /\ UNCHANGED <<tasks, desired, applied, plan, reports>>

\* The query for the active tasks; the index on active tasks keeps at most one.
ListActive(p) ==
    /\ proc[p].at = "list"
    /\ \/ \E i \in ActiveTasks :
            proc' = [proc EXCEPT ![p].at = "confirm", ![p].task = i]
       \/ ActiveTasks = {} /\ Goto(p, "list_closed")
    /\ UNCHANGED <<tasks, desired, applied, plan, reports>>

\* reconcilePublishTask, first statement: an applied version confirms.
ConfirmApplied(p) ==
    /\ proc[p].at = "confirm"
    /\ tasks' = [tasks EXCEPT ![proc[p].task] =
                    Settle(@, HaveApplied(@), {"pending"}, "succeeded")]
    /\ Goto(p, "count")
    /\ UNCHANGED <<desired, applied, plan, reports>>

\* The count and what follows from it: wait, give up a task without targets,
\* time the missing edges out, or close the task.  Edges still to be timed out
\* count as failed.
CountResults(p) ==
    LET t == tasks[proc[p].task]
        pending == With(t, "pending") # {}
        verdict == Outcome(Cardinality(Targets(t)), Cardinality(With(t, "succeeded")))
        Decide(at, v) == proc' = [proc EXCEPT ![p].at = at, ![p].verdict = v]
    IN  /\ proc[p].at = "count"
        /\ \/ ~t.expired /\ (Targets(t) = {} \/ pending) /\ Goto(p, "list_closed")
           \/ t.expired /\ Targets(t) = {} /\ Decide("close", NoVerdict)
           \/ t.expired /\ pending /\ Decide("expire", verdict)
           \/ Targets(t) # {} /\ ~pending /\ Decide("close", verdict)
        /\ UNCHANGED <<tasks, desired, applied, plan, reports>>

\* The statement that times the missing edges out.
TimeOut(p) ==
    /\ proc[p].at = "expire"
    /\ tasks' = [tasks EXCEPT ![proc[p].task] = Settle(@, Nodes, {"pending"}, "timed_out")]
    /\ Goto(p, "close")
    /\ UNCHANGED <<desired, applied, plan, reports>>

Close(p) ==
    /\ proc[p].at = "close"
    /\ UpdateTask(proc[p].task, proc[p].verdict)
    /\ Goto(p, "list_closed")
    /\ UNCHANGED <<desired, applied, plan, reports>>

Return(p) == [proc EXCEPT ![p].at = proc[p].next, ![p].task = 0,
                          ![p].verdict = NoVerdict, ![p].changed = FALSE]

LatestFailed == Latest > 0 /\ tasks[Latest].status \in {"partial", "failed"}

\* The query for the latest task if it has failed, in whole or in part.
ListClosed(p) ==
    /\ proc[p].at = "list_closed"
    /\ \/ /\ LatestFailed
          /\ proc' = [proc EXCEPT ![p].at = "late", ![p].task = Latest,
                       ![p].verdict = [status |-> tasks[Latest].status,
                                       confirmed |-> tasks[Latest].confirmed]]
       \/ ~LatestFailed /\ proc' = Return(p)
    /\ UNCHANGED <<tasks, desired, applied, plan, reports>>

\* Mutant: the statement no longer asks whether the task is the latest one.
ConfirmLateAnyTask(p) ==
    LET i == proc[p].task
        repaired == Settle(tasks[i], HaveApplied(tasks[i]),
                           {"failed", "timed_out"}, "succeeded")
    IN  /\ proc[p].at = "late"
        /\ tasks' = [tasks EXCEPT ![i] = repaired]
        /\ proc' = [proc EXCEPT ![p].at = "late_count", ![p].changed = repaired # tasks[i]]
        /\ UNCHANGED <<desired, applied, plan, reports>>

\* reconcileLatePublishConfirmations, first statement: an edge that has
\* applied its target after all, if the task is the latest one still.
ConfirmLate(p) ==
    LET i == proc[p].task
        late == IF i = Latest THEN HaveApplied(tasks[i]) ELSE {}
        repaired == Settle(tasks[i], late, {"failed", "timed_out"}, "succeeded")
    IN  /\ proc[p].at = "late"
        /\ tasks' = [tasks EXCEPT ![i] = repaired]
        /\ proc' = [proc EXCEPT ![p].at = "late_count", ![p].changed = repaired # tasks[i]]
        /\ UNCHANGED <<desired, applied, plan, reports>>

\* Mutant: the outcome is written only by the run that changed a row.
CountLateChangedOnly(p) ==
    LET t == tasks[proc[p].task]
        verdict == Outcome(Cardinality(Targets(t)), Cardinality(With(t, "succeeded")))
        nothing == Targets(t) = {} \/ With(t, "pending") # {} \/ ~proc[p].changed
    IN  /\ proc[p].at = "late_count"
        /\ proc' = IF nothing THEN Return(p)
                   ELSE [proc EXCEPT ![p].at = "late_close", ![p].verdict = verdict]
        /\ UNCHANGED <<tasks, desired, applied, plan, reports>>

\* Second and third statement: nothing to do without targets, while a row is
\* pending, or when the task already shows what its rows say.
CountLate(p) ==
    LET t == tasks[proc[p].task]
        verdict == Outcome(Cardinality(Targets(t)), Cardinality(With(t, "succeeded")))
        nothing == \/ Targets(t) = {}
                   \/ With(t, "pending") # {}
                   \/ ~proc[p].changed /\ verdict = proc[p].verdict
    IN  /\ proc[p].at = "late_count"
        /\ proc' = IF nothing THEN Return(p)
                   ELSE [proc EXCEPT ![p].at = "late_close", ![p].verdict = verdict]
        /\ UNCHANGED <<tasks, desired, applied, plan, reports>>

CloseLate(p) ==
    /\ proc[p].at = "late_close"
    /\ UpdateTask(proc[p].task, proc[p].verdict)
    /\ proc' = Return(p)
    /\ UNCHANGED <<desired, applied, plan, reports>>

-------------------------------------------------------------------------------
(* The publisher *)

Pub == proc[Publisher]

\* PublishSite; CreateOrGetActivePublishTask reconciles first.
StartPublish ==
    /\ Pub.at = "idle"
    /\ Latest < MaxTasks
    /\ proc' = [proc EXCEPT ![Publisher] = [Idle EXCEPT !.at = "list", !.next = "create"]]
    /\ UNCHANGED <<tasks, desired, applied, plan, reports>>

\* RetryFailedPublish; PublishStatus reconciles first.
StartRetry ==
    /\ Pub.at = "idle"
    /\ Latest < MaxTasks
    /\ proc' = [proc EXCEPT ![Publisher] =
                    [Idle EXCEPT !.at = "list", !.next = "plan", !.retry = TRUE]]
    /\ UNCHANGED <<tasks, desired, applied, plan, reports>>

\* The targets of a retry: the current version of every node that failed and
\* has not applied it since.
RetryTargets(t) ==
    [n \in Nodes |-> IF t.result[n] \in {"failed", "timed_out"} /\ applied[n] < desired[n]
                     THEN desired[n] ELSE 0]

PlanRetry ==
    /\ Pub.at = "plan"
    /\ LatestFailed
    /\ plan' = RetryTargets(tasks[Latest])
    /\ plan' # NoTargets
    /\ proc' = [proc EXCEPT ![Publisher].at = "list", ![Publisher].next = "create"]
    /\ UNCHANGED <<tasks, desired, applied, reports>>

\* Nothing to retry, or a node is upgrading.
RefuseRetry ==
    /\ Pub.at = "plan"
    /\ proc' = [proc EXCEPT ![Publisher] = Idle]
    /\ UNCHANGED <<tasks, desired, applied, plan, reports>>

NewTask == [status |-> "active", confirmed |-> 0, expired |-> FALSE,
            target |-> NoTargets, result |-> [n \in Nodes |-> "none"]]

\* CreateOrGetActivePublishTask: one active task per site; an existing one is
\* returned and nothing is published.
CreateTask ==
    /\ Pub.at = "create"
    /\ \/ /\ ActiveTasks = {}
          /\ tasks' = Append(tasks, NewTask)
          /\ proc' = [proc EXCEPT ![Publisher].at = "apply", ![Publisher].task = Latest + 1]
          /\ UNCHANGED plan
       \/ /\ ActiveTasks # {}
          /\ proc' = [proc EXCEPT ![Publisher] = Idle]
          /\ plan' = NoTargets
          /\ UNCHANGED tasks
    /\ UNCHANGED <<desired, applied, reports>>

\* UpdateTask to "dispatching" and to "applying".
MarkApplying ==
    /\ Pub.at = "apply"
    /\ tasks' = [tasks EXCEPT ![Pub.task].status = "active"]
    /\ Goto(Publisher, IF Pub.retry THEN "stage" ELSE "render")
    /\ UNCHANGED <<desired, applied, plan, reports>>

\* renderNodeStateUpdates: a node whose state changes gets the next version,
\* one that has not applied its unchanged state is waited for again.
PublishTargets(changed) ==
    [n \in Nodes |-> IF n \in changed THEN desired[n] + 1
                     ELSE IF applied[n] < desired[n] THEN desired[n] ELSE 0]

Render ==
    /\ Pub.at = "render"
    /\ \E changed \in SUBSET {n \in Nodes : desired[n] < MaxVersion} :
          /\ {n \in Nodes : desired[n] = 0} \subseteq changed
          /\ plan' = PublishTargets(changed)
    /\ Goto(Publisher, "stage")
    /\ UNCHANGED <<tasks, desired, applied, reports>>

\* CommitSitePublication, or CreatePublishTaskNodes of a retry: neither looks
\* at the status of the task.
Staged(t, targets) ==
    [t EXCEPT !.target = targets,
              !.result = [n \in Nodes |-> IF targets[n] > 0 THEN "pending" ELSE "none"]]

Stage ==
    /\ Pub.at = "stage"
    /\ tasks' = [tasks EXCEPT ![Pub.task] = Staged(@, plan)]
    /\ desired' = [n \in Nodes |-> IF plan[n] > desired[n] THEN plan[n] ELSE desired[n]]
    /\ plan' = NoTargets
    /\ IF plan = NoTargets THEN Goto(Publisher, "finish")
       ELSE proc' = [proc EXCEPT ![Publisher] = Idle]
    /\ UNCHANGED <<applied, reports>>

\* The site cannot be rendered, or its draft has changed, or a node upgrades.
FailPublish ==
    /\ Pub.at \in {"render", "stage"}
    /\ UpdateTask(Pub.task, NoVerdict)
    /\ plan' = NoTargets
    /\ proc' = [proc EXCEPT ![Publisher] = Idle]
    /\ UNCHANGED <<desired, applied, reports>>

\* publishSiteLocked without targets: there is nothing to wait for.
FinishWithoutTargets ==
    /\ Pub.at = "finish"
    /\ UpdateTask(Pub.task, Outcome(0, 0))
    /\ proc' = [proc EXCEPT ![Publisher] = Idle]
    /\ UNCHANGED <<desired, applied, plan, reports>>

\* PublishNode, PublishAll or the publication of another site changes the
\* node's state, under the same mutex.
PublishOther(n) ==
    /\ Pub.at = "idle"
    /\ desired[n] < MaxVersion
    /\ desired' = [desired EXCEPT ![n] = @ + 1]
    /\ UNCHANGED <<tasks, applied, proc, plan, reports>>

-------------------------------------------------------------------------------
(* Time and restarts *)

Rendering == Pub.at \in {"apply", "render", "stage", "finish"}

\* The 90 seconds of a task pass.
Expire(i) ==
    /\ tasks[i].status = "active"
    /\ ~tasks[i].expired
    /\ SlowRendering \/ ~Rendering
    /\ tasks' = [tasks EXCEPT ![i].expired = TRUE]
    /\ UNCHANGED <<desired, applied, proc, plan, reports>>

\* The controller restarts: only the database survives.
ControllerRestart ==
    /\ proc' = [p \in Procs |-> Idle]
    /\ plan' = NoTargets
    /\ UNCHANGED <<tasks, desired, applied, reports>>

-------------------------------------------------------------------------------

Reconcile(p) == \/ ListActive(p) \/ ConfirmApplied(p) \/ CountResults(p) \/ TimeOut(p)
                \/ Close(p) \/ ListClosed(p) \/ ConfirmLate(p) \/ CountLate(p)
                \/ CloseLate(p)

Publish == \/ PlanRetry \/ RefuseRetry \/ CreateTask \/ MarkApplying \/ Render
           \/ Stage \/ FailPublish \/ FinishWithoutTargets

Next ==
    \/ \E n \in Nodes, ok \in BOOLEAN : Apply(n, ok)
    \/ \E n \in Nodes : PublishOther(n)
    \/ \E p \in Workers, n \in Nodes : ReceiveHeartbeat(p, n)
    \/ \E p \in Workers : AdvanceApplied(p) \/ StartPoll(p)
    \/ \E p \in Procs : Reconcile(p)
    \/ StartPublish \/ StartRetry \/ Publish
    \/ \E i \in DOMAIN tasks : Expire(i)
    \/ ControllerRestart

Spec == Init /\ [][Next]_vars

\* A health round comes again and again, every process that runs goes on, the
\* clock passes every deadline.
LiveSpec ==
    /\ Spec
    /\ \A p \in Workers : WF_vars(StartPoll(p) \/ AdvanceApplied(p))
    /\ \A p \in Procs : WF_vars(Reconcile(p))
    /\ WF_vars(Publish)
    /\ WF_vars(\E i \in DOMAIN tasks : Expire(i))

-------------------------------------------------------------------------------
(* Properties *)

\* A row says "succeeded" only when the edge has loaded the version it waits
\* for, or a newer one: neither an old report, nor the failure of another
\* version, nor a heartbeat handled late confirms a publication.
ConfirmedMeansLoaded ==
    \A t \in {tasks[i] : i \in DOMAIN tasks} : \A n \in With(t, "succeeded") :
        \E v \in Loaded(n) : v >= t.target[n]

\* A task that succeeded has the confirmation of every target, however the
\* reconcilers, the reports and the deadline interleave; the detail text of any
\* closed task counts no confirmation that is not there.
SucceededMeansConfirmed ==
    \A t \in {tasks[i] : i \in DOMAIN tasks} :
        /\ t.status = "succeeded" => Targets(t) = With(t, "succeeded")
        /\ t.status \in Closed => t.confirmed =< Cardinality(With(t, "succeeded"))

\* The results of a task are final once a newer task exists: a run of the
\* reconciliation that began before does not settle a row of the older task.
\* "A retry never republishes an obsolete node target": whatever a task waits
\* for is the node's desired state at the moment its targets are stored.
ResultsStayCurrent ==
    [][\A i \in DOMAIN tasks :
          /\ i < Latest => tasks'[i].result = tasks[i].result
          /\ tasks'[i].target # tasks[i].target =>
                \A n \in Targets(tasks'[i]) : tasks'[i].target[n] = desired'[n]]_vars

\* Restarts of the controller come to an end, those excepted that do what the
\* end of the only running process does.
EventuallyUp ==
    <>[][ControllerRestart => Publish \/ \E p \in Procs : Reconcile(p)]_vars

LateApplied(i) ==
    /\ Latest = i
    /\ LatestFailed
    /\ Targets(tasks[i]) # {}
    /\ \A n \in Targets(tasks[i]) : applied[n] >= tasks[i].target[n]

\* Every task is closed in the end, also one whose publisher died before it
\* stored targets, and one whose edges never answer: an active task blocks
\* every later publication of the site.  And the latest task ends as succeeded
\* when its edges have applied their targets after all, even if the run that
\* noticed it was cut off, or a slower run has overwritten the outcome.
TasksSettle ==
    EventuallyUp =>
        \A i \in 1..MaxTasks :
            /\ i \in ActiveTasks ~> i \in DOMAIN tasks \ ActiveTasks
            /\ LateApplied(i) ~> \/ Latest > i
                                 \/ i \in DOMAIN tasks /\ tasks[i].status = "succeeded"
===============================================================================
