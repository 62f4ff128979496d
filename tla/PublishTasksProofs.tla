-------------------------- MODULE PublishTasksProofs --------------------------
(* Theorems about PublishTasks, for every set of nodes and of workers. *)
EXTENDS PublishTasks, TLAPS, FiniteSetTheorems, SequenceTheorems

-------------------------------------------------------------------------------
(* Rows and counts *)

\* The nodes with some result can be counted.
LEMMA WithCount ==
    ASSUME NEW t, NEW result
    PROVE  IsFiniteSet(With(t, result)) /\ Cardinality(With(t, result)) \in Nat
<1>1. With(t, result) \subseteq Nodes
  BY DEF With
<1> QED BY <1>1, FS_Subset, FS_CardinalityType, ConstantsAssumption

LEMMA TargetsCount ==
    ASSUME NEW t
    PROVE  IsFiniteSet(Targets(t)) /\ Cardinality(Targets(t)) \in Nat
<1>1. Targets(t) \subseteq Nodes
  BY DEF Targets
<1> QED BY <1>1, FS_Subset, FS_CardinalityType, ConstantsAssumption

LEMMA OutcomeType ==
    ASSUME NEW total, NEW confirmed \in Nat
    PROVE  Outcome(total, confirmed) \in Verdict
BY DEF Outcome, Verdict, Closed

\* Replacing one task, or none, leaves a sequence of tasks.
LEMMA ReplaceTask ==
    ASSUME NEW ts \in Seq(Task), NEW i, NEW t, i \in DOMAIN ts => t \in Task
    PROVE  /\ [ts EXCEPT ![i] = t] \in Seq(Task)
           /\ DOMAIN [ts EXCEPT ![i] = t] = DOMAIN ts
<1>1. CASE i \in DOMAIN ts
  BY <1>1, ExceptSeq, LenProperties
<1>2. CASE i \notin DOMAIN ts
  <2>1. [ts EXCEPT ![i] = t] = ts
    BY <1>2
  <2> QED BY <2>1
<1> QED BY <1>1, <1>2

LEMMA TaskAt ==
    ASSUME NEW ts \in Seq(Task), NEW i \in DOMAIN ts
    PROVE  ts[i] \in Task
BY ElementOfSeq, LenProperties

LEMMA SettleType ==
    ASSUME NEW t \in Task, NEW nodes, NEW from, NEW to \in {"succeeded", "timed_out"}
    PROVE  Settle(t, nodes, from, to) \in Task
<1> DEFINE result == [n \in Nodes |-> IF n \in nodes /\ t.result[n] \in from
                                     THEN to ELSE t.result[n]]
<1>1. result \in [Nodes -> {"none", "pending", "succeeded", "failed", "timed_out"}]
  BY DEF Task
<1>2. [t EXCEPT !.result = result] \in Task
  BY <1>1 DEF Task
<1> QED BY <1>2 DEF Settle

\* A verdict is written over the status and the detail of a task.
Judged(t, verdict) ==
    [t EXCEPT !.status = verdict.status, !.confirmed = verdict.confirmed]

LEMMA JudgedType ==
    ASSUME NEW t \in Task, NEW verdict \in Verdict
    PROVE  Judged(t, verdict) \in Task
BY DEF Judged, Task, Verdict

\* What the publisher and the clock write over a task.
LEMMA FieldTypes ==
    ASSUME NEW t \in Task
    PROVE  /\ [t EXCEPT !.status = "active"] \in Task
           /\ [t EXCEPT !.expired = TRUE] \in Task
           /\ \A targets \in [Nodes -> Nat] : Staged(t, targets) \in Task
<1>1. [t EXCEPT !.status = "active"] \in Task /\ [t EXCEPT !.expired = TRUE] \in Task
  BY DEF Task
<1>2. ASSUME NEW targets \in [Nodes -> Nat] PROVE Staged(t, targets) \in Task
  <2> DEFINE result == [n \in Nodes |-> IF targets[n] > 0 THEN "pending" ELSE "none"]
  <2>1. result \in [Nodes -> {"none", "pending", "succeeded", "failed", "timed_out"}]
    OBVIOUS
  <2> HIDE DEF result
  <2>2. [t EXCEPT !.target = targets, !.result = result] \in Task
    BY <2>1 DEF Task
  <2> QED BY <2>2 DEF Staged, result
<1> QED BY <1>1, <1>2

LEMMA UpdateTaskType ==
    ASSUME tasks \in Seq(Task), NEW i, NEW verdict \in Verdict, UpdateTask(i, verdict)
    PROVE  tasks' = [tasks EXCEPT ![i] = Judged(tasks[i], verdict)] /\ tasks' \in Seq(Task)
<1>1. tasks' = [tasks EXCEPT ![i] = Judged(tasks[i], verdict)]
  BY DEF UpdateTask, Judged
<1>2. i \in DOMAIN tasks => Judged(tasks[i], verdict) \in Task
  BY TaskAt, JudgedType
<1> QED BY <1>1, <1>2, ReplaceTask

LEMMA IdleType == Idle \in Process /\ NoVerdict \in Verdict
BY DEF Idle, NoVerdict, Process, Verdict, Closed

-------------------------------------------------------------------------------
(* Type correctness *)

LEMMA TypeInit == Init => TypeOK
<1> SUFFICES ASSUME Init PROVE TypeOK
  OBVIOUS
<1>1. tasks \in Seq(Task)
  BY EmptySeq DEF Init
<1> QED BY <1>1, IdleType DEF Init, TypeOK, NoTargets

\* ReturnTo and a step to another statement keep a process a process.
LEMMA GotoType ==
    ASSUME TypeOK, NEW p \in Procs
    PROVE  /\ Return(p) \in [Procs -> Process]
           /\ \A at \in {"idle", "list", "confirm", "count", "close", "list_closed", "late",
                         "late_count", "stage", "render", "finish"} :
                  Goto(p, at) => proc' \in [Procs -> Process]
<1>1. proc[p] \in Process /\ proc \in [Procs -> Process]
  BY DEF TypeOK
<1>2. Return(p) \in [Procs -> Process]
  <2>1. [proc[p] EXCEPT !.at = proc[p].next, !.task = 0, !.verdict = NoVerdict,
                        !.changed = FALSE] \in Process
    BY <1>1, IdleType DEF Process
  <2> QED BY <1>1, <2>1 DEF Return
<1>3. ASSUME NEW at \in {"idle", "list", "confirm", "count", "close", "list_closed", "late",
                         "late_count", "stage", "render", "finish"}, Goto(p, at)
      PROVE  proc' \in [Procs -> Process]
  <2>1. [proc[p] EXCEPT !.at = at] \in Process
    BY <1>1 DEF Process
  <2> QED BY <1>1, <1>3, <2>1 DEF Goto
<1> QED BY <1>2, <1>3

\* The statements of the reconciliation.
LEMMA TypeReconcile ==
    ASSUME TypeOK, NEW p \in Procs, Reconcile(p)
    PROVE  TypeOK'
<1> DEFINE i == proc[p].task
<1>1. /\ proc \in [Procs -> Process] /\ proc[p] \in Process /\ tasks \in Seq(Task)
      /\ proc[p].verdict \in Verdict
  BY DEF TypeOK, Process
<1>2. /\ UNCHANGED <<desired, applied, plan, reports>>
      /\ tasks' \in Seq(Task) /\ proc' \in [Procs -> Process]
  <2>1. CASE ListActive(p)
    <3>1. ASSUME NEW k \in ActiveTasks
          PROVE  [proc EXCEPT ![p].at = "confirm", ![p].task = k] \in [Procs -> Process]
      <4>1. k \in Nat
        BY <1>1, LenProperties DEF ActiveTasks, Latest
      <4>2. [proc[p] EXCEPT !.at = "confirm", !.task = k] \in Process
        BY <1>1, <4>1 DEF Process
      <4> QED BY <1>1, <4>2
    <3>2. \/ \E k \in ActiveTasks : proc' = [proc EXCEPT ![p].at = "confirm", ![p].task = k]
          \/ Goto(p, "list_closed")
      BY <2>1 DEF ListActive
    <3>3. proc' \in [Procs -> Process]
      BY <3>1, <3>2, GotoType
    <3>4. tasks' = tasks /\ UNCHANGED <<desired, applied, plan, reports>>
      BY <2>1 DEF ListActive
    <3> QED BY <1>1, <3>3, <3>4
  <2>2. CASE ConfirmApplied(p)
    <3>1. i \in DOMAIN tasks => Settle(tasks[i], HaveApplied(tasks[i]), {"pending"}, "succeeded") \in Task
      BY <1>1, TaskAt, SettleType
    <3> QED BY <1>1, <2>2, <3>1, ReplaceTask, GotoType DEF ConfirmApplied
  <2>3. CASE CountResults(p)
    <3> DEFINE verdict == Outcome(Cardinality(Targets(tasks[i])),
                                  Cardinality(With(tasks[i], "succeeded")))
    <3>1. verdict \in Verdict
      BY WithCount, OutcomeType
    <3>2. ASSUME NEW at \in {"close", "expire"}, NEW v \in Verdict
          PROVE  [proc EXCEPT ![p].at = at, ![p].verdict = v] \in [Procs -> Process]
      <4>1. [proc[p] EXCEPT !.at = at, !.verdict = v] \in Process
        BY <1>1 DEF Process
      <4> QED BY <1>1, <4>1
    <3>3. \/ Goto(p, "list_closed")
          \/ \E at \in {"close", "expire"}, v \in {verdict, NoVerdict} :
                proc' = [proc EXCEPT ![p].at = at, ![p].verdict = v]
      BY <2>3 DEF CountResults
    <3> HIDE DEF verdict
    <3>4. proc' \in [Procs -> Process]
      <4>1. CASE Goto(p, "list_closed")
        BY <4>1, GotoType
      <4>2. ASSUME NEW at \in {"close", "expire"}, NEW v \in {verdict, NoVerdict},
                   proc' = [proc EXCEPT ![p].at = at, ![p].verdict = v]
            PROVE  proc' \in [Procs -> Process]
        <5>1. v \in Verdict
          BY <3>1, IdleType
        <5> QED BY <3>2, <4>2, <5>1
      <4> QED BY <3>3, <4>1, <4>2
    <3>5. tasks' = tasks /\ UNCHANGED <<desired, applied, plan, reports>>
      BY <2>3 DEF CountResults
    <3> QED BY <1>1, <3>4, <3>5
  <2>4. CASE TimeOut(p)
    <3>1. i \in DOMAIN tasks => Settle(tasks[i], Nodes, {"pending"}, "timed_out") \in Task
      BY <1>1, TaskAt, SettleType
    <3> QED BY <1>1, <2>4, <3>1, ReplaceTask, GotoType DEF TimeOut
  <2>5. CASE Close(p)
    BY <1>1, <2>5, UpdateTaskType, GotoType DEF Close
  <2>6. CASE ListClosed(p)
    <3>1. ASSUME LatestFailed
          PROVE  [proc EXCEPT ![p].at = "late", ![p].task = Latest,
                    ![p].verdict = [status |-> tasks[Latest].status,
                                    confirmed |-> tasks[Latest].confirmed]] \in [Procs -> Process]
      <4>1. Latest \in DOMAIN tasks /\ Latest \in Nat
        BY <1>1, <3>1, LenProperties DEF Latest, LatestFailed
      <4>2. [status |-> tasks[Latest].status, confirmed |-> tasks[Latest].confirmed] \in Verdict
        BY <1>1, <3>1, <4>1, TaskAt DEF LatestFailed, Verdict, Closed, Task
      <4>3. [proc[p] EXCEPT !.at = "late", !.task = Latest,
               !.verdict = [status |-> tasks[Latest].status,
                            confirmed |-> tasks[Latest].confirmed]] \in Process
        BY <1>1, <4>1, <4>2 DEF Process
      <4> QED BY <1>1, <4>3
    <3> QED BY <1>1, <2>6, <3>1, GotoType DEF ListClosed
  <2>7. CASE ConfirmLate(p)
    <3> DEFINE late == IF i = Latest THEN HaveApplied(tasks[i]) ELSE {}
               repaired == Settle(tasks[i], late, {"failed", "timed_out"}, "succeeded")
    <3>1. i \in DOMAIN tasks => repaired \in Task
      BY <1>1, TaskAt, SettleType
    <3>2. tasks' \in Seq(Task)
      BY <1>1, <2>7, <3>1, ReplaceTask DEF ConfirmLate
    <3>3. [proc[p] EXCEPT !.at = "late_count", !.changed = (repaired # tasks[i])] \in Process
      BY <1>1 DEF Process
    <3>4. proc' = [proc EXCEPT ![p].at = "late_count", ![p].changed = (repaired # tasks[i])]
      BY <2>7 DEF ConfirmLate
    <3>5. proc' \in [Procs -> Process]
      BY <1>1, <3>3, <3>4
    <3> QED BY <2>7, <3>2, <3>5 DEF ConfirmLate
  <2>8. CASE CountLate(p)
    <3> DEFINE verdict == Outcome(Cardinality(Targets(tasks[i])),
                                  Cardinality(With(tasks[i], "succeeded")))
    <3>1. verdict \in Verdict
      BY WithCount, OutcomeType
    <3>2. [proc[p] EXCEPT !.at = "late_close", !.verdict = verdict] \in Process
      BY <1>1, <3>1 DEF Process
    <3>3. \/ proc' = Return(p)
          \/ proc' = [proc EXCEPT ![p].at = "late_close", ![p].verdict = verdict]
      BY <2>8 DEF CountLate
    <3> QED BY <1>1, <2>8, <3>2, <3>3, GotoType DEF CountLate
  <2>9. CASE CloseLate(p)
    BY <1>1, <2>9, UpdateTaskType, GotoType DEF CloseLate
  <2> QED BY <2>1, <2>2, <2>3, <2>4, <2>5, <2>6, <2>7, <2>8, <2>9 DEF Reconcile
<1> QED BY <1>2 DEF TypeOK

\* The steps of the publisher.
LEMMA TypePublish ==
    ASSUME TypeOK, Publish
    PROVE  TypeOK'
<1>1. /\ proc \in [Procs -> Process] /\ Publisher \in Procs /\ Pub \in Process
      /\ tasks \in Seq(Task) /\ plan \in [Nodes -> Nat] /\ desired \in [Nodes -> Nat]
      /\ applied \in [Nodes -> Nat] /\ reports \in [Nodes -> SUBSET Report]
  BY DEF TypeOK, Procs, Pub
<1>2. [proc EXCEPT ![Publisher] = Idle] \in [Procs -> Process]
  BY <1>1, IdleType
<1>3. CASE PlanRetry
  <2>1. [Pub EXCEPT !.at = "list", !.next = "create"] \in Process
    BY <1>1 DEF Process
  <2>2. proc' \in [Procs -> Process]
    BY <1>1, <1>3, <2>1 DEF PlanRetry, Pub
  <2>3. plan' \in [Nodes -> Nat]
    BY <1>1, <1>3 DEF PlanRetry, RetryTargets
  <2> QED BY <1>1, <1>3, <2>2, <2>3 DEF PlanRetry, TypeOK
<1>4. CASE RefuseRetry
  BY <1>1, <1>2, <1>4 DEF RefuseRetry, TypeOK
<1>5. CASE CreateTask
  <2>1. NewTask \in Task
    BY DEF NewTask, Task, NoTargets
  <2>2. Append(tasks, NewTask) \in Seq(Task)
    BY <1>1, <2>1
  <2>3. Latest + 1 \in Nat
    BY <1>1 DEF Latest
  <2>4. [Pub EXCEPT !.at = "apply", !.task = Latest + 1] \in Process
    BY <1>1, <2>3 DEF Process
  <2>5. [proc EXCEPT ![Publisher].at = "apply", ![Publisher].task = Latest + 1]
           \in [Procs -> Process]
    BY <1>1, <2>4 DEF Pub
  <2>6. CASE ActiveTasks = {}
    <3>1. /\ tasks' = Append(tasks, NewTask) /\ UNCHANGED <<plan, desired, applied, reports>>
          /\ proc' = [proc EXCEPT ![Publisher].at = "apply", ![Publisher].task = Latest + 1]
      BY <1>5, <2>6 DEF CreateTask
    <3> QED BY <1>1, <2>2, <2>5, <3>1 DEF TypeOK
  <2>7. CASE ActiveTasks # {}
    <3>1. /\ plan' = NoTargets /\ UNCHANGED <<tasks, desired, applied, reports>>
          /\ proc' = [proc EXCEPT ![Publisher] = Idle]
      BY <1>5, <2>7 DEF CreateTask
    <3> QED BY <1>1, <1>2, <3>1 DEF TypeOK, NoTargets
  <2> QED BY <2>6, <2>7
<1>6. CASE MarkApplying
  <2>1. Pub.task \in DOMAIN tasks => [tasks[Pub.task] EXCEPT !.status = "active"] \in Task
    BY <1>1, TaskAt, FieldTypes
  <2>2. tasks' = [tasks EXCEPT ![Pub.task] = [tasks[Pub.task] EXCEPT !.status = "active"]]
    BY <1>6 DEF MarkApplying
  <2>3. tasks' \in Seq(Task)
    BY <1>1, <2>1, <2>2, ReplaceTask
  <2>4. proc' \in [Procs -> Process]
    BY <1>1, <1>6, GotoType DEF MarkApplying
  <2> QED BY <1>1, <1>6, <2>3, <2>4 DEF MarkApplying, TypeOK
<1>7. CASE Render
  <2>1. \A changed : PublishTargets(changed) \in [Nodes -> Nat]
    BY <1>1 DEF PublishTargets
  <2>2. proc' \in [Procs -> Process]
    BY <1>1, <1>7, GotoType DEF Render
  <2> QED BY <1>1, <1>7, <2>1, <2>2 DEF Render, TypeOK
<1>8. CASE Stage
  <2>1. Pub.task \in DOMAIN tasks => Staged(tasks[Pub.task], plan) \in Task
    BY <1>1, TaskAt, FieldTypes
  <2>2. tasks' \in Seq(Task)
    BY <1>1, <1>8, <2>1, ReplaceTask DEF Stage
  <2>3. proc' \in [Procs -> Process]
    BY <1>1, <1>2, <1>8, GotoType DEF Stage
  <2>4. desired' \in [Nodes -> Nat] /\ plan' \in [Nodes -> Nat]
    BY <1>1, <1>8 DEF Stage, NoTargets
  <2> QED BY <1>1, <1>8, <2>2, <2>3, <2>4 DEF Stage, TypeOK
<1>9. CASE FailPublish
  <2>1. tasks' \in Seq(Task)
    BY <1>1, <1>9, IdleType, UpdateTaskType DEF FailPublish
  <2> QED BY <1>1, <1>2, <1>9, <2>1 DEF FailPublish, TypeOK, NoTargets
<1>10. CASE FinishWithoutTargets
  <2>1. tasks' \in Seq(Task)
    BY <1>1, <1>10, OutcomeType, UpdateTaskType DEF FinishWithoutTargets
  <2> QED BY <1>1, <1>2, <1>10, <2>1 DEF FinishWithoutTargets, TypeOK
<1> QED BY <1>3, <1>4, <1>5, <1>6, <1>7, <1>8, <1>9, <1>10 DEF Publish

\* Every other step.
LEMMA TypeNext == ASSUME TypeOK, [Next]_vars PROVE TypeOK'
<1>1. /\ proc \in [Procs -> Process] /\ Publisher \in Procs /\ Workers \subseteq Procs
      /\ tasks \in Seq(Task) /\ plan \in [Nodes -> Nat] /\ desired \in [Nodes -> Nat]
      /\ applied \in [Nodes -> Nat] /\ reports \in [Nodes -> SUBSET Report]
  BY DEF TypeOK, Procs
<1>2. ASSUME NEW n \in Nodes, NEW ok \in BOOLEAN, Apply(n, ok)
      PROVE  TypeOK'
  <2>1. [version |-> desired[n], ok |-> ok] \in Report
    BY <1>1 DEF Report
  <2> QED BY <1>1, <1>2, <2>1 DEF Apply, TypeOK
<1>3. ASSUME NEW n \in Nodes, PublishOther(n)
      PROVE  TypeOK'
  BY <1>1, <1>3 DEF PublishOther, TypeOK
<1>4. ASSUME NEW p \in Workers, NEW n \in Nodes, ReceiveHeartbeat(p, n)
      PROVE  TypeOK'
  <2>1. PICK v \in Loaded(n), r \in reports[n] \cup {NoReport} :
          /\ tasks' = IF r = NoReport THEN tasks
                      ELSE [i \in DOMAIN tasks |-> Recorded(tasks[i], n, r)]
          /\ proc' = [proc EXCEPT ![p] =
                         [Idle EXCEPT !.at = "advance", !.node = n, !.version = v]]
    BY <1>4 DEF ReceiveHeartbeat
  <2>2. v \in Nat
    BY <1>1 DEF Loaded, Report
  <2>3. [Idle EXCEPT !.at = "advance", !.node = n, !.version = v] \in Process
    BY <2>2, IdleType DEF Process
  <2>4. ASSUME NEW t \in Task PROVE Recorded(t, n, r) \in Task
    BY <2>4 DEF Recorded, Task
  <2>5. [i \in DOMAIN tasks |-> Recorded(tasks[i], n, r)] \in Seq(Task)
    <3>1. DOMAIN tasks = 1..Len(tasks) /\ Len(tasks) \in Nat
      BY <1>1, LenProperties
    <3>2. \A i \in 1..Len(tasks) : Recorded(tasks[i], n, r) \in Task
      BY <1>1, <2>4, <3>1, TaskAt
    <3>3. [i \in 1..Len(tasks) |-> Recorded(tasks[i], n, r)] \in [1..Len(tasks) -> Task]
      BY <3>2
    <3>4. [1..Len(tasks) -> Task] \subseteq Seq(Task)
      BY <3>1, SeqDef
    <3> QED BY <3>1, <3>3, <3>4
  <2>6. tasks' \in Seq(Task) /\ proc' \in [Procs -> Process]
    BY <1>1, <2>1, <2>3, <2>5
  <2> QED BY <1>1, <1>4, <2>6 DEF ReceiveHeartbeat, TypeOK
<1>5. ASSUME NEW p \in Workers, AdvanceApplied(p)
      PROVE  TypeOK'
  <2>1. proc[p].version \in Nat /\ [Idle EXCEPT !.at = "list"] \in Process
    BY <1>1, IdleType DEF Process
  <2> QED BY <1>1, <1>5, <2>1 DEF AdvanceApplied, TypeOK
<1>6. ASSUME NEW p \in Workers, StartPoll(p)
      PROVE  TypeOK'
  <2>1. [Idle EXCEPT !.at = "list"] \in Process
    BY IdleType DEF Process
  <2> QED BY <1>1, <1>6, <2>1 DEF StartPoll, TypeOK
<1>7. ASSUME StartPublish \/ StartRetry
      PROVE  TypeOK'
  <2>1. /\ [Idle EXCEPT !.at = "list", !.next = "create"] \in Process
        /\ [Idle EXCEPT !.at = "list", !.next = "plan", !.retry = TRUE] \in Process
    BY IdleType DEF Process
  <2> QED BY <1>1, <1>7, <2>1 DEF StartPublish, StartRetry, TypeOK
<1>8. ASSUME NEW i \in DOMAIN tasks, Expire(i)
      PROVE  TypeOK'
  <2>1. [tasks[i] EXCEPT !.expired = TRUE] \in Task
    BY <1>1, TaskAt, FieldTypes
  <2>2. tasks' = [tasks EXCEPT ![i] = [tasks[i] EXCEPT !.expired = TRUE]]
    BY <1>8 DEF Expire
  <2>3. tasks' \in Seq(Task)
    BY <1>1, <2>1, <2>2, ReplaceTask
  <2> QED BY <1>1, <1>8, <2>3 DEF Expire, TypeOK
<1>9. CASE ControllerRestart
  BY <1>1, <1>9, IdleType DEF ControllerRestart, TypeOK, NoTargets
<1>10. CASE UNCHANGED vars
  BY <1>10 DEF vars, TypeOK
<1> QED BY <1>2, <1>3, <1>4, <1>5, <1>6, <1>7, <1>8, <1>9, <1>10, TypeReconcile, TypePublish
     DEF Next

\* The tables, the processes and the edges of PublishTasks always have the
\* shape that the statements of ReconcilePublishTasks and the publisher expect.
THEOREM TypeCorrect == Spec => []TypeOK
<1> QED BY TypeInit, TypeNext, PTL DEF Spec

-------------------------------------------------------------------------------
(* A confirmed row is a loaded version *)

\* The edge has loaded this version or a newer one.
Backed(n, v) == \E w \in Loaded(n) : w >= v

Confirmed(t) == \A n \in With(t, "succeeded") : Backed(n, t.target[n])
AllConfirmed(ts) == \A i \in DOMAIN ts : Confirmed(ts[i])

\* What the controller believes an edge has applied, or is about to believe,
\* the edge has loaded.
AppliedBacked ==
    /\ \A n \in Nodes : Backed(n, applied[n])
    /\ \A p \in Procs : proc[p].at = "advance" =>
          proc[p].node \in Nodes /\ Backed(proc[p].node, proc[p].version)

ConfirmInv == TypeOK /\ ConfirmedMeansLoaded /\ AppliedBacked

LEMMA ConfirmedEachTask == ConfirmedMeansLoaded <=> AllConfirmed(tasks)
BY DEF ConfirmedMeansLoaded, AllConfirmed, Confirmed, Backed

LEMMA BackedOlder ==
    ASSUME NEW n \in Nodes, NEW v \in Nat, NEW w \in Nat, Backed(n, w), v =< w, TypeOK
    PROVE  Backed(n, v)
<1>1. Loaded(n) \subseteq Nat
  BY DEF TypeOK, Loaded, Report
<1> QED BY <1>1 DEF Backed

LEMMA ConfirmedReplaced ==
    ASSUME NEW ts \in Seq(Task), NEW i, NEW t, AllConfirmed(ts), i \in DOMAIN ts => Confirmed(t)
    PROVE  AllConfirmed([ts EXCEPT ![i] = t])
BY DEF AllConfirmed

\* Rows that are settled for nodes which have applied their targets.
LEMMA ConfirmedSettled ==
    ASSUME TypeOK, AppliedBacked, NEW t \in Task, Confirmed(t),
           NEW nodes, nodes \subseteq HaveApplied(t), NEW from
    PROVE  Confirmed(Settle(t, nodes, from, "succeeded"))
<1> DEFINE s == Settle(t, nodes, from, "succeeded")
<1> SUFFICES ASSUME NEW n \in With(s, "succeeded") PROVE Backed(n, s.target[n])
  BY DEF Confirmed
<1>1. n \in Nodes /\ s.target = t.target /\ t.target[n] \in Nat /\ applied[n] \in Nat
  BY DEF With, Settle, Task, TypeOK
<1>2. n \in nodes \/ n \in With(t, "succeeded")
  BY <1>1 DEF With, Settle, Task
<1>3. CASE n \in nodes
  <2>1. Backed(n, applied[n]) /\ t.target[n] =< applied[n]
    BY <1>1, <1>3 DEF AppliedBacked, HaveApplied
  <2> QED BY <1>1, <2>1, BackedOlder
<1>4. CASE n \in With(t, "succeeded")
  BY <1>1, <1>4 DEF Confirmed
<1> QED BY <1>2, <1>3, <1>4

LEMMA ConfirmedTimedOut ==
    ASSUME NEW t \in Task, Confirmed(t), NEW nodes, NEW from
    PROVE  Confirmed(Settle(t, nodes, from, "timed_out"))
<1> DEFINE s == Settle(t, nodes, from, "timed_out")
<1>1. s.target = t.target /\ With(s, "succeeded") \subseteq With(t, "succeeded")
  BY DEF With, Settle, Task
<1> QED BY <1>1 DEF Confirmed

\* Nothing but the rows counts.
LEMMA ConfirmedSameRows ==
    ASSUME NEW t, NEW s, Confirmed(t), s.result = t.result, s.target = t.target
    PROVE  Confirmed(s)
BY DEF Confirmed, With

LEMMA ConfirmedUpdated ==
    ASSUME TypeOK, AllConfirmed(tasks), NEW i, NEW verdict \in Verdict, UpdateTask(i, verdict)
    PROVE  AllConfirmed(tasks')
<1>1. /\ tasks \in Seq(Task)
      /\ tasks' = [tasks EXCEPT ![i] = Judged(tasks[i], verdict)]
  BY UpdateTaskType DEF TypeOK
<1>2. ASSUME i \in DOMAIN tasks PROVE Confirmed(Judged(tasks[i], verdict))
  <2>1. tasks[i] \in Task /\ Confirmed(tasks[i])
    BY <1>1, <1>2, TaskAt DEF AllConfirmed
  <2>2. /\ Judged(tasks[i], verdict).result = tasks[i].result
        /\ Judged(tasks[i], verdict).target = tasks[i].target
    BY <2>1 DEF Judged, Task
  <2> QED BY <2>1, <2>2, ConfirmedSameRows
<1> QED BY <1>1, <1>2, ConfirmedReplaced

LEMMA ConfirmedReconcile ==
    ASSUME ConfirmInv, NEW p \in Procs, Reconcile(p)
    PROVE  AllConfirmed(tasks')
<1> DEFINE i == proc[p].task
<1>1. /\ TypeOK /\ AppliedBacked /\ AllConfirmed(tasks) /\ tasks \in Seq(Task)
      /\ proc[p].verdict \in Verdict
  BY ConfirmedEachTask DEF ConfirmInv, TypeOK, Process
<1>2. i \in DOMAIN tasks => tasks[i] \in Task /\ Confirmed(tasks[i])
  BY <1>1, TaskAt DEF AllConfirmed
<1>3. CASE tasks' = tasks
  BY <1>1, <1>3
<1>4. CASE ConfirmApplied(p)
  <2>1. i \in DOMAIN tasks =>
          Confirmed(Settle(tasks[i], HaveApplied(tasks[i]), {"pending"}, "succeeded"))
    BY <1>1, <1>2, ConfirmedSettled
  <2>2. tasks' = [tasks EXCEPT ![i] =
                    Settle(tasks[i], HaveApplied(tasks[i]), {"pending"}, "succeeded")]
    BY <1>4 DEF ConfirmApplied
  <2> QED BY <1>1, <2>1, <2>2, ConfirmedReplaced
<1>5. CASE TimeOut(p)
  <2>1. i \in DOMAIN tasks => Confirmed(Settle(tasks[i], Nodes, {"pending"}, "timed_out"))
    BY <1>2, ConfirmedTimedOut
  <2>2. tasks' = [tasks EXCEPT ![i] = Settle(tasks[i], Nodes, {"pending"}, "timed_out")]
    BY <1>5 DEF TimeOut
  <2> QED BY <1>1, <2>1, <2>2, ConfirmedReplaced
<1>6. CASE ConfirmLate(p)
  <2> DEFINE late == IF i = Latest THEN HaveApplied(tasks[i]) ELSE {}
             repaired == Settle(tasks[i], late, {"failed", "timed_out"}, "succeeded")
  <2>1. i \in DOMAIN tasks => Confirmed(repaired)
    BY <1>1, <1>2, ConfirmedSettled
  <2>2. tasks' = [tasks EXCEPT ![i] = repaired]
    BY <1>6 DEF ConfirmLate
  <2> HIDE DEF repaired
  <2> QED BY <1>1, <2>1, <2>2, ConfirmedReplaced
<1>7. CASE Close(p) \/ CloseLate(p)
  <2>1. UpdateTask(i, proc[p].verdict)
    BY <1>7 DEF Close, CloseLate
  <2> QED BY <1>1, <2>1, ConfirmedUpdated
<1>8. ListActive(p) \/ CountResults(p) \/ ListClosed(p) \/ CountLate(p) => tasks' = tasks
  BY DEF ListActive, CountResults, ListClosed, CountLate
<1> QED BY <1>3, <1>4, <1>5, <1>6, <1>7, <1>8 DEF Reconcile

LEMMA ConfirmedPublish ==
    ASSUME ConfirmInv, Publish
    PROVE  AllConfirmed(tasks')
<1> DEFINE i == Pub.task
<1>1. /\ TypeOK /\ AllConfirmed(tasks) /\ tasks \in Seq(Task) /\ plan \in [Nodes -> Nat]
  BY ConfirmedEachTask DEF ConfirmInv, TypeOK
<1>2. i \in DOMAIN tasks => tasks[i] \in Task /\ Confirmed(tasks[i])
  BY <1>1, TaskAt DEF AllConfirmed
<1>3. CASE tasks' = tasks
  BY <1>1, <1>3
<1>4. CASE CreateTask
  <2>1. CASE tasks' = Append(tasks, NewTask)
    <3>1. Confirmed(NewTask)
      BY DEF Confirmed, With, NewTask
    <3> QED BY <1>1, <2>1, <3>1, AppendProperties DEF AllConfirmed
  <2> QED BY <1>3, <1>4, <2>1 DEF CreateTask
<1>5. CASE MarkApplying
  <2> DEFINE t == [tasks[i] EXCEPT !.status = "active"]
  <2>1. i \in DOMAIN tasks => t.result = tasks[i].result /\ t.target = tasks[i].target
    BY <1>2 DEF Task
  <2>2. tasks' = [tasks EXCEPT ![i] = t]
    BY <1>5 DEF MarkApplying
  <2> HIDE DEF t
  <2> QED BY <1>1, <1>2, <2>1, <2>2, ConfirmedSameRows, ConfirmedReplaced
<1>6. CASE Stage
  <2>1. i \in DOMAIN tasks => Confirmed(Staged(tasks[i], plan))
    BY <1>2 DEF Confirmed, With, Staged, Task
  <2>2. tasks' = [tasks EXCEPT ![i] = Staged(tasks[i], plan)]
    BY <1>6 DEF Stage
  <2> QED BY <1>1, <2>1, <2>2, ConfirmedReplaced
<1>7. CASE FailPublish \/ FinishWithoutTargets
  <2>1. UpdateTask(i, NoVerdict) \/ UpdateTask(i, Outcome(0, 0))
    BY <1>7 DEF FailPublish, FinishWithoutTargets
  <2> QED BY <1>1, <2>1, IdleType, OutcomeType, ConfirmedUpdated
<1>8. PlanRetry \/ RefuseRetry \/ Render => tasks' = tasks
  BY DEF PlanRetry, RefuseRetry, Render
<1> QED BY <1>3, <1>4, <1>5, <1>6, <1>7, <1>8 DEF Publish

\* A report settles a row only when it is newer than the row's target.
LEMMA ConfirmedRecorded ==
    ASSUME TypeOK, NEW t \in Task, Confirmed(t), NEW n \in Nodes, NEW r \in reports[n]
    PROVE  Confirmed(Recorded(t, n, r))
<1> DEFINE s == Recorded(t, n, r)
<1> SUFFICES ASSUME NEW m \in With(s, "succeeded") PROVE Backed(m, s.target[m])
  BY DEF Confirmed
<1>1. s.target = t.target /\ m \in Nodes /\ t.target[m] \in Nat /\ r \in Report
  BY DEF Recorded, With, Task, TypeOK
<1>2. m \in With(t, "succeeded") \/ (m = n /\ t.target[n] =< r.version /\ r.ok)
  BY DEF Recorded, With, Task
<1>3. CASE m \in With(t, "succeeded")
  BY <1>1, <1>3 DEF Confirmed
<1>4. CASE m = n /\ t.target[n] =< r.version /\ r.ok
  BY <1>1, <1>4 DEF Backed, Loaded, Report
<1> QED BY <1>2, <1>3, <1>4

LEMMA ConfirmedNext ==
    ASSUME ConfirmInv, [Next]_vars
    PROVE  AllConfirmed(tasks')
<1>1. TypeOK /\ AllConfirmed(tasks) /\ tasks \in Seq(Task)
  BY ConfirmedEachTask DEF ConfirmInv, TypeOK
<1>2. ASSUME NEW p \in Workers, NEW n \in Nodes, ReceiveHeartbeat(p, n)
      PROVE  AllConfirmed(tasks')
  <2>1. \/ tasks' = tasks
        \/ \E r \in reports[n] : tasks' = [i \in DOMAIN tasks |-> Recorded(tasks[i], n, r)]
    BY <1>2 DEF ReceiveHeartbeat
  <2>2. ASSUME NEW r \in reports[n], NEW i \in DOMAIN tasks
        PROVE  Confirmed(Recorded(tasks[i], n, r))
    BY <1>1, TaskAt, ConfirmedRecorded DEF AllConfirmed
  <2> QED BY <1>1, <2>1, <2>2 DEF AllConfirmed
<1>3. ASSUME NEW i \in DOMAIN tasks, Expire(i)
      PROVE  AllConfirmed(tasks')
  <2> DEFINE t == [tasks[i] EXCEPT !.expired = TRUE]
  <2>1. t.result = tasks[i].result /\ t.target = tasks[i].target /\ Confirmed(tasks[i])
    BY <1>1, TaskAt DEF Task, AllConfirmed
  <2>2. tasks' = [tasks EXCEPT ![i] = t]
    BY <1>3 DEF Expire
  <2> HIDE DEF t
  <2> QED BY <1>1, <2>1, <2>2, ConfirmedSameRows, ConfirmedReplaced
<1>4. \/ \E n \in Nodes, ok \in BOOLEAN : Apply(n, ok)
      \/ \E n \in Nodes : PublishOther(n)
      \/ \E p \in Workers : AdvanceApplied(p) \/ StartPoll(p)
      \/ StartPublish \/ StartRetry \/ ControllerRestart \/ UNCHANGED vars
      => tasks' = tasks
  BY DEF Apply, PublishOther, AdvanceApplied, StartPoll, StartPublish, StartRetry,
         ControllerRestart, vars
<1> QED BY <1>1, <1>2, <1>3, <1>4, ConfirmedReconcile, ConfirmedPublish DEF Next

\* An edge never unloads a version.
LEMMA LoadedGrows ==
    ASSUME TypeOK, [Next]_vars, NEW n \in Nodes
    PROVE  Loaded(n) \subseteq Loaded(n)'
<1>1. reports[n] \subseteq reports'[n]
  <2>1. CASE UNCHANGED reports
    BY <2>1
  <2>2. ASSUME NEW m \in Nodes, NEW ok \in BOOLEAN, Apply(m, ok)
        PROVE  reports[n] \subseteq reports'[n]
    BY <2>2 DEF Apply, TypeOK
  <2>3. (\E p \in Procs : Reconcile(p)) \/ Publish => UNCHANGED reports
    BY DEF Reconcile, ListActive, ConfirmApplied, CountResults, TimeOut, Close, ListClosed,
           ConfirmLate, CountLate, CloseLate, Publish, PlanRetry, RefuseRetry, CreateTask,
           MarkApplying, Render, Stage, FailPublish, FinishWithoutTargets
  <2>4. \/ \E m \in Nodes : PublishOther(m)
        \/ \E p \in Workers, m \in Nodes : ReceiveHeartbeat(p, m)
        \/ \E p \in Workers : AdvanceApplied(p) \/ StartPoll(p)
        \/ StartPublish \/ StartRetry \/ (\E i \in DOMAIN tasks : Expire(i))
        \/ ControllerRestart \/ UNCHANGED vars
        => UNCHANGED reports
    BY DEF PublishOther, ReceiveHeartbeat, AdvanceApplied, StartPoll, StartPublish, StartRetry,
           Expire, ControllerRestart, vars
  <2> QED BY <2>1, <2>2, <2>3, <2>4 DEF Next
<1> QED BY <1>1 DEF Loaded

\* A process that does not handle a heartbeat after the step, or did the same
\* before it, brings no new version.
AdvancesFrom(q) == q.at = "advance" => q.node \in Nodes /\ Backed(q.node, q.version)

LEMMA AppliedReconcile ==
    ASSUME TypeOK, NEW p \in Procs, Reconcile(p) \/ (Publish /\ p = Publisher)
    PROVE  applied' = applied /\ \A q \in Procs : proc'[q] = proc[q] \/ proc'[q].at # "advance"
<1>1. proc \in [Procs -> Process] /\ Publisher \in Procs
  BY DEF TypeOK, Procs
<1>2. proc[p] \in Process /\ proc[p].next # "advance"
  BY <1>1 DEF Process
<1>3. applied' = applied
  BY DEF Reconcile, ListActive, ConfirmApplied, CountResults, TimeOut, Close, ListClosed,
         ConfirmLate, CountLate, CloseLate, Publish, PlanRetry, RefuseRetry, CreateTask,
         MarkApplying, Render, Stage, FailPublish, FinishWithoutTargets
<1>4. ASSUME NEW at, at # "advance", Goto(p, at)
      PROVE  \A q \in Procs : proc'[q] = proc[q] \/ proc'[q].at # "advance"
  BY <1>1, <1>2, <1>4 DEF Goto, Process
<1>5. ASSUME proc' = Return(p)
      PROVE  \A q \in Procs : proc'[q] = proc[q] \/ proc'[q].at # "advance"
  BY <1>1, <1>2, <1>5 DEF Return, Process
<1>6. ASSUME proc' = [proc EXCEPT ![p] = Idle]
      PROVE  \A q \in Procs : proc'[q] = proc[q] \/ proc'[q].at # "advance"
  BY <1>1, <1>6 DEF Idle
<1>7. CASE Reconcile(p)
  <2>1. CASE ListActive(p)
    <3>1. PICK k : \/ proc' = [proc EXCEPT ![p].at = "confirm", ![p].task = k]
                   \/ Goto(p, "list_closed")
      BY <2>1 DEF ListActive
    <3> QED BY <1>1, <1>2, <1>3, <1>4, <3>1 DEF Process
  <2>2. CASE CountResults(p)
    <3>1. PICK at, v :
              \/ /\ at \in {"close", "expire"}
                 /\ proc' = [proc EXCEPT ![p].at = at, ![p].verdict = v]
              \/ Goto(p, "list_closed")
      BY <2>2 DEF CountResults
    <3> QED BY <1>1, <1>2, <1>3, <1>4, <3>1 DEF Process
  <2>3. CASE ListClosed(p)
    <3>1. PICK k, v : \/ proc' = [proc EXCEPT ![p].at = "late", ![p].task = k, ![p].verdict = v]
                      \/ proc' = Return(p)
      BY <2>3 DEF ListClosed
    <3> QED BY <1>1, <1>2, <1>3, <1>5, <3>1 DEF Process
  <2>4. CASE ConfirmLate(p)
    <3>1. PICK c : proc' = [proc EXCEPT ![p].at = "late_count", ![p].changed = c]
      BY <2>4 DEF ConfirmLate
    <3> QED BY <1>1, <1>2, <1>3, <3>1 DEF Process
  <2>5. CASE CountLate(p)
    <3>1. PICK v : \/ proc' = [proc EXCEPT ![p].at = "late_close", ![p].verdict = v]
                   \/ proc' = Return(p)
      BY <2>5 DEF CountLate
    <3> QED BY <1>1, <1>2, <1>3, <1>5, <3>1 DEF Process
  <2>6. CASE ConfirmApplied(p) \/ TimeOut(p) \/ Close(p)
    BY <1>3, <1>4, <2>6 DEF ConfirmApplied, TimeOut, Close
  <2>7. CASE CloseLate(p)
    BY <1>3, <1>5, <2>7 DEF CloseLate
  <2> QED BY <1>7, <2>1, <2>2, <2>3, <2>4, <2>5, <2>6, <2>7 DEF Reconcile
<1>8. CASE Publish /\ p = Publisher
  <2>1. CASE PlanRetry
    BY <1>1, <1>2, <1>3, <1>8, <2>1 DEF PlanRetry, Process
  <2>2. CASE CreateTask
    <3>1. PICK k : \/ proc' = [proc EXCEPT ![p].at = "apply", ![p].task = k]
                   \/ proc' = [proc EXCEPT ![p] = Idle]
      BY <1>8, <2>2 DEF CreateTask
    <3> QED BY <1>1, <1>2, <1>3, <1>6, <3>1 DEF Process
  <2>3. CASE MarkApplying \/ Render
    BY <1>3, <1>4, <1>8, <2>3 DEF MarkApplying, Render
  <2>4. CASE Stage
    BY <1>3, <1>4, <1>6, <1>8, <2>4 DEF Stage
  <2>5. CASE RefuseRetry \/ FailPublish \/ FinishWithoutTargets
    BY <1>3, <1>6, <1>8, <2>5 DEF RefuseRetry, FailPublish, FinishWithoutTargets
  <2> QED BY <1>8, <2>1, <2>2, <2>3, <2>4, <2>5 DEF Publish
<1> QED BY <1>3, <1>7, <1>8

LEMMA AppliedNext ==
    ASSUME ConfirmInv, [Next]_vars
    PROVE  AppliedBacked'
<1>1. /\ TypeOK /\ AppliedBacked /\ proc \in [Procs -> Process] /\ applied \in [Nodes -> Nat]
      /\ Publisher \in Procs /\ Workers \subseteq Procs
  BY DEF ConfirmInv, TypeOK, Procs
<1>2. \A n \in Nodes : \A v : Backed(n, v) => Backed(n, v)'
  BY <1>1, LoadedGrows DEF Backed
<1>3. SUFFICES /\ \A n \in Nodes : Backed(n, applied'[n])
               /\ \A p \in Procs : AdvancesFrom(proc'[p])
  BY <1>2 DEF AppliedBacked, AdvancesFrom, Backed
<1>4. /\ \A n \in Nodes : Backed(n, applied[n])
      /\ \A p \in Procs : AdvancesFrom(proc[p])
  BY <1>1 DEF AppliedBacked, AdvancesFrom
<1>5. CASE applied' = applied /\ \A q \in Procs : proc'[q] = proc[q] \/ proc'[q].at # "advance"
  BY <1>4, <1>5 DEF AdvancesFrom
<1>6. ASSUME NEW p \in Workers, NEW n \in Nodes, ReceiveHeartbeat(p, n)
      PROVE  /\ \A m \in Nodes : Backed(m, applied'[m])
             /\ \A q \in Procs : AdvancesFrom(proc'[q])
  <2>1. PICK v \in Loaded(n) :
          proc' = [proc EXCEPT ![p] = [Idle EXCEPT !.at = "advance", !.node = n, !.version = v]]
    BY <1>6 DEF ReceiveHeartbeat
  <2>2. applied' = applied
    BY <1>6 DEF ReceiveHeartbeat
  <2>3. v \in Nat /\ v >= v
    BY <1>1 DEF Loaded, TypeOK, Report
  <2>4. Backed(n, v)
    BY <2>1, <2>3 DEF Backed
  <2>5. proc'[p].node = n /\ proc'[p].version = v
    BY <1>1, <2>1 DEF Idle
  <2>6. \A q \in Procs : q # p => proc'[q] = proc[q]
    BY <1>1, <2>1
  <2> QED BY <1>4, <2>2, <2>4, <2>5, <2>6 DEF AdvancesFrom
<1>7. ASSUME NEW p \in Workers, AdvanceApplied(p)
      PROVE  /\ \A m \in Nodes : Backed(m, applied'[m])
             /\ \A q \in Procs : AdvancesFrom(proc'[q])
  <2>1. proc[p].node \in Nodes /\ Backed(proc[p].node, proc[p].version)
    BY <1>1, <1>4, <1>7 DEF AdvanceApplied, AdvancesFrom
  <2>2. \A m \in Nodes : applied'[m] = applied[m] \/ (m = proc[p].node /\ applied'[m] = proc[p].version)
    BY <1>1, <1>7 DEF AdvanceApplied
  <2>3. \A q \in Procs : proc'[q] = proc[q] \/ proc'[q].at # "advance"
    BY <1>1, <1>7 DEF AdvanceApplied, Idle
  <2> QED BY <1>4, <2>1, <2>2, <2>3 DEF AdvancesFrom
<1>8. (\E p \in Procs : Reconcile(p)) \/ Publish
      => applied' = applied /\ \A q \in Procs : proc'[q] = proc[q] \/ proc'[q].at # "advance"
  BY <1>1, AppliedReconcile
<1>9. \/ \E n \in Nodes, ok \in BOOLEAN : Apply(n, ok)
      \/ \E n \in Nodes : PublishOther(n)
      \/ \E i \in DOMAIN tasks : Expire(i)
      \/ UNCHANGED vars
      => applied' = applied /\ proc' = proc
  BY DEF Apply, PublishOther, Expire, vars
<1>10. (\E p \in Workers : StartPoll(p)) \/ StartPublish \/ StartRetry \/ ControllerRestart
       => applied' = applied /\ \A q \in Procs : proc'[q] = proc[q] \/ proc'[q].at # "advance"
  <2>1. ASSUME NEW p \in Workers, StartPoll(p)
        PROVE  applied' = applied /\ \A q \in Procs : proc'[q] = proc[q] \/ proc'[q].at # "advance"
    BY <1>1, <2>1 DEF StartPoll, Idle
  <2>2. ASSUME StartPublish \/ StartRetry
        PROVE  applied' = applied /\ \A q \in Procs : proc'[q] = proc[q] \/ proc'[q].at # "advance"
    BY <1>1, <2>2 DEF StartPublish, StartRetry, Idle
  <2>3. ControllerRestart => applied' = applied /\ \A q \in Procs : proc'[q].at # "advance"
    BY DEF ControllerRestart, Idle
  <2> QED BY <2>1, <2>2, <2>3
<1> QED BY <1>5, <1>6, <1>7, <1>8, <1>9, <1>10 DEF Next

\* Whatever the order in which old reports, versions and reconciliations
\* arrive, a publication is not shown as confirmed by an edge that has not
\* loaded it (RecordPublishApply, reconcilePublishTask and
\* reconcileLatePublishConfirmations together).
THEOREM ConfirmationMeansLoaded == Spec => []ConfirmedMeansLoaded
<1>1. Init => ConfirmInv
  <2> SUFFICES ASSUME Init PROVE ConfirmInv
    OBVIOUS
  <2>1. ConfirmedMeansLoaded
    BY DEF Init, ConfirmedMeansLoaded
  <2>2. AppliedBacked
    BY DEF Init, AppliedBacked, Backed, Loaded, Idle
  <2> QED BY <2>1, <2>2, TypeInit DEF ConfirmInv
<1>2. ConfirmInv /\ [Next]_vars => ConfirmInv'
  <2> SUFFICES ASSUME ConfirmInv, [Next]_vars PROVE ConfirmInv'
    OBVIOUS
  <2>1. TypeOK /\ TypeOK'
    BY TypeNext DEF ConfirmInv
  <2>2. AllConfirmed(tasks)'
    BY <2>1, ConfirmedNext, LoadedGrows DEF AllConfirmed, Confirmed, Backed, With
  <2>3. ConfirmedMeansLoaded'
    BY <2>2, ConfirmedEachTask, PTL
  <2> QED BY <2>1, <2>3, AppliedNext DEF ConfirmInv
<1>3. ConfirmInv => ConfirmedMeansLoaded
  BY DEF ConfirmInv
<1> QED BY <1>1, <1>2, <1>3, PTL DEF Spec

-------------------------------------------------------------------------------
(* A task that succeeded is confirmed by every target *)

\* A node has a result exactly when the task waits for it.
RowsMatch(t) == \A n \in Nodes : t.result[n] = "none" <=> t.target[n] = 0

\* What a verdict says of a task is so: v is a verdict somebody is about to
\* write, or the status and the detail the task shows already.
Justified(v, t) ==
    /\ v.status = "succeeded" => Targets(t) = With(t, "succeeded")
    /\ v.confirmed =< Cardinality(With(t, "succeeded"))

TaskSound(t) == RowsMatch(t) /\ (t.status \in Closed => Justified(t, t))

Publishing == {"apply", "render", "stage", "finish"}
Writing == {"expire", "close", "late_close"}

\* A process looks at a task that exists; the verdict it is going to write is
\* justified whatever the others do until then; the publisher's task has no
\* targets before it stages them, so nobody else declares it successful.
ProcSound(q, ts) ==
    /\ q.at \in {"confirm", "count", "late", "late_count"} \cup Writing \cup Publishing
       => q.task \in DOMAIN ts
    /\ q.at \in Writing => /\ Justified(q.verdict, ts[q.task])
                           /\ q.verdict.status = "succeeded" => Targets(ts[q.task]) # {}
    /\ q.at \in Publishing => Targets(ts[q.task]) = {}
    /\ q.at \in Publishing \ {"finish"} => ts[q.task].status # "succeeded"

SoundInv ==
    /\ TypeOK
    /\ \A i \in DOMAIN tasks : TaskSound(tasks[i])
    /\ \A p \in Procs : ProcSound(proc[p], tasks)
    /\ \A p \in Workers : proc[p].next = "idle" /\ proc[p].at \notin Publishing

\* One task after a step of the reconciliation, of a heartbeat or of the clock.
\* Only a task with targets becomes successful.
Moves(t, s) ==
    /\ s.target = t.target
    /\ With(t, "succeeded") \subseteq With(s, "succeeded")
    /\ s.status = "succeeded" => t.status = "succeeded" \/ Targets(t) # {}

LEMMA RowsOfTargets ==
    ASSUME NEW t \in Task, RowsMatch(t)
    PROVE  /\ With(t, "succeeded") \subseteq Targets(t)
           /\ With(t, "pending") \subseteq Targets(t)
           /\ With(t, "pending") \cap With(t, "succeeded") = {}
BY DEF RowsMatch, With, Targets, Task

\* More confirmations never take a justification away.
LEMMA JustifiedMoves ==
    ASSUME NEW t \in Task, NEW s \in Task, NEW v, v.confirmed \in Nat,
           RowsMatch(s), Moves(t, s), Justified(v, t)
    PROVE  Justified(v, s)
<1>1. /\ Targets(s) = Targets(t)
      /\ With(t, "succeeded") \subseteq With(s, "succeeded")
      /\ With(s, "succeeded") \subseteq Targets(s)
  BY RowsOfTargets DEF Moves, Targets
<1>2. /\ Cardinality(With(t, "succeeded")) =< Cardinality(With(s, "succeeded"))
      /\ Cardinality(With(t, "succeeded")) \in Nat /\ Cardinality(With(s, "succeeded")) \in Nat
  BY <1>1, WithCount, FS_Subset
<1> QED BY <1>1, <1>2 DEF Justified

LEMMA TaskSoundMoves ==
    ASSUME NEW t \in Task, NEW s \in Task, TaskSound(t), RowsMatch(s), Moves(t, s),
           s.status = t.status, s.confirmed = t.confirmed
    PROVE  TaskSound(s)
<1>1. ASSUME s.status \in Closed PROVE Justified(s, s)
  <2>1. Justified(t, t) /\ t.confirmed \in Nat
    BY <1>1 DEF TaskSound, Task
  <2>2. Justified(t, s)
    BY <2>1, JustifiedMoves
  <2> QED BY <2>2 DEF Justified
<1> QED BY <1>1 DEF TaskSound

\* What a process knows of its task survives such a step.
LEMMA ProcSoundMoves ==
    ASSUME NEW ts \in Seq(Task), NEW us \in Seq(Task), DOMAIN ts \subseteq DOMAIN us,
           \A i \in DOMAIN ts : RowsMatch(us[i]) /\ Moves(ts[i], us[i]),
           NEW q \in Process, ProcSound(q, ts)
    PROVE  ProcSound(q, us)
<1> DEFINE i == q.task
<1>1. ASSUME q.at \in {"confirm", "count", "late", "late_count"} \cup Writing \cup Publishing
      PROVE  i \in DOMAIN ts /\ i \in DOMAIN us /\ ts[i] \in Task /\ us[i] \in Task
  BY <1>1, TaskAt DEF ProcSound
<1>2. ASSUME q.at \in Writing
      PROVE  /\ Justified(q.verdict, us[i])
             /\ q.verdict.status = "succeeded" => Targets(us[i]) # {}
  <2>1. /\ i \in DOMAIN ts /\ ts[i] \in Task /\ us[i] \in Task
        /\ RowsMatch(us[i]) /\ Moves(ts[i], us[i])
    BY <1>1, <1>2
  <2>2. /\ Justified(q.verdict, ts[i]) /\ q.verdict.confirmed \in Nat
        /\ q.verdict.status = "succeeded" => Targets(ts[i]) # {}
    BY <1>2 DEF ProcSound, Process, Verdict
  <2>3. Targets(us[i]) = Targets(ts[i])
    BY <2>1 DEF Moves, Targets
  <2> QED BY <2>1, <2>2, <2>3, JustifiedMoves
<1>3. ASSUME q.at \in Publishing
      PROVE  /\ Targets(us[i]) = {}
             /\ q.at # "finish" => us[i].status # "succeeded"
  <2>1. i \in DOMAIN ts /\ Moves(ts[i], us[i])
    BY <1>1, <1>3
  <2>2. Targets(ts[i]) = {} /\ (q.at # "finish" => ts[i].status # "succeeded")
    BY <1>3 DEF ProcSound
  <2> QED BY <2>1, <2>2 DEF Moves, Targets
<1> QED BY <1>1, <1>2, <1>3 DEF ProcSound, Publishing, Writing

\* A step of the tasks that every process survives.
Kept(ts, us) ==
    /\ DOMAIN ts \subseteq DOMAIN us
    /\ \A i \in DOMAIN us : TaskSound(us[i])
    /\ \A i \in DOMAIN ts : Moves(ts[i], us[i])

LEMMA KeptReplaced ==
    ASSUME NEW ts \in Seq(Task), \A k \in DOMAIN ts : TaskSound(ts[k]), NEW i, NEW s,
           i \in DOMAIN ts => TaskSound(s) /\ Moves(ts[i], s)
    PROVE  Kept(ts, [ts EXCEPT ![i] = s])
BY DEF Kept, Moves

LEMMA KeptSame ==
    ASSUME \A k \in DOMAIN tasks : TaskSound(tasks[k])
    PROVE  Kept(tasks, tasks)
BY DEF Kept, Moves

\* One process takes a step, the tasks are kept.
LEMMA OneProcess ==
    ASSUME SoundInv, TypeOK', Kept(tasks, tasks'), NEW p \in Procs, NEW q \in Process,
           proc' = [proc EXCEPT ![p] = q], ProcSound(q, tasks'),
           p \in Workers => q.next = "idle" /\ q.at \notin Publishing
    PROVE  SoundInv'
<1>1. /\ tasks \in Seq(Task) /\ tasks' \in Seq(Task) /\ proc \in [Procs -> Process]
      /\ Workers \subseteq Procs
  BY DEF SoundInv, TypeOK, Procs
<1>2. \A r \in Procs : ProcSound(proc[r], tasks')
  BY <1>1, ProcSoundMoves DEF SoundInv, Kept, TaskSound
<1>3. \A r \in Procs : proc'[r] = IF r = p THEN q ELSE proc[r]
  BY <1>1
<1>4. \A r \in Procs : ProcSound(proc'[r], tasks')
  BY <1>2, <1>3
<1>5. \A r \in Workers : proc'[r].next = "idle" /\ proc'[r].at \notin Publishing
  BY <1>1, <1>3 DEF SoundInv
<1> QED BY <1>4, <1>5 DEF SoundInv, Kept

LEMMA SettleKept ==
    ASSUME NEW t \in Task, TaskSound(t), NEW nodes,
           NEW from, from \subseteq {"pending", "failed", "timed_out"},
           NEW to \in {"succeeded", "timed_out"}
    PROVE  /\ TaskSound(Settle(t, nodes, from, to))
           /\ Moves(t, Settle(t, nodes, from, to))
<1> DEFINE s == Settle(t, nodes, from, to)
<1>1. /\ s \in Task /\ s.status = t.status /\ s.confirmed = t.confirmed /\ s.target = t.target
  BY SettleType DEF Settle, Task
<1>2. \A n \in Nodes : s.result[n] = IF n \in nodes /\ t.result[n] \in from
                                     THEN to ELSE t.result[n]
  BY DEF Settle, Task
<1>3. RowsMatch(s) /\ With(t, "succeeded") \subseteq With(s, "succeeded")
  BY <1>1, <1>2 DEF TaskSound, RowsMatch, With
<1>4. Moves(t, s)
  BY <1>1, <1>3 DEF Moves
<1> QED BY <1>1, <1>3, <1>4, TaskSoundMoves

LEMMA RecordedKept ==
    ASSUME NEW t \in Task, TaskSound(t), NEW n \in Nodes, NEW r
    PROVE  TaskSound(Recorded(t, n, r)) /\ Moves(t, Recorded(t, n, r))
<1> DEFINE s == Recorded(t, n, r)
<1>1. s \in Task /\ s.status = t.status /\ s.confirmed = t.confirmed /\ s.target = t.target
  BY DEF Recorded, Task
<1>2. RowsMatch(s) /\ With(t, "succeeded") \subseteq With(s, "succeeded")
  BY DEF Recorded, TaskSound, RowsMatch, With, Task
<1>3. Moves(t, s)
  BY <1>1, <1>2 DEF Moves
<1> QED BY <1>1, <1>2, <1>3, TaskSoundMoves

LEMMA ExpiredKept ==
    ASSUME NEW t \in Task, TaskSound(t)
    PROVE  /\ TaskSound([t EXCEPT !.expired = TRUE])
           /\ Moves(t, [t EXCEPT !.expired = TRUE])
BY DEF TaskSound, RowsMatch, Justified, Moves, With, Targets, Task

\* The publisher reactivates its task.
LEMMA ActivatedKept ==
    ASSUME NEW t \in Task, TaskSound(t)
    PROVE  /\ TaskSound([t EXCEPT !.status = "active"])
           /\ Moves(t, [t EXCEPT !.status = "active"])
BY DEF TaskSound, RowsMatch, Moves, With, Targets, Task, Closed

LEMMA JudgedSound ==
    ASSUME NEW t \in Task, TaskSound(t), NEW v \in Verdict, Justified(v, t)
    PROVE  TaskSound(Judged(t, v))
BY DEF TaskSound, RowsMatch, Justified, Judged, With, Targets, Task

LEMMA JudgedKept ==
    ASSUME NEW t \in Task, TaskSound(t), NEW v \in Verdict, Justified(v, t),
           v.status = "succeeded" => Targets(t) # {}
    PROVE  TaskSound(Judged(t, v)) /\ Moves(t, Judged(t, v))
<1>1. Moves(t, Judged(t, v))
  BY DEF Moves, Judged, With, Task
<1> QED BY <1>1, JudgedSound

\* publishTaskOutcome over the rows of a task.
LEMMA OutcomeJustified ==
    ASSUME NEW t \in Task, RowsMatch(t), NEW v,
           v = Outcome(Cardinality(Targets(t)), Cardinality(With(t, "succeeded")))
    PROVE  Justified(v, t)
<1>1. Cardinality(With(t, "succeeded")) \in Nat /\ IsFiniteSet(Targets(t))
  BY WithCount, TargetsCount
<1>2. Cardinality(With(t, "succeeded")) = Cardinality(Targets(t))
      => With(t, "succeeded") = Targets(t)
  BY <1>1, RowsOfTargets, FS_Subset
<1> QED BY <1>1, <1>2 DEF Justified, Outcome

LEMMA NoVerdictJustified == ASSUME NEW t PROVE Justified(NoVerdict, t)
BY WithCount DEF Justified, NoVerdict

\* A step to another statement of the reconciliation.
LEMMA SoundGoto ==
    ASSUME SoundInv, TypeOK', Kept(tasks, tasks'), NEW p \in Procs,
           NEW at \in {"count", "close", "list_closed"}, Goto(p, at),
           ProcSound([proc[p] EXCEPT !.at = at], tasks')
    PROVE  SoundInv'
<1> DEFINE q == [proc[p] EXCEPT !.at = at]
<1>1. proc[p] \in Process /\ (p \in Workers => proc[p].next = "idle")
  BY DEF SoundInv, TypeOK
<1>2. q \in Process /\ q.at = at /\ q.next = proc[p].next
  BY <1>1 DEF Process
<1>3. proc' = [proc EXCEPT ![p] = q]
  BY DEF Goto
<1> HIDE DEF q
<1> QED BY <1>1, <1>2, <1>3, OneProcess DEF q, Publishing

LEMMA SoundReturn ==
    ASSUME SoundInv, TypeOK', Kept(tasks, tasks'), NEW p \in Procs, proc' = Return(p)
    PROVE  SoundInv'
<1> DEFINE q == [proc[p] EXCEPT !.at = proc[p].next, !.task = 0, !.verdict = NoVerdict,
                                !.changed = FALSE]
<1>1. proc[p] \in Process /\ (p \in Workers => proc[p].next = "idle")
  BY DEF SoundInv, TypeOK
<1>2. q \in Process /\ q.at \in {"idle", "plan", "create"} /\ q.at = q.next
      /\ q.next = proc[p].next
  BY <1>1, IdleType DEF Process
<1>3. proc' = [proc EXCEPT ![p] = q]
  BY DEF Return
<1> HIDE DEF q
<1>4. ProcSound(q, tasks')
  BY <1>2 DEF ProcSound, Writing, Publishing
<1> QED BY <1>1, <1>2, <1>3, <1>4, OneProcess DEF Publishing

LEMMA SoundReconcile ==
    ASSUME SoundInv, TypeOK', NEW p \in Procs, Reconcile(p)
    PROVE  SoundInv'
<1> DEFINE i == proc[p].task
           t == tasks[i]
           counted == Outcome(Cardinality(Targets(t)), Cardinality(With(t, "succeeded")))
<1>1. /\ tasks \in Seq(Task) /\ proc[p] \in Process /\ proc[p].verdict \in Verdict
      /\ \A k \in DOMAIN tasks : TaskSound(tasks[k]) /\ tasks[k] \in Task
      /\ ProcSound(proc[p], tasks) /\ Kept(tasks, tasks)
      /\ (p \in Workers => proc[p].next = "idle")
  BY TaskAt, KeptSame DEF SoundInv, TypeOK, Process
<1>2. CASE ListActive(p)
  <2>1. tasks' = tasks
    BY <1>2 DEF ListActive
  <2>2. ASSUME NEW k \in ActiveTasks,
               proc' = [proc EXCEPT ![p].at = "confirm", ![p].task = k]
        PROVE  SoundInv'
    <3> DEFINE q == [proc[p] EXCEPT !.at = "confirm", !.task = k]
    <3>1. k \in DOMAIN tasks /\ k \in Nat
      BY <1>1, LenProperties DEF ActiveTasks, Latest
    <3>2. q \in Process /\ q.at = "confirm" /\ q.task = k /\ q.next = proc[p].next
      BY <1>1, <3>1 DEF Process
    <3>3. proc' = [proc EXCEPT ![p] = q]
      BY <2>2
    <3> HIDE DEF q
    <3>4. ProcSound(q, tasks')
      BY <2>1, <3>1, <3>2 DEF ProcSound, Writing, Publishing
    <3> QED BY <1>1, <2>1, <3>2, <3>3, <3>4, OneProcess DEF Publishing
  <2>3. ASSUME Goto(p, "list_closed") PROVE SoundInv'
    <3>1. ProcSound([proc[p] EXCEPT !.at = "list_closed"], tasks')
      BY <1>1 DEF ProcSound, Process, Writing, Publishing
    <3> QED BY <1>1, <2>1, <2>3, <3>1, SoundGoto
  <2> QED BY <1>2, <2>2, <2>3 DEF ListActive
<1>3. CASE ConfirmApplied(p)
  <2> DEFINE s == Settle(t, HaveApplied(t), {"pending"}, "succeeded")
  <2>1. i \in DOMAIN tasks /\ tasks' = [tasks EXCEPT ![i] = s] /\ Goto(p, "count")
    BY <1>1, <1>3 DEF ConfirmApplied, ProcSound
  <2>2. TaskSound(s) /\ Moves(t, s)
    BY <1>1, <2>1, SettleKept
  <2> HIDE DEF s
  <2>3. Kept(tasks, tasks') /\ DOMAIN tasks' = DOMAIN tasks
    BY <1>1, <2>1, <2>2, KeptReplaced
  <2>4. ProcSound([proc[p] EXCEPT !.at = "count"], tasks')
    BY <1>1, <2>1, <2>3 DEF ProcSound, Process, Writing, Publishing
  <2> QED BY <2>1, <2>3, <2>4, SoundGoto
<1>4. CASE CountResults(p)
  <2>1. tasks' = tasks /\ i \in DOMAIN tasks /\ t \in Task /\ RowsMatch(t)
    BY <1>1, <1>4 DEF CountResults, ProcSound, TaskSound
  <2>2. counted \in Verdict /\ Justified(counted, t)
    BY <2>1, WithCount, OutcomeType, OutcomeJustified
  <2>3. ASSUME Goto(p, "list_closed") PROVE SoundInv'
    <3>1. ProcSound([proc[p] EXCEPT !.at = "list_closed"], tasks')
      BY <1>1 DEF ProcSound, Process, Writing, Publishing
    <3> QED BY <1>1, <2>1, <2>3, <3>1, SoundGoto
  <2>4. ASSUME NEW at \in {"close", "expire"}, NEW v \in Verdict, Justified(v, t),
               v.status = "succeeded" => Targets(t) # {},
               proc' = [proc EXCEPT ![p].at = at, ![p].verdict = v]
        PROVE  SoundInv'
    <3> DEFINE q == [proc[p] EXCEPT !.at = at, !.verdict = v]
    <3>1. q \in Process /\ q.at = at /\ q.verdict = v /\ q.task = i /\ q.next = proc[p].next
      BY <1>1 DEF Process
    <3>2. proc' = [proc EXCEPT ![p] = q]
      BY <2>4
    <3> HIDE DEF q
    <3>3. ProcSound(q, tasks')
      BY <2>1, <2>4, <3>1 DEF ProcSound, Writing, Publishing
    <3> QED BY <1>1, <2>1, <3>1, <3>2, <3>3, OneProcess DEF Publishing
  <2>5. CASE Targets(t) = {} /\ proc' = [proc EXCEPT ![p].at = "close", ![p].verdict = NoVerdict]
    <3>1. NoVerdict \in Verdict /\ NoVerdict.status # "succeeded" /\ Justified(NoVerdict, t)
      BY IdleType, NoVerdictJustified DEF NoVerdict
    <3> QED BY <2>4, <2>5, <3>1
  <2>6. CASE With(t, "pending") # {} /\ proc' = [proc EXCEPT ![p].at = "expire", ![p].verdict = counted]
    <3>1. Targets(t) # {}
      BY <2>1, <2>6, RowsOfTargets
    <3> QED BY <2>2, <2>4, <2>6, <3>1
  <2>7. CASE Targets(t) # {} /\ proc' = [proc EXCEPT ![p].at = "close", ![p].verdict = counted]
    BY <2>2, <2>4, <2>7
  <2> QED BY <1>4, <2>3, <2>5, <2>6, <2>7 DEF CountResults
<1>5. CASE TimeOut(p)
  <2> DEFINE s == Settle(t, Nodes, {"pending"}, "timed_out")
             q == [proc[p] EXCEPT !.at = "close"]
  <2>1. /\ i \in DOMAIN tasks /\ tasks' = [tasks EXCEPT ![i] = s] /\ Goto(p, "close")
        /\ proc[p].at = "expire"
    BY <1>1, <1>5 DEF TimeOut, ProcSound, Writing
  <2>2. TaskSound(s) /\ Moves(t, s)
    BY <1>1, <2>1, SettleKept
  <2> HIDE DEF s
  <2>3. Kept(tasks, tasks') /\ DOMAIN tasks' = DOMAIN tasks
    BY <1>1, <2>1, <2>2, KeptReplaced
  <2>4. tasks' \in Seq(Task)
    BY DEF TypeOK
  <2>5. ProcSound(proc[p], tasks')
    BY <1>1, <2>3, <2>4, ProcSoundMoves DEF Kept, TaskSound
  <2>6. ProcSound(q, tasks')
    BY <1>1, <2>1, <2>5 DEF ProcSound, Process, Writing, Publishing
  <2> QED BY <2>1, <2>3, <2>6, SoundGoto
<1>6. CASE Close(p) \/ CloseLate(p)
  <2> DEFINE v == proc[p].verdict
             s == Judged(t, v)
  <2>1. /\ i \in DOMAIN tasks /\ UpdateTask(i, v) /\ Justified(v, t)
        /\ v.status = "succeeded" => Targets(t) # {}
    BY <1>1, <1>6 DEF Close, CloseLate, ProcSound, Writing
  <2>2. tasks' = [tasks EXCEPT ![i] = s]
    BY <1>1, <2>1, UpdateTaskType
  <2>3. TaskSound(s) /\ Moves(t, s)
    BY <1>1, <2>1, JudgedKept
  <2> HIDE DEF s
  <2>4. Kept(tasks, tasks')
    BY <1>1, <2>2, <2>3, KeptReplaced
  <2>5. ProcSound([proc[p] EXCEPT !.at = "list_closed"], tasks')
    BY <1>1 DEF ProcSound, Process, Writing, Publishing
  <2>6. Goto(p, "list_closed") \/ proc' = Return(p)
    BY <1>6 DEF Close, CloseLate
  <2> QED BY <2>4, <2>5, <2>6, SoundGoto, SoundReturn
<1>7. CASE ListClosed(p)
  <2>1. tasks' = tasks
    BY <1>7 DEF ListClosed
  <2>2. CASE LatestFailed
    <3> DEFINE v == [status |-> tasks[Latest].status, confirmed |-> tasks[Latest].confirmed]
               q == [proc[p] EXCEPT !.at = "late", !.task = Latest, !.verdict = v]
    <3>1. Latest \in DOMAIN tasks /\ Latest \in Nat
      BY <1>1, <2>2, LenProperties DEF Latest, LatestFailed
    <3>2. v \in Verdict
      BY <1>1, <2>2, <3>1 DEF LatestFailed, Verdict, Closed, Task
    <3>3. proc' = [proc EXCEPT ![p] = q]
      BY <1>7, <2>2 DEF ListClosed
    <3> HIDE DEF v
    <3>4. q \in Process /\ q.at = "late" /\ q.task = Latest /\ q.next = proc[p].next
      BY <1>1, <3>1, <3>2 DEF Process
    <3> HIDE DEF q
    <3>5. ProcSound(q, tasks')
      BY <2>1, <3>1, <3>4 DEF ProcSound, Writing, Publishing
    <3> QED BY <1>1, <2>1, <3>3, <3>4, <3>5, OneProcess DEF Publishing
  <2>3. CASE ~LatestFailed
    BY <1>1, <1>7, <2>1, <2>3, SoundReturn DEF ListClosed
  <2> QED BY <2>2, <2>3
<1>8. CASE ConfirmLate(p)
  <2> DEFINE late == IF i = Latest THEN HaveApplied(t) ELSE {}
             s == Settle(t, late, {"failed", "timed_out"}, "succeeded")
             q == [proc[p] EXCEPT !.at = "late_count", !.changed = (s # t)]
  <2>1. /\ i \in DOMAIN tasks /\ tasks' = [tasks EXCEPT ![i] = s]
        /\ proc' = [proc EXCEPT ![p] = q]
    BY <1>1, <1>8 DEF ConfirmLate, ProcSound
  <2>2. TaskSound(s) /\ Moves(t, s)
    BY <1>1, <2>1, SettleKept
  <2> HIDE DEF s
  <2>3. Kept(tasks, tasks') /\ DOMAIN tasks' = DOMAIN tasks
    BY <1>1, <2>1, <2>2, KeptReplaced
  <2>4. q \in Process /\ q.at = "late_count" /\ q.task = i /\ q.next = proc[p].next
    BY <1>1 DEF Process
  <2> HIDE DEF q
  <2>5. ProcSound(q, tasks')
    BY <2>1, <2>3, <2>4 DEF ProcSound, Writing, Publishing
  <2> QED BY <1>1, <2>1, <2>3, <2>4, <2>5, OneProcess DEF Publishing
<1>9. CASE CountLate(p)
  <2>1. tasks' = tasks /\ i \in DOMAIN tasks /\ t \in Task /\ RowsMatch(t)
    BY <1>1, <1>9 DEF CountLate, ProcSound, TaskSound
  <2>2. counted \in Verdict /\ Justified(counted, t)
    BY <2>1, WithCount, OutcomeType, OutcomeJustified
  <2>3. CASE proc' = Return(p)
    BY <1>1, <2>1, <2>3, SoundReturn
  <2>4. CASE Targets(t) # {} /\ proc' = [proc EXCEPT ![p].at = "late_close", ![p].verdict = counted]
    <3> DEFINE q == [proc[p] EXCEPT !.at = "late_close", !.verdict = counted]
    <3>1. proc' = [proc EXCEPT ![p] = q]
      BY <2>4
    <3> HIDE DEF counted
    <3>2. /\ q \in Process /\ q.at = "late_close" /\ q.verdict = counted /\ q.task = i
          /\ q.next = proc[p].next
      BY <1>1, <2>2 DEF Process
    <3> HIDE DEF q
    <3>3. ProcSound(q, tasks')
      BY <2>1, <2>2, <2>4, <3>2 DEF ProcSound, Writing, Publishing
    <3> QED BY <1>1, <2>1, <3>1, <3>2, <3>3, OneProcess DEF Publishing
  <2> QED BY <1>9, <2>3, <2>4 DEF CountLate
<1> QED BY <1>2, <1>3, <1>4, <1>5, <1>6, <1>7, <1>8, <1>9 DEF Reconcile

\* A process that goes idle.
LEMMA SoundIdle ==
    ASSUME SoundInv, TypeOK', Kept(tasks, tasks'), NEW p \in Procs,
           proc' = [proc EXCEPT ![p] = Idle]
    PROVE  SoundInv'
<1>1. ProcSound(Idle, tasks') /\ Idle.next = "idle" /\ Idle.at \notin Publishing
  BY DEF ProcSound, Idle, Writing, Publishing
<1> QED BY <1>1, IdleType, OneProcess

\* Staging: the task had no targets, so no process has counted on its rows.
LEMMA StagedSound ==
    ASSUME NEW t \in Task, TaskSound(t), t.status # "succeeded", Targets(t) = {},
           NEW targets \in [Nodes -> Nat]
    PROVE  /\ TaskSound(Staged(t, targets))
           /\ \A v : v.confirmed \in Nat /\ v.status # "succeeded" /\ Justified(v, t)
                  => Justified(v, Staged(t, targets))
<1> DEFINE s == Staged(t, targets)
<1>1. /\ s.status = t.status /\ s.confirmed = t.confirmed /\ s.target = targets
      /\ \A n \in Nodes : s.result[n] = IF targets[n] > 0 THEN "pending" ELSE "none"
  BY DEF Staged, Task
<1>2. RowsMatch(s)
  BY <1>1 DEF RowsMatch
<1>3. With(t, "succeeded") = {} /\ With(s, "succeeded") = {}
  BY <1>1, RowsOfTargets DEF TaskSound, With
<1>4. ASSUME NEW v, v.status # "succeeded", Justified(v, t) PROVE Justified(v, s)
  BY <1>3, <1>4 DEF Justified
<1>5. t.status \in Closed => Justified(s, s)
  BY <1>1, <1>4 DEF TaskSound, Justified
<1> QED BY <1>1, <1>2, <1>4, <1>5 DEF TaskSound

LEMMA SoundStage ==
    ASSUME SoundInv, TypeOK', Stage
    PROVE  SoundInv'
<1> DEFINE i == Pub.task
           t == tasks[i]
           s == Staged(t, plan)
<1>1. /\ tasks \in Seq(Task) /\ proc \in [Procs -> Process] /\ plan \in [Nodes -> Nat]
      /\ Publisher \in Procs /\ Workers \subseteq Procs /\ Publisher \notin Workers
      /\ tasks' = [tasks EXCEPT ![i] = s]
  BY ConstantsAssumption DEF SoundInv, TypeOK, Procs, Stage
<1>2. /\ i \in DOMAIN tasks /\ t \in Task /\ TaskSound(t)
      /\ Targets(t) = {} /\ t.status # "succeeded"
  BY <1>1, TaskAt DEF SoundInv, ProcSound, Stage, Pub, Publishing
<1>3. TaskSound(s)
  BY <1>1, <1>2, StagedSound
<1>4. DOMAIN tasks' = DOMAIN tasks /\ tasks'[i] = s
      /\ \A k \in DOMAIN tasks : k # i => tasks'[k] = tasks[k]
  BY <1>1, <1>2
<1>5. \A k \in DOMAIN tasks' : TaskSound(tasks'[k])
  BY <1>3, <1>4 DEF SoundInv
<1>6. ASSUME NEW q \in Process, ProcSound(q, tasks), q.at \notin Publishing
      PROVE  ProcSound(q, tasks')
  <2>1. CASE q.at \in Writing /\ q.task = i
    <3>1. /\ Justified(q.verdict, t) /\ q.verdict.status # "succeeded"
          /\ q.verdict.confirmed \in Nat
      BY <1>2, <1>6, <2>1 DEF ProcSound, Process, Verdict
    <3>2. Justified(q.verdict, s)
      BY <1>1, <1>2, <3>1, StagedSound
    <3> QED BY <1>2, <1>4, <1>6, <2>1, <3>1, <3>2 DEF ProcSound
  <2>2. CASE ~(q.at \in Writing /\ q.task = i)
    BY <1>4, <1>6, <2>2 DEF ProcSound
  <2> QED BY <2>1, <2>2
<1>7. \A p \in Workers : ProcSound(proc[p], tasks')
  BY <1>1, <1>6 DEF SoundInv
<1>8. ProcSound(proc'[Publisher], tasks')
  <2>1. CASE plan = NoTargets
    <3>1. Targets(s) = {}
      BY <2>1 DEF Targets, Staged, NoTargets, Task
    <3>2. proc'[Publisher].at = "finish" /\ proc'[Publisher].task = i
      BY <1>1, <2>1 DEF Stage, Goto, Pub, Process
    <3> QED BY <1>2, <1>4, <3>1, <3>2 DEF ProcSound, Writing, Publishing
  <2>2. CASE plan # NoTargets
    <3>1. proc'[Publisher] = Idle
      BY <1>1, <2>2 DEF Stage
    <3> QED BY <3>1 DEF ProcSound, Idle, Writing, Publishing
  <2> QED BY <2>1, <2>2
<1>9. \A p \in Workers : proc'[p] = proc[p]
  BY <1>1 DEF Stage, Goto
<1> QED BY <1>5, <1>7, <1>8, <1>9 DEF SoundInv, Procs

LEMMA SoundPublish ==
    ASSUME SoundInv, TypeOK', Publish
    PROVE  SoundInv'
<1> DEFINE i == Pub.task
           t == tasks[i]
<1>1. /\ tasks \in Seq(Task) /\ Pub \in Process /\ tasks' \in Seq(Task)
      /\ Publisher \in Procs /\ Publisher \notin Workers /\ Workers \subseteq Procs
      /\ \A k \in DOMAIN tasks : TaskSound(tasks[k]) /\ tasks[k] \in Task
      /\ ProcSound(Pub, tasks) /\ Kept(tasks, tasks) /\ proc \in [Procs -> Process]
  BY TaskAt, KeptSame, ConstantsAssumption DEF SoundInv, TypeOK, Procs, Pub
<1>2. CASE PlanRetry
  <2> DEFINE q == [Pub EXCEPT !.at = "list", !.next = "create"]
  <2>1. q \in Process /\ q.at = "list"
    BY <1>1 DEF Process
  <2>2. proc' = [proc EXCEPT ![Publisher] = q] /\ tasks' = tasks
    BY <1>2 DEF PlanRetry, Pub
  <2> HIDE DEF q
  <2>3. ProcSound(q, tasks')
    BY <2>1 DEF ProcSound, Writing, Publishing
  <2> QED BY <1>1, <2>1, <2>2, <2>3, OneProcess
<1>3. CASE RefuseRetry
  BY <1>1, <1>3, SoundIdle DEF RefuseRetry
<1>4. CASE CreateTask
  <2>1. CASE tasks' = tasks /\ proc' = [proc EXCEPT ![Publisher] = Idle]
    BY <1>1, <2>1, SoundIdle
  <2>2. CASE /\ tasks' = Append(tasks, NewTask)
             /\ proc' = [proc EXCEPT ![Publisher].at = "apply", ![Publisher].task = Latest + 1]
    <3> DEFINE q == [Pub EXCEPT !.at = "apply", !.task = Latest + 1]
    <3>1. /\ NewTask \in Task /\ TaskSound(NewTask) /\ Targets(NewTask) = {}
          /\ NewTask.status # "succeeded"
      BY DEF NewTask, Task, NoTargets, TaskSound, RowsMatch, Targets, Closed
    <3>2. /\ DOMAIN tasks' = 1..(Len(tasks) + 1) /\ DOMAIN tasks = 1..Len(tasks)
          /\ Len(tasks) \in Nat /\ tasks'[Len(tasks) + 1] = NewTask
          /\ \A k \in 1..Len(tasks) : tasks'[k] = tasks[k]
      BY <1>1, <2>2, <3>1, AppendProperties, LenProperties
    <3>3. Kept(tasks, tasks')
      BY <1>1, <3>1, <3>2 DEF Kept, Moves
    <3>4. q \in Process /\ q.at = "apply" /\ q.task = Len(tasks) + 1
      <4>1. Latest + 1 = Len(tasks) + 1 /\ Latest + 1 \in Nat
        BY <3>2 DEF Latest
      <4> QED BY <1>1, <4>1 DEF Process
    <3>5. proc' = [proc EXCEPT ![Publisher] = q]
      BY <2>2 DEF Pub
    <3> HIDE DEF q
    <3>6. ProcSound(q, tasks')
      BY <3>1, <3>2, <3>4 DEF ProcSound, Writing, Publishing
    <3> QED BY <1>1, <3>3, <3>4, <3>5, <3>6, OneProcess
  <2> QED BY <1>4, <2>1, <2>2 DEF CreateTask
<1>5. CASE MarkApplying
  <2> DEFINE s == [t EXCEPT !.status = "active"]
             at == IF Pub.retry THEN "stage" ELSE "render"
             q == [Pub EXCEPT !.at = at]
  <2>1. i \in DOMAIN tasks /\ Targets(t) = {}
    BY <1>1, <1>5 DEF MarkApplying, ProcSound, Publishing
  <2>2. tasks' = [tasks EXCEPT ![i] = s] /\ proc' = [proc EXCEPT ![Publisher] = q]
    BY <1>5 DEF MarkApplying, Goto, Pub
  <2>3. TaskSound(s) /\ Moves(t, s) /\ s.status = "active"
    BY <1>1, <2>1, ActivatedKept DEF Task
  <2>4. Targets(s) = {}
    BY <2>1, <2>3 DEF Moves, Targets
  <2> HIDE DEF s
  <2>5. Kept(tasks, tasks') /\ DOMAIN tasks' = DOMAIN tasks /\ tasks'[i] = s
    BY <1>1, <2>1, <2>2, <2>3, KeptReplaced
  <2>6. q \in Process /\ q.at \in {"stage", "render"} /\ q.task = i
    BY <1>1 DEF Process
  <2> HIDE DEF q
  <2>7. ProcSound(q, tasks')
    BY <2>1, <2>3, <2>4, <2>5, <2>6 DEF ProcSound, Writing, Publishing
  <2> QED BY <1>1, <2>2, <2>5, <2>6, <2>7, OneProcess
<1>6. CASE Render
  <2> DEFINE q == [Pub EXCEPT !.at = "stage"]
  <2>1. q \in Process /\ q.at = "stage" /\ q.task = i /\ Pub.at = "render"
    BY <1>1, <1>6 DEF Render, Process
  <2>2. tasks' = tasks /\ proc' = [proc EXCEPT ![Publisher] = q]
    BY <1>6 DEF Render, Goto, Pub
  <2> HIDE DEF q
  <2>3. ProcSound(q, tasks')
    BY <1>1, <2>1, <2>2 DEF ProcSound, Writing, Publishing
  <2> QED BY <1>1, <2>1, <2>2, <2>3, OneProcess
<1>7. CASE Stage
  BY <1>7, SoundStage
<1>8. CASE FailPublish
  <2> DEFINE s == Judged(t, NoVerdict)
  <2>1. i \in DOMAIN tasks /\ NoVerdict \in Verdict /\ NoVerdict.status # "succeeded"
    BY <1>1, <1>8, IdleType DEF FailPublish, ProcSound, Publishing, NoVerdict
  <2>2. /\ tasks' = [tasks EXCEPT ![i] = s]
        /\ proc' = [proc EXCEPT ![Publisher] = Idle]
    BY <1>1, <1>8, <2>1, UpdateTaskType DEF FailPublish
  <2>3. TaskSound(s) /\ Moves(t, s)
    BY <1>1, <2>1, NoVerdictJustified, JudgedKept
  <2> HIDE DEF s
  <2>4. Kept(tasks, tasks')
    BY <1>1, <2>2, <2>3, KeptReplaced
  <2> QED BY <1>1, <2>2, <2>4, SoundIdle
<1>9. CASE FinishWithoutTargets
  <2> DEFINE v == Outcome(0, 0)
             s == Judged(t, v)
  <2>1. i \in DOMAIN tasks /\ Targets(t) = {} /\ v \in Verdict /\ TaskSound(t) /\ t \in Task
    BY <1>1, <1>9, OutcomeType DEF FinishWithoutTargets, ProcSound, Publishing
  <2>2. /\ tasks' = [tasks EXCEPT ![i] = s]
        /\ proc' = [proc EXCEPT ![Publisher] = Idle]
    BY <1>1, <1>9, <2>1, UpdateTaskType DEF FinishWithoutTargets
  <2>3. With(t, "succeeded") = {}
    BY <2>1, RowsOfTargets DEF TaskSound
  <2>4. Justified(v, t)
    BY <2>1, <2>3, WithCount DEF Justified, Outcome
  <2>5. TaskSound(s)
    BY <2>1, <2>4, JudgedSound
  <2>6. s.target = t.target /\ s.result = t.result
    BY <2>1 DEF Judged, Task
  <2> HIDE DEF s
  <2>7. /\ DOMAIN tasks' = DOMAIN tasks /\ tasks'[i] = s
        /\ \A k \in DOMAIN tasks : k # i => tasks'[k] = tasks[k]
    BY <1>1, <2>1, <2>2
  <2>8. \A k \in DOMAIN tasks' : TaskSound(tasks'[k])
    BY <1>1, <2>5, <2>7
  <2>9. ASSUME NEW q, ProcSound(q, tasks), q.at \notin Publishing
        PROVE  ProcSound(q, tasks')
    <3>1. \A k \in DOMAIN tasks : /\ Targets(tasks'[k]) = Targets(tasks[k])
                                  /\ With(tasks'[k], "succeeded") = With(tasks[k], "succeeded")
      BY <2>6, <2>7 DEF Targets, With
    <3> QED BY <2>7, <2>9, <3>1 DEF ProcSound, Justified, Publishing, Writing
  <2>10. \A p \in Workers : proc'[p] = proc[p] /\ ProcSound(proc[p], tasks')
    BY <1>1, <2>2, <2>9 DEF SoundInv
  <2>11. proc'[Publisher] = Idle /\ ProcSound(Idle, tasks')
    BY <1>1, <2>2 DEF ProcSound, Idle, Writing, Publishing
  <2> QED BY <2>8, <2>10, <2>11 DEF SoundInv, Procs
<1> QED BY <1>2, <1>3, <1>4, <1>5, <1>6, <1>7, <1>8, <1>9 DEF Publish

LEMMA SoundNext ==
    ASSUME SoundInv, [Next]_vars
    PROVE  SoundInv'
<1>1. /\ TypeOK /\ TypeOK' /\ tasks \in Seq(Task) /\ tasks' \in Seq(Task)
      /\ proc \in [Procs -> Process] /\ Publisher \in Procs /\ Publisher \notin Workers
      /\ Workers \subseteq Procs /\ Kept(tasks, tasks)
      /\ \A k \in DOMAIN tasks : TaskSound(tasks[k]) /\ tasks[k] \in Task
  BY TypeNext, TaskAt, KeptSame, ConstantsAssumption DEF SoundInv, TypeOK, Procs
<1>2. ASSUME Kept(tasks, tasks'), proc' = proc PROVE SoundInv'
  <2>1. \A p \in Procs : ProcSound(proc[p], tasks')
    BY <1>1, <1>2, ProcSoundMoves DEF SoundInv, Kept, TaskSound
  <2> QED BY <1>1, <1>2, <2>1 DEF SoundInv, Kept
<1>3. ASSUME NEW p \in Procs, NEW q \in Process, Kept(tasks, tasks'),
             proc' = [proc EXCEPT ![p] = q], q.at \in {"advance", "list"},
             p \in Workers => q.next = "idle"
      PROVE  SoundInv'
  <2>1. ProcSound(q, tasks') /\ q.at \notin Publishing
    BY <1>3 DEF ProcSound, Writing, Publishing
  <2> QED BY <1>1, <1>3, <2>1, OneProcess
<1>4. ASSUME NEW p \in Workers, NEW n \in Nodes, ReceiveHeartbeat(p, n)
      PROVE  SoundInv'
  <2>1. PICK v \in Loaded(n), r \in reports[n] \cup {NoReport} :
          /\ tasks' = IF r = NoReport THEN tasks
                      ELSE [i \in DOMAIN tasks |-> Recorded(tasks[i], n, r)]
          /\ proc' = [proc EXCEPT ![p] =
                         [Idle EXCEPT !.at = "advance", !.node = n, !.version = v]]
    BY <1>4 DEF ReceiveHeartbeat
  <2> DEFINE q == [Idle EXCEPT !.at = "advance", !.node = n, !.version = v]
  <2>2. v \in Nat
    BY <1>1 DEF Loaded, Report, TypeOK
  <2>3. q \in Process /\ q.at = "advance" /\ q.next = "idle"
    BY <2>2, IdleType DEF Process, Idle
  <2>4. Kept(tasks, tasks')
    BY <1>1, <2>1, RecordedKept DEF Kept
  <2> QED BY <1>1, <1>3, <2>1, <2>3, <2>4
<1>5. ASSUME NEW p \in Workers, AdvanceApplied(p) \/ StartPoll(p)
      PROVE  SoundInv'
  <2> DEFINE q == [Idle EXCEPT !.at = "list"]
  <2>1. q \in Process /\ q.at = "list" /\ q.next = "idle"
    BY IdleType DEF Process, Idle
  <2>2. tasks' = tasks /\ proc' = [proc EXCEPT ![p] = q]
    BY <1>5 DEF AdvanceApplied, StartPoll
  <2> QED BY <1>1, <1>3, <2>1, <2>2
<1>6. ASSUME StartPublish \/ StartRetry
      PROVE  SoundInv'
  <2> DEFINE q == [Idle EXCEPT !.at = "list", !.next = "create"]
             r == [Idle EXCEPT !.at = "list", !.next = "plan", !.retry = TRUE]
  <2>1. q \in Process /\ q.at = "list" /\ r \in Process /\ r.at = "list"
    BY IdleType DEF Process, Idle
  <2>2. /\ tasks' = tasks
        /\ proc' = [proc EXCEPT ![Publisher] = q] \/ proc' = [proc EXCEPT ![Publisher] = r]
    BY <1>6 DEF StartPublish, StartRetry
  <2> HIDE DEF q, r
  <2> QED BY <1>1, <1>3, <2>1, <2>2
<1>7. ASSUME NEW i \in DOMAIN tasks, Expire(i)
      PROVE  SoundInv'
  <2> DEFINE s == [tasks[i] EXCEPT !.expired = TRUE]
  <2>1. tasks' = [tasks EXCEPT ![i] = s] /\ proc' = proc
    BY <1>7 DEF Expire
  <2>2. TaskSound(s) /\ Moves(tasks[i], s)
    BY <1>1, ExpiredKept
  <2> HIDE DEF s
  <2>3. Kept(tasks, tasks')
    BY <1>1, <2>1, <2>2, KeptReplaced
  <2> QED BY <1>2, <2>1, <2>3
<1>8. CASE ControllerRestart
  <2>1. \A p \in Procs : proc'[p] = Idle
    BY <1>8 DEF ControllerRestart
  <2>2. ProcSound(Idle, tasks') /\ Idle.next = "idle" /\ Idle.at \notin Publishing
    BY DEF ProcSound, Idle, Writing, Publishing
  <2>3. tasks' = tasks
    BY <1>8 DEF ControllerRestart
  <2> QED BY <1>1, <2>1, <2>2, <2>3 DEF SoundInv
<1>9. ASSUME \/ \E n \in Nodes, ok \in BOOLEAN : Apply(n, ok)
             \/ \E n \in Nodes : PublishOther(n)
             \/ UNCHANGED vars
      PROVE  SoundInv'
  <2>1. tasks' = tasks /\ proc' = proc
    BY <1>9 DEF Apply, PublishOther, vars
  <2> QED BY <1>1, <1>2, <2>1
<1> QED BY <1>1, <1>4, <1>5, <1>6, <1>7, <1>8, <1>9, SoundReconcile, SoundPublish DEF Next

\* However many requests and rounds reconcile at the same time, a publication
\* is shown as successful only when every target has confirmed it, and the
\* detail text counts no confirmation that is not there (the unconditional
\* UpdateTask after a count that may be old).
THEOREM SuccessMeansConfirmed == Spec => []SucceededMeansConfirmed
<1>1. Init => SoundInv
  BY TypeInit DEF Init, SoundInv, ProcSound, Idle, Writing, Publishing, Procs
<1>2. SoundInv /\ [Next]_vars => SoundInv'
  BY SoundNext
<1>3. SoundInv => SucceededMeansConfirmed
  <2> SUFFICES ASSUME SoundInv, NEW i \in DOMAIN tasks
               PROVE  LET t == tasks[i]
                      IN  /\ t.status = "succeeded" => Targets(t) = With(t, "succeeded")
                          /\ t.status \in Closed
                             => t.confirmed =< Cardinality(With(t, "succeeded"))
    BY DEF SucceededMeansConfirmed
  <2> QED BY DEF SoundInv, TaskSound, Justified, Closed
<1> QED BY <1>1, <1>2, <1>3, PTL DEF Spec

-------------------------------------------------------------------------------
(* Results stay what they are, targets are current *)

\* Rows wait only while their task is active.
TaskCurrent(t) == t.status = "active" \/ With(t, "pending") = {}

\* Whoever is about to close a task has seen it expire or get targets, and no
\* row waits any more: it is not the task that the publisher is about to stage.
ProcCurrent(q, ts) ==
    /\ q.at = "expire" => ts[q.task].expired
    /\ q.at \in {"close", "late_close"} =>
          /\ With(ts[q.task], "pending") = {}
          /\ ts[q.task].expired \/ Targets(ts[q.task]) # {}

\* The publisher's task is the latest one, and nobody has closed it.
PubCurrent(q, ts) ==
    /\ q.at \in Publishing =>
          q.task = Len(ts) /\ ts[q.task].status = "active" /\ ~ts[q.task].expired
    /\ q.at \in Publishing \cup {"create"} => q.next = "create"
    /\ q.next = "idle" => q.at = "idle"

\* What the publisher plans is not behind the desired states, which change only
\* while it plans nothing.
PlanCurrent(q) ==
    /\ \A n \in Nodes : plan[n] > 0 => plan[n] >= desired[n]
    /\ q.at \in {"idle", "plan", "finish"} \/ q.next # "create" => plan = NoTargets

CurrentInv ==
    /\ SoundInv
    /\ \A i \in DOMAIN tasks : /\ TaskCurrent(tasks[i])
                               /\ i < Latest => tasks[i].status # "active"
    /\ \A p \in Procs : ProcCurrent(proc[p], tasks)
    /\ PubCurrent(Pub, tasks)
    /\ PlanCurrent(Pub)

\* One task after a step that stages nothing.
Quiet(t, s) ==
    /\ s.target = t.target
    /\ With(s, "pending") \subseteq With(t, "pending")
    /\ t.expired => s.expired
    /\ s.status = "active" => t.status = "active"

\* The action property, for one step.
KeepsResults ==
    \A i \in DOMAIN tasks :
        /\ i < Latest => tasks'[i].result = tasks[i].result
        /\ tasks'[i].target # tasks[i].target =>
              \A n \in Targets(tasks'[i]) : tasks'[i].target[n] = desired'[n]

LEMMA ProcQuiet ==
    ASSUME NEW ts, NEW us, NEW q, ProcSound(q, ts), ProcCurrent(q, ts),
           \A i \in DOMAIN ts : Quiet(ts[i], us[i])
    PROVE  ProcCurrent(q, us)
<1>1. CASE q.at \in Writing
  <2>1. q.task \in DOMAIN ts
    BY <1>1 DEF ProcSound
  <2>2. /\ Targets(us[q.task]) = Targets(ts[q.task])
        /\ With(us[q.task], "pending") \subseteq With(ts[q.task], "pending")
        /\ ts[q.task].expired => us[q.task].expired
    BY <2>1 DEF Quiet, Targets
  <2> QED BY <2>2 DEF ProcCurrent
<1>2. CASE q.at \notin Writing
  BY <1>2 DEF ProcCurrent, Writing
<1> QED BY <1>1, <1>2

\* A step of one process that stages nothing.
LEMMA CurrentKept ==
    ASSUME CurrentInv, SoundInv', DOMAIN tasks' = DOMAIN tasks,
           \A i \in DOMAIN tasks : Quiet(tasks[i], tasks'[i]) /\ TaskCurrent(tasks'[i]),
           NEW p \in Procs, NEW q \in Process, proc' = [proc EXCEPT ![p] = q],
           ProcCurrent(q, tasks'), PubCurrent(proc'[Publisher], tasks'),
           PlanCurrent(proc[Publisher])'
    PROVE  CurrentInv'
<1>1. /\ tasks \in Seq(Task) /\ tasks' \in Seq(Task) /\ proc \in [Procs -> Process]
  BY DEF CurrentInv, SoundInv, TypeOK
<1>2. Len(tasks') = Len(tasks)
  BY <1>1, LenProperties, SMT
<1>3. \A r \in Procs : ProcCurrent(proc[r], tasks')
  BY ProcQuiet DEF CurrentInv, SoundInv
<1>4. \A r \in Procs : ProcCurrent(proc'[r], tasks')
  BY <1>1, <1>3
<1>5. \A i \in DOMAIN tasks' : i < Len(tasks') => tasks'[i].status # "active"
  BY <1>2 DEF CurrentInv, Quiet, Latest
<1> QED BY <1>4, <1>5 DEF CurrentInv, Latest, Pub

\* The task a process writes: replaced by another one, or by itself.
LEMMA QuietReplaced ==
    ASSUME CurrentInv, NEW i, NEW s, tasks' = [tasks EXCEPT ![i] = s],
           i \in DOMAIN tasks => Quiet(tasks[i], s) /\ TaskCurrent(s)
    PROVE  /\ DOMAIN tasks' = DOMAIN tasks
           /\ \A k \in DOMAIN tasks : Quiet(tasks[k], tasks'[k]) /\ TaskCurrent(tasks'[k])
<1>1. tasks \in Seq(Task) /\ \A k \in DOMAIN tasks : TaskCurrent(tasks[k])
  BY DEF CurrentInv, SoundInv, TypeOK
<1> QED BY <1>1 DEF Quiet

\* An older task is not active, and so none of its rows waits.
LEMMA OlderRests ==
    ASSUME CurrentInv, NEW i \in DOMAIN tasks, i < Latest
    PROVE  With(tasks[i], "pending") = {}
BY DEF CurrentInv, TaskCurrent

LEMMA SettleQuiet ==
    ASSUME NEW t \in Task, TaskCurrent(t), NEW nodes,
           NEW from, NEW to \in {"succeeded", "timed_out"}
    PROVE  /\ Quiet(t, Settle(t, nodes, from, to)) /\ TaskCurrent(Settle(t, nodes, from, to))
           /\ Settle(t, nodes, from, to).status = t.status
           /\ Settle(t, nodes, from, to).expired = t.expired
           /\ nodes = {} \/ (from = {"pending"} /\ With(t, "pending") = {})
                => Settle(t, nodes, from, to).result = t.result
<1> DEFINE s == Settle(t, nodes, from, to)
<1>1. /\ s.status = t.status /\ s.expired = t.expired /\ s.target = t.target
      /\ s.result = [n \in Nodes |-> IF n \in nodes /\ t.result[n] \in from
                                     THEN to ELSE t.result[n]]
  BY DEF Settle, Task
<1>2. With(s, "pending") \subseteq With(t, "pending")
  BY <1>1 DEF With
<1>3. ASSUME nodes = {} \/ (from = {"pending"} /\ With(t, "pending") = {})
      PROVE  s.result = t.result
  <2>1. \A n \in Nodes : s.result[n] = t.result[n]
    BY <1>1, <1>3 DEF With
  <2>2. t.result = [n \in Nodes |-> t.result[n]] /\ s.result = [n \in Nodes |-> s.result[n]]
    BY <1>1 DEF Task
  <2> QED BY <2>1, <2>2
<1> QED BY <1>1, <1>2, <1>3 DEF Quiet, TaskCurrent

Reconciling == {"list", "confirm", "count", "expire", "close", "list_closed",
                "late", "late_count", "late_close"}

\* A statement of the reconciliation, whoever executes it.
LEMMA CurrentStatement ==
    ASSUME CurrentInv, SoundInv', DOMAIN tasks' = DOMAIN tasks,
           \A i \in DOMAIN tasks : Quiet(tasks[i], tasks'[i]) /\ TaskCurrent(tasks'[i]),
           \A i \in DOMAIN tasks : i < Latest => tasks'[i].result = tasks[i].result,
           \A i \in DOMAIN tasks :
              ~tasks[i].expired /\ Targets(tasks[i]) = {}
              => tasks'[i].status = tasks[i].status /\ tasks'[i].expired = tasks[i].expired,
           NEW p \in Procs, NEW q \in Process, proc' = [proc EXCEPT ![p] = q],
           proc[p].at \in Reconciling, q.next = proc[p].next,
           q.at \in Reconciling \/ q.at = q.next,
           ProcCurrent(q, tasks'), UNCHANGED <<plan, desired>>
    PROVE  CurrentInv' /\ KeepsResults
<1>1. /\ tasks \in Seq(Task) /\ tasks' \in Seq(Task) /\ proc \in [Procs -> Process]
      /\ Publisher \in Procs
  BY DEF CurrentInv, SoundInv, TypeOK, Procs
<1>2. Len(tasks') = Len(tasks)
  BY <1>1, LenProperties
<1>3. PubCurrent(proc'[Publisher], tasks')
  <2>1. CASE p = Publisher
    <3>1. proc'[Publisher] = q /\ proc[p] = Pub
      BY <1>1, <2>1 DEF Pub
    <3>2. q.next \in {"plan", "create"}
      BY <1>1, <3>1 DEF CurrentInv, PubCurrent, Reconciling, Process
    <3> QED BY <3>1, <3>2 DEF PubCurrent, Publishing, Reconciling
  <2>2. CASE p # Publisher
    <3>1. proc'[Publisher] = Pub
      BY <1>1, <2>2 DEF Pub
    <3>2. ASSUME Pub.at \in Publishing
          PROVE  /\ Pub.task = Len(tasks') /\ tasks'[Pub.task].status = "active"
                 /\ ~tasks'[Pub.task].expired
      <4>1. /\ Pub.task \in DOMAIN tasks /\ Targets(tasks[Pub.task]) = {}
            /\ Pub.task = Len(tasks) /\ tasks[Pub.task].status = "active"
            /\ ~tasks[Pub.task].expired
        BY <1>1, <3>2 DEF CurrentInv, PubCurrent, SoundInv, ProcSound, Pub
      <4> QED BY <1>2, <4>1
    <3> QED BY <3>1, <3>2 DEF PubCurrent, CurrentInv
  <2> QED BY <2>1, <2>2
<1>4. PlanCurrent(proc[Publisher])'
  <2>1. CASE p = Publisher
    <3>1. proc'[Publisher] = q /\ proc[p] = Pub
      BY <1>1, <2>1 DEF Pub
    <3>2. q.next \in {"plan", "create"} /\ Pub.next = q.next
      BY <1>1, <3>1 DEF CurrentInv, PubCurrent, Reconciling, Process
    <3>3. q.at \in {"idle", "plan", "finish"} \/ q.next # "create" => plan = NoTargets
      BY <3>1, <3>2 DEF CurrentInv, PlanCurrent, Reconciling
    <3> QED BY <3>1, <3>3 DEF CurrentInv, PlanCurrent
  <2>2. CASE p # Publisher
    <3>1. proc'[Publisher] = Pub
      BY <1>1, <2>2 DEF Pub
    <3> QED BY <3>1 DEF CurrentInv, PlanCurrent
  <2> QED BY <2>1, <2>2
<1>5. CurrentInv'
  BY <1>3, <1>4, CurrentKept
<1>6. KeepsResults
  BY DEF KeepsResults, Quiet
<1> QED BY <1>5, <1>6

LEMMA SameTasks ==
    ASSUME CurrentInv, tasks' = tasks
    PROVE  /\ DOMAIN tasks' = DOMAIN tasks
           /\ \A i \in DOMAIN tasks : Quiet(tasks[i], tasks'[i]) /\ TaskCurrent(tasks'[i])
BY DEF CurrentInv, Quiet

LEMMA CurrentReconcile ==
    ASSUME CurrentInv, SoundInv', NEW p \in Procs, Reconcile(p)
    PROVE  CurrentInv' /\ KeepsResults
<1> DEFINE i == proc[p].task
           t == tasks[i]
           counted == Outcome(Cardinality(Targets(t)), Cardinality(With(t, "succeeded")))
<1>1. /\ tasks \in Seq(Task) /\ proc[p] \in Process /\ proc[p].verdict \in Verdict
      /\ proc \in [Procs -> Process]
      /\ \A k \in DOMAIN tasks : TaskSound(tasks[k]) /\ TaskCurrent(tasks[k]) /\ tasks[k] \in Task
      /\ ProcSound(proc[p], tasks) /\ ProcCurrent(proc[p], tasks)
  BY TaskAt DEF CurrentInv, SoundInv, TypeOK, Process
<1>2. /\ proc' \in [Procs -> Process] /\ proc'[p] \in Process /\ proc' = [proc EXCEPT ![p] = proc'[p]]
      /\ UNCHANGED <<plan, desired>>
  <2>1. proc' \in [Procs -> Process]
    BY DEF SoundInv, TypeOK
  <2>2. \A r \in Procs : r # p => proc'[r] = proc[r]
    BY <1>1 DEF Reconcile, ListActive, ConfirmApplied, CountResults, TimeOut, Close,
       ListClosed, ConfirmLate, CountLate, CloseLate, Goto, Return
  <2>3. UNCHANGED <<plan, desired>>
    BY DEF Reconcile, ListActive, ConfirmApplied, CountResults, TimeOut, Close,
       ListClosed, ConfirmLate, CountLate, CloseLate
  <2>4. proc' = [proc EXCEPT ![p] = proc'[p]]
    BY <1>1, <2>1, <2>2
  <2> QED BY <2>1, <2>3, <2>4
\* A statement that reads the tasks only.
<1>3. ASSUME tasks' = tasks, proc[p].at \in Reconciling, proc'[p].next = proc[p].next,
             proc'[p].at \in Reconciling \/ proc'[p].at = proc'[p].next,
             ProcCurrent(proc'[p], tasks)
      PROVE  CurrentInv' /\ KeepsResults
  BY <1>2, <1>3, SameTasks, CurrentStatement
\* A statement that writes the task of the process.
<1>4. ASSUME NEW s, i \in DOMAIN tasks, tasks' = [tasks EXCEPT ![i] = s],
             Quiet(t, s), TaskCurrent(s), i < Latest => s.result = t.result,
             ~t.expired /\ Targets(t) = {} => s.status = t.status /\ s.expired = t.expired,
             proc[p].at \in Reconciling, proc'[p].next = proc[p].next,
             proc'[p].at \in Reconciling \/ proc'[p].at = proc'[p].next,
             ProcCurrent(proc'[p], tasks')
      PROVE  CurrentInv' /\ KeepsResults
  <2>1. /\ DOMAIN tasks' = DOMAIN tasks
        /\ \A k \in DOMAIN tasks : Quiet(tasks[k], tasks'[k]) /\ TaskCurrent(tasks'[k])
    BY <1>4, QuietReplaced
  <2>2. tasks'[i] = s /\ \A k \in DOMAIN tasks : k # i => tasks'[k] = tasks[k]
    BY <1>1, <1>4
  <2>3. \A k \in DOMAIN tasks : k < Latest => tasks'[k].result = tasks[k].result
    BY <1>4, <2>2
  <2>4. \A k \in DOMAIN tasks :
          ~tasks[k].expired /\ Targets(tasks[k]) = {}
          => tasks'[k].status = tasks[k].status /\ tasks'[k].expired = tasks[k].expired
    BY <1>4, <2>2
  <2> QED BY <1>2, <1>4, <2>1, <2>3, <2>4, CurrentStatement
<1>5. CASE ListActive(p)
  <2>1. tasks' = tasks /\ proc[p].at = "list" /\ proc'[p].next = proc[p].next
        /\ proc'[p].at \in {"confirm", "list_closed"}
    BY <1>1, <1>5 DEF ListActive, Goto, Process
  <2> QED BY <1>3, <2>1 DEF ProcCurrent, Reconciling
<1>6. CASE ConfirmApplied(p)
  <2> DEFINE s == Settle(t, HaveApplied(t), {"pending"}, "succeeded")
  <2>1. /\ i \in DOMAIN tasks /\ tasks' = [tasks EXCEPT ![i] = s] /\ proc[p].at = "confirm"
        /\ proc'[p].next = proc[p].next /\ proc'[p].at = "count"
    BY <1>1, <1>6 DEF ConfirmApplied, ProcSound, Goto, Process
  <2>2. /\ Quiet(t, s) /\ TaskCurrent(s) /\ s.status = t.status /\ s.expired = t.expired
        /\ With(t, "pending") = {} => s.result = t.result
    BY <1>1, <2>1, SettleQuiet
  <2> HIDE DEF s
  <2>3. i < Latest => s.result = t.result
    BY <2>1, <2>2, OlderRests
  <2> QED BY <1>4, <2>1, <2>2, <2>3 DEF ProcCurrent, Reconciling
<1>7. CASE CountResults(p)
  <2>1. tasks' = tasks /\ i \in DOMAIN tasks /\ t \in Task /\ RowsMatch(t) /\ proc[p].at = "count"
    BY <1>1, <1>7 DEF CountResults, ProcSound, TaskSound
  <2>2. /\ proc'[p].next = proc[p].next /\ proc'[p].task = i
        /\ \/ proc'[p].at = "list_closed"
           \/ proc'[p].at = "close" /\ t.expired /\ Targets(t) = {}
           \/ proc'[p].at = "expire" /\ t.expired
           \/ proc'[p].at = "close" /\ Targets(t) # {} /\ With(t, "pending") = {}
    BY <1>1, <1>7 DEF CountResults, Goto, Process
  <2>3. Targets(t) = {} => With(t, "pending") = {}
    BY <2>1, RowsOfTargets
  <2> QED BY <1>3, <2>1, <2>2, <2>3 DEF ProcCurrent, Reconciling
<1>8. CASE TimeOut(p)
  <2> DEFINE s == Settle(t, Nodes, {"pending"}, "timed_out")
  <2>1. /\ i \in DOMAIN tasks /\ tasks' = [tasks EXCEPT ![i] = s] /\ proc[p].at = "expire"
        /\ proc'[p].next = proc[p].next /\ proc'[p].at = "close" /\ proc'[p].task = i
    BY <1>1, <1>8 DEF TimeOut, ProcSound, Goto, Process, Writing
  <2>2. /\ Quiet(t, s) /\ TaskCurrent(s) /\ s.status = t.status /\ s.expired = t.expired
        /\ With(t, "pending") = {} => s.result = t.result
    BY <1>1, <2>1, SettleQuiet
  <2>3. With(s, "pending") = {} /\ s.expired
    BY <1>1, <2>1, <2>2 DEF With, Settle, Task, ProcCurrent
  <2> HIDE DEF s
  <2>4. i < Latest => s.result = t.result
    BY <2>1, <2>2, OlderRests
  <2>5. tasks'[i] = s
    BY <1>1, <2>1
  <2> QED BY <1>4, <2>1, <2>2, <2>3, <2>4, <2>5 DEF ProcCurrent, Reconciling
<1>9. CASE Close(p) \/ CloseLate(p)
  <2> DEFINE v == proc[p].verdict
             s == Judged(t, v)
  <2>1. /\ i \in DOMAIN tasks /\ UpdateTask(i, v) /\ proc[p].at \in {"close", "late_close"}
        /\ proc'[p].next = proc[p].next
        /\ proc'[p].at = "list_closed" \/ proc'[p].at = proc[p].next
    BY <1>1, <1>9 DEF Close, CloseLate, ProcSound, Writing, Goto, Return, Process
  <2>2. tasks' = [tasks EXCEPT ![i] = s]
    BY <1>1, <2>1, UpdateTaskType
  <2>3. With(t, "pending") = {} /\ (t.expired \/ Targets(t) # {})
    BY <1>1, <2>1 DEF ProcCurrent
  <2>4. /\ s.result = t.result /\ s.target = t.target /\ s.expired = t.expired
        /\ s.status = v.status /\ v.status # "active"
    BY <1>1, <2>1 DEF Judged, Task, Verdict, Closed
  <2>5. Quiet(t, s) /\ TaskCurrent(s)
    BY <2>3, <2>4 DEF Quiet, TaskCurrent, With
  <2>6. ProcCurrent(proc'[p], tasks')
    <3>1. proc'[p].at \in {"list_closed", "idle", "plan", "create"}
      BY <1>1, <2>1 DEF Process
    <3> QED BY <3>1 DEF ProcCurrent
  <2> HIDE DEF s, v
  <2> QED BY <1>4, <2>1, <2>2, <2>3, <2>4, <2>5, <2>6 DEF Reconciling
<1>10. CASE ListClosed(p)
  <2>1. /\ tasks' = tasks /\ proc[p].at = "list_closed" /\ proc'[p].next = proc[p].next
        /\ proc'[p].at = "late" \/ proc'[p].at = proc[p].next
    BY <1>1, <1>10 DEF ListClosed, Return, Process
  <2>2. ProcCurrent(proc'[p], tasks)
    BY <1>1, <2>1 DEF ProcCurrent, Process
  <2> QED BY <1>3, <2>1, <2>2 DEF Reconciling
<1>11. CASE ConfirmLate(p)
  <2> DEFINE late == IF i = Latest THEN HaveApplied(t) ELSE {}
             s == Settle(t, late, {"failed", "timed_out"}, "succeeded")
  <2>1. /\ i \in DOMAIN tasks /\ tasks' = [tasks EXCEPT ![i] = s] /\ proc[p].at = "late"
        /\ proc'[p].next = proc[p].next /\ proc'[p].at = "late_count"
    BY <1>1, <1>11 DEF ConfirmLate, ProcSound, Process
  <2>2. /\ Quiet(t, s) /\ TaskCurrent(s) /\ s.status = t.status /\ s.expired = t.expired
        /\ late = {} => s.result = t.result
    BY <1>1, <2>1, SettleQuiet
  <2>3. i < Latest => s.result = t.result
    BY <1>1, <2>1, <2>2, LenProperties DEF Latest
  <2> HIDE DEF s
  <2> QED BY <1>4, <2>1, <2>2, <2>3 DEF ProcCurrent, Reconciling
<1>12. CASE CountLate(p)
  <2>1. tasks' = tasks /\ i \in DOMAIN tasks /\ proc[p].at = "late_count"
    BY <1>1, <1>12 DEF CountLate, ProcSound
  <2>2. /\ proc'[p].next = proc[p].next
        /\ \/ proc'[p].at = proc[p].next
           \/ /\ proc'[p].at = "late_close" /\ proc'[p].task = i
              /\ Targets(t) # {} /\ With(t, "pending") = {}
    BY <1>1, <1>12 DEF CountLate, Return, Process
  <2>3. ProcCurrent(proc'[p], tasks)
    BY <1>1, <2>2 DEF ProcCurrent, Process
  <2> QED BY <1>3, <2>1, <2>2, <2>3 DEF Reconciling
<1> QED BY <1>5, <1>6, <1>7, <1>8, <1>9, <1>10, <1>11, <1>12 DEF Reconcile

\* The publisher leaves the tasks alone, or writes one that it has just created.
LEMMA CurrentPublish ==
    ASSUME CurrentInv, SoundInv', Publish
    PROVE  CurrentInv' /\ KeepsResults
<1> DEFINE i == Pub.task
           t == tasks[i]
<1>1. /\ tasks \in Seq(Task) /\ tasks' \in Seq(Task) /\ proc \in [Procs -> Process]
      /\ proc' \in [Procs -> Process] /\ plan \in [Nodes -> Nat] /\ desired \in [Nodes -> Nat]
      /\ Publisher \in Procs /\ Pub = proc[Publisher] /\ Pub \in Process
      /\ PubCurrent(Pub, tasks) /\ PlanCurrent(Pub) /\ ProcSound(Pub, tasks)
      /\ proc'[Publisher] \in Process
      /\ \A k \in DOMAIN tasks : TaskSound(tasks[k]) /\ TaskCurrent(tasks[k]) /\ tasks[k] \in Task
  BY TaskAt DEF CurrentInv, SoundInv, TypeOK, Procs, Pub
<1>2. proc' = [proc EXCEPT ![Publisher] = proc'[Publisher]]
  <2>1. \A r \in Procs : r # Publisher => proc'[r] = proc[r]
    BY <1>1 DEF Publish, PlanRetry, RefuseRetry, CreateTask, MarkApplying, Render, Stage,
       FailPublish, FinishWithoutTargets, Goto
  <2> QED BY <1>1, <2>1
<1>3. ASSUME Pub.at \in Publishing
      PROVE  /\ i \in DOMAIN tasks /\ i = Len(tasks) /\ t.status = "active" /\ ~t.expired
             /\ Targets(t) = {} /\ With(t, "pending") = {} /\ Pub.next = "create"
  <2>1. /\ i \in DOMAIN tasks /\ i = Len(tasks) /\ t.status = "active" /\ ~t.expired
        /\ Targets(t) = {} /\ Pub.next = "create"
    BY <1>1, <1>3 DEF ProcSound, PubCurrent
  <2>2. With(t, "pending") = {}
    BY <1>1, <2>1, RowsOfTargets DEF TaskSound
  <2> QED BY <2>1, <2>2
<1>4. ASSUME tasks' = tasks, ProcCurrent(proc'[Publisher], tasks'),
             PubCurrent(proc'[Publisher], tasks'), PlanCurrent(proc[Publisher])'
      PROVE  CurrentInv' /\ KeepsResults
  <2>1. CurrentInv'
    BY <1>1, <1>2, <1>4, SameTasks, CurrentKept
  <2> QED BY <1>4, <2>1 DEF KeepsResults
<1>5. CASE PlanRetry
  <2>1. /\ tasks' = tasks /\ UNCHANGED desired /\ plan' = RetryTargets(tasks[Latest])
        /\ proc'[Publisher].at = "list" /\ proc'[Publisher].next = "create"
    BY <1>1, <1>5 DEF PlanRetry, Process
  <2>2. \A n \in Nodes : plan'[n] = desired[n] \/ plan'[n] = 0
    BY <2>1 DEF RetryTargets
  <2>3. \A n \in Nodes : plan'[n] > 0 => plan'[n] >= desired'[n]
    BY <1>1, <2>1, <2>2
  <2> QED BY <1>4, <2>1, <2>3 DEF ProcCurrent, PubCurrent, PlanCurrent, Publishing
<1>6. CASE RefuseRetry
  <2>1. tasks' = tasks /\ UNCHANGED <<desired, plan>> /\ proc'[Publisher] = Idle /\ Pub.at = "plan"
    BY <1>1, <1>6 DEF RefuseRetry
  <2>2. plan' = NoTargets
    BY <1>1, <2>1 DEF PlanCurrent
  <2> QED BY <1>1, <1>4, <2>1, <2>2 DEF ProcCurrent, PubCurrent, PlanCurrent, Publishing, Idle
<1>7. CASE CreateTask
  <2>1. CASE ActiveTasks # {}
    <3>1. /\ tasks' = tasks /\ UNCHANGED desired /\ proc'[Publisher] = Idle /\ plan' = NoTargets
      BY <1>1, <1>7, <2>1 DEF CreateTask
    <3>2. \A n \in Nodes : plan'[n] = 0
      BY <3>1 DEF NoTargets
    <3> QED BY <1>4, <3>1, <3>2 DEF ProcCurrent, PubCurrent, PlanCurrent, Publishing, Idle
  <2>2. CASE ActiveTasks = {}
    <3>1. /\ tasks' = Append(tasks, NewTask) /\ UNCHANGED <<desired, plan>> /\ Pub.at = "create"
          /\ proc'[Publisher].at = "apply" /\ proc'[Publisher].task = Len(tasks) + 1
          /\ proc'[Publisher].next = Pub.next
      BY <1>1, <1>7, <2>2 DEF CreateTask, Latest, Process
    <3>2. /\ Len(tasks') = Len(tasks) + 1 /\ tasks'[Len(tasks) + 1] = NewTask
          /\ \A k \in DOMAIN tasks : tasks'[k] = tasks[k]
          /\ DOMAIN tasks = 1..Len(tasks) /\ DOMAIN tasks' = 1..(Len(tasks) + 1)
          /\ Len(tasks) \in Nat
      BY <1>1, <3>1, AppendProperties, LenProperties
    <3>3. \A k \in DOMAIN tasks : tasks[k].status # "active"
      BY <2>2, <3>2 DEF ActiveTasks, Latest
    <3>4. \A k \in DOMAIN tasks' : /\ TaskCurrent(tasks'[k])
                                   /\ k < Len(tasks') => tasks'[k].status # "active"
      BY <1>1, <3>2, <3>3 DEF NewTask, TaskCurrent
    <3>5. \A k \in DOMAIN tasks : Quiet(tasks[k], tasks'[k])
      BY <3>2 DEF Quiet
    <3>6. \A r \in Procs : ProcCurrent(proc[r], tasks')
      BY <3>5, ProcQuiet DEF CurrentInv, SoundInv
    <3>7. ProcCurrent(proc'[Publisher], tasks') /\ PubCurrent(proc'[Publisher], tasks')
      BY <1>1, <3>1, <3>2 DEF ProcCurrent, PubCurrent, NewTask, Publishing
    <3>8. PlanCurrent(proc[Publisher])'
      BY <1>1, <3>1 DEF PlanCurrent, PubCurrent
    <3>9. \A r \in Procs : ProcCurrent(proc'[r], tasks')
      BY <1>1, <1>2, <3>6, <3>7
    <3>10. CurrentInv'
      BY <3>4, <3>7, <3>8, <3>9 DEF CurrentInv, Latest, Pub
    <3> QED BY <3>2, <3>10 DEF KeepsResults
  <2> QED BY <2>1, <2>2
<1>8. CASE MarkApplying
  <2>1. /\ Pub.at = "apply" /\ tasks' = [tasks EXCEPT ![i].status = "active"]
        /\ UNCHANGED <<desired, plan>> /\ proc'[Publisher].at \in {"stage", "render"}
        /\ proc'[Publisher].task = i /\ proc'[Publisher].next = Pub.next
    BY <1>1, <1>8 DEF MarkApplying, Goto, Process
  <2>2. i \in DOMAIN tasks /\ t.status = "active" /\ t \in Task
    BY <1>1, <1>3, <2>1 DEF Publishing
  <2>3. [t EXCEPT !.status = "active"] = t
    BY <2>2 DEF Task
  <2>4. tasks' = tasks
    BY <1>1, <2>1, <2>2, <2>3
  <2>5. i = Len(tasks) /\ ~t.expired /\ Pub.next = "create"
    BY <1>3, <2>1 DEF Publishing
  <2>6. PubCurrent(proc'[Publisher], tasks') /\ ProcCurrent(proc'[Publisher], tasks')
    BY <2>1, <2>2, <2>4, <2>5 DEF PubCurrent, ProcCurrent
  <2>7. PlanCurrent(proc[Publisher])'
    BY <1>1, <2>1, <2>5 DEF PlanCurrent
  <2> QED BY <1>4, <2>4, <2>6, <2>7
<1>9. CASE Render
  <2>1. /\ Pub.at = "render" /\ tasks' = tasks /\ UNCHANGED desired
        /\ proc'[Publisher].at = "stage"
        /\ proc'[Publisher].task = i /\ proc'[Publisher].next = Pub.next
    BY <1>1, <1>9 DEF Render, Goto, Process
  <2>2. PICK changed : plan' = PublishTargets(changed)
    BY <1>9 DEF Render
  <2>3. \A n \in Nodes : plan'[n] > 0 => plan'[n] >= desired[n]
    BY <1>1, <2>2 DEF PublishTargets
  <2>4. /\ i = Len(tasks) /\ t.status = "active" /\ ~t.expired /\ Pub.next = "create"
    BY <1>3, <2>1 DEF Publishing
  <2>5. PubCurrent(proc'[Publisher], tasks') /\ ProcCurrent(proc'[Publisher], tasks')
    BY <2>1, <2>4 DEF PubCurrent, ProcCurrent
  <2>6. PlanCurrent(proc[Publisher])'
    BY <1>1, <2>1, <2>3, <2>4 DEF PlanCurrent
  <2> QED BY <1>4, <2>1, <2>5, <2>6
\* Nobody else is at work on the task that gets its targets.
<1>10. CASE Stage
  <2> DEFINE s == Staged(t, plan)
  <2>1. /\ Pub.at = "stage" /\ tasks' = [tasks EXCEPT ![i] = s] /\ plan' = NoTargets
        /\ desired' = [n \in Nodes |-> IF plan[n] > desired[n] THEN plan[n] ELSE desired[n]]
    BY <1>1, <1>10 DEF Stage
  <2>2. \/ proc'[Publisher] = Idle
        \/ proc'[Publisher].at = "finish" /\ proc'[Publisher].task = i
           /\ proc'[Publisher].next = Pub.next
    BY <1>1, <1>10 DEF Stage, Goto, Process
  <2>3. /\ i \in DOMAIN tasks /\ i = Len(tasks) /\ t.status = "active" /\ ~t.expired
        /\ Targets(t) = {} /\ Pub.next = "create" /\ t \in Task
    BY <1>1, <1>3, <2>1 DEF Publishing
  <2>4. s.status = "active" /\ ~s.expired /\ s.target = plan
    BY <2>3 DEF Staged, Task
  <2> HIDE DEF s
  <2>5. /\ DOMAIN tasks' = DOMAIN tasks /\ tasks'[i] = s /\ Len(tasks') = Len(tasks)
        /\ \A k \in DOMAIN tasks : k # i => tasks'[k] = tasks[k]
        /\ DOMAIN tasks = 1..Len(tasks) /\ Len(tasks) \in Nat
    BY <1>1, <2>1, <2>3, LenProperties
  <2>6. \A k \in DOMAIN tasks' : /\ TaskCurrent(tasks'[k])
                                 /\ k < Len(tasks') => tasks'[k].status # "active"
    BY <1>1, <2>3, <2>4, <2>5 DEF TaskCurrent, CurrentInv, Latest
  <2>7. ASSUME NEW r \in Procs PROVE ProcCurrent(proc[r], tasks')
    <3>1. ProcSound(proc[r], tasks) /\ ProcCurrent(proc[r], tasks)
      BY DEF CurrentInv, SoundInv
    <3>2. ASSUME proc[r].at \in Writing PROVE proc[r].task # i /\ proc[r].task \in DOMAIN tasks
      BY <2>3, <3>1, <3>2 DEF ProcSound, ProcCurrent, Writing
    <3>3. CASE proc[r].at \in Writing
      BY <2>5, <3>1, <3>2, <3>3 DEF ProcCurrent
    <3>4. CASE proc[r].at \notin Writing
      BY <3>4 DEF ProcCurrent, Writing
    <3> QED BY <3>3, <3>4
  <2>8. ProcCurrent(proc'[Publisher], tasks') /\ PubCurrent(proc'[Publisher], tasks')
    BY <2>2, <2>3, <2>4, <2>5 DEF ProcCurrent, PubCurrent, Publishing, Idle
  <2>9. \A r \in Procs : ProcCurrent(proc'[r], tasks')
    BY <1>1, <1>2, <2>7, <2>8
  <2>10. PlanCurrent(proc[Publisher])'
    BY <1>1, <2>1 DEF PlanCurrent, NoTargets
  <2>11. CurrentInv'
    BY <2>6, <2>8, <2>9, <2>10 DEF CurrentInv, Latest, Pub
  <2>12. \A n \in Nodes : plan[n] > 0 => plan[n] = desired'[n]
    BY <1>1, <2>1 DEF PlanCurrent
  <2>13. \A n \in Targets(tasks'[i]) : tasks'[i].target[n] = desired'[n]
    BY <2>4, <2>5, <2>12 DEF Targets
  <2>14. KeepsResults
    BY <2>3, <2>5, <2>13 DEF KeepsResults, Latest
  <2> QED BY <2>11, <2>14
<1>11. CASE FailPublish \/ FinishWithoutTargets
  <2>1. /\ Pub.at \in Publishing /\ proc'[Publisher] = Idle /\ UNCHANGED desired
        /\ UpdateTask(i, NoVerdict) \/ UpdateTask(i, Outcome(0, 0))
        /\ plan' = NoTargets
    BY <1>1, <1>11 DEF FailPublish, FinishWithoutTargets, Publishing, PlanCurrent
  <2>2. NoVerdict \in Verdict /\ Outcome(0, 0) \in Verdict
    BY IdleType, OutcomeType
  <2>3. PICK v \in Verdict : UpdateTask(i, v)
    BY <2>1, <2>2
  <2> DEFINE s == Judged(t, v)
  <2>4. tasks' = [tasks EXCEPT ![i] = s]
    BY <1>1, <2>3, UpdateTaskType
  <2>5. /\ i \in DOMAIN tasks /\ t \in Task /\ i = Len(tasks) /\ With(t, "pending") = {}
    BY <1>1, <1>3, <2>1
  <2>6. /\ s.result = t.result /\ s.target = t.target /\ s.expired = t.expired
        /\ s.status # "active"
    BY <2>5 DEF Judged, Task, Verdict, Closed
  <2> HIDE DEF s
  <2>7. Quiet(t, s) /\ TaskCurrent(s)
    BY <2>5, <2>6 DEF Quiet, TaskCurrent, With
  <2>8. /\ DOMAIN tasks' = DOMAIN tasks
        /\ \A k \in DOMAIN tasks : Quiet(tasks[k], tasks'[k]) /\ TaskCurrent(tasks'[k])
    BY <2>4, <2>7, QuietReplaced
  <2>9. /\ ProcCurrent(proc'[Publisher], tasks') /\ PubCurrent(proc'[Publisher], tasks')
    BY <2>1 DEF ProcCurrent, PubCurrent, Publishing, Idle
  <2>10. PlanCurrent(proc[Publisher])'
    BY <1>1, <2>1 DEF PlanCurrent, NoTargets
  <2>11. CurrentInv'
    BY <1>1, <1>2, <2>8, <2>9, <2>10, CurrentKept
  <2>12. KeepsResults
    BY <1>1, <2>4, <2>6, <2>8 DEF KeepsResults, Quiet
  <2> QED BY <2>11, <2>12
<1> QED BY <1>5, <1>6, <1>7, <1>8, <1>9, <1>10, <1>11 DEF Publish

LEMMA RecordedQuiet ==
    ASSUME NEW t \in Task, TaskCurrent(t), NEW n, NEW r
    PROVE  /\ Quiet(t, Recorded(t, n, r)) /\ TaskCurrent(Recorded(t, n, r))
           /\ Recorded(t, n, r).status = t.status /\ Recorded(t, n, r).expired = t.expired
           /\ t.status # "active" => Recorded(t, n, r).result = t.result
<1>1. CASE Recorded(t, n, r) = t
  BY <1>1 DEF Quiet
<1>2. CASE Recorded(t, n, r) # t
  <2> DEFINE to == IF r.ok THEN "succeeded" ELSE "failed"
             s == [t EXCEPT !.result[n] = to]
  <2>1. Recorded(t, n, r) = s /\ t.status = "active"
    BY <1>2 DEF Recorded
  <2>2. /\ s.status = t.status /\ s.expired = t.expired /\ s.target = t.target
        /\ s.result = [t.result EXCEPT ![n] = to]
    BY DEF Task
  <2>3. to # "pending"
    OBVIOUS
  <2> HIDE DEF to
  <2>4. With(s, "pending") \subseteq With(t, "pending")
    BY <2>2, <2>3 DEF With, Task
  <2> HIDE DEF s
  <2> QED BY <2>1, <2>2, <2>4 DEF Quiet, TaskCurrent
<1> QED BY <1>1, <1>2

LEMMA CurrentNext ==
    ASSUME ~SlowRendering, CurrentInv, [Next]_vars
    PROVE  CurrentInv' /\ KeepsResults
<1>1. /\ SoundInv /\ SoundInv' /\ tasks \in Seq(Task) /\ tasks' \in Seq(Task)
      /\ proc \in [Procs -> Process] /\ proc' \in [Procs -> Process]
      /\ plan \in [Nodes -> Nat] /\ desired \in [Nodes -> Nat]
      /\ Publisher \in Procs /\ Publisher \notin Workers /\ Workers \subseteq Procs
      /\ \A k \in DOMAIN tasks : TaskCurrent(tasks[k]) /\ tasks[k] \in Task
      /\ PubCurrent(Pub, tasks) /\ PlanCurrent(Pub)
  BY SoundNext, TaskAt, ConstantsAssumption DEF CurrentInv, SoundInv, TypeOK, Procs
\* A worker begins something, or the publisher does.
<1>2. ASSUME NEW p \in Procs, NEW q \in Process, proc' = [proc EXCEPT ![p] = q],
             q.at \in {"advance", "list"}, tasks' = tasks, UNCHANGED <<plan, desired>>,
             p = Publisher => q.next \in {"plan", "create"} /\ Pub.at = "idle"
      PROVE  CurrentInv' /\ KeepsResults
  <2>1. ProcCurrent(q, tasks')
    BY <1>2 DEF ProcCurrent
  <2>2. PubCurrent(proc'[Publisher], tasks')
    BY <1>1, <1>2 DEF PubCurrent, Publishing, Pub
  <2>3. PlanCurrent(proc[Publisher])'
    BY <1>1, <1>2 DEF PlanCurrent, Pub
  <2>4. CurrentInv'
    BY <1>1, <1>2, <2>1, <2>2, <2>3, SameTasks, CurrentKept
  <2> QED BY <1>2, <2>4 DEF KeepsResults
<1>3. ASSUME NEW p \in Workers, NEW n \in Nodes, ReceiveHeartbeat(p, n)
      PROVE  CurrentInv' /\ KeepsResults
  <2>1. PICK v \in Loaded(n), r \in reports[n] \cup {NoReport} :
          /\ tasks' = IF r = NoReport THEN tasks
                      ELSE [i \in DOMAIN tasks |-> Recorded(tasks[i], n, r)]
          /\ proc' = [proc EXCEPT ![p] =
                         [Idle EXCEPT !.at = "advance", !.node = n, !.version = v]]
    BY <1>3 DEF ReceiveHeartbeat
  <2>2. UNCHANGED <<plan, desired>>
    BY <1>3 DEF ReceiveHeartbeat
  <2> DEFINE q == [Idle EXCEPT !.at = "advance", !.node = n, !.version = v]
  <2>3. v \in Nat
    BY <1>1 DEF Loaded, Report, TypeOK, SoundInv
  <2>4. q \in Process /\ q.at = "advance" /\ q.next = "idle"
    BY <2>3, IdleType DEF Process, Idle
  <2>5. proc' = [proc EXCEPT ![p] = q]
    BY <2>1
  <2> HIDE DEF q
  <2>6. CASE r = NoReport
    BY <1>1, <1>2, <2>1, <2>2, <2>4, <2>5, <2>6
  <2>7. CASE r # NoReport
    <3>1. /\ DOMAIN tasks' = DOMAIN tasks
          /\ \A k \in DOMAIN tasks : tasks'[k] = Recorded(tasks[k], n, r)
      BY <2>1, <2>7
    <3>2. /\ \A k \in DOMAIN tasks : /\ Quiet(tasks[k], tasks'[k]) /\ TaskCurrent(tasks'[k])
                                     /\ tasks'[k].status = tasks[k].status
                                     /\ tasks'[k].expired = tasks[k].expired
                                     /\ tasks[k].status # "active"
                                        => tasks'[k].result = tasks[k].result
      BY <1>1, <3>1, RecordedQuiet
    <3>3. Len(tasks') = Len(tasks)
      BY <1>1, <3>1, LenProperties
    <3>4. proc'[Publisher] = Pub /\ p \in Procs
      BY <1>1, <2>5 DEF Pub
    <3>5. PubCurrent(proc'[Publisher], tasks')
      <4>1. Pub.at \in Publishing => Pub.task \in DOMAIN tasks
        BY <1>1 DEF SoundInv, ProcSound, Pub
      <4> QED BY <1>1, <3>2, <3>3, <3>4, <4>1 DEF PubCurrent
    <3>6. PlanCurrent(proc[Publisher])'
      BY <1>1, <2>2, <3>4 DEF PlanCurrent
    <3>7. ProcCurrent(q, tasks')
      BY <2>4 DEF ProcCurrent
    <3>8. CurrentInv'
      BY <1>1, <2>4, <2>5, <3>1, <3>2, <3>4, <3>5, <3>6, <3>7, CurrentKept
    <3>9. KeepsResults
      BY <3>2 DEF KeepsResults, Quiet, CurrentInv
    <3> QED BY <3>8, <3>9
  <2> QED BY <2>6, <2>7
<1>4. ASSUME NEW p \in Workers, AdvanceApplied(p) \/ StartPoll(p)
      PROVE  CurrentInv' /\ KeepsResults
  <2> DEFINE q == [Idle EXCEPT !.at = "list"]
  <2>1. q \in Process /\ q.at = "list"
    BY IdleType DEF Process, Idle
  <2>2. tasks' = tasks /\ proc' = [proc EXCEPT ![p] = q] /\ UNCHANGED <<plan, desired>>
    BY <1>4 DEF AdvanceApplied, StartPoll
  <2> HIDE DEF q
  <2> QED BY <1>1, <1>2, <2>1, <2>2
<1>5. ASSUME StartPublish \/ StartRetry
      PROVE  CurrentInv' /\ KeepsResults
  <2> DEFINE q == [Idle EXCEPT !.at = "list", !.next = "create"]
             r == [Idle EXCEPT !.at = "list", !.next = "plan", !.retry = TRUE]
  <2>1. /\ q \in Process /\ q.at = "list" /\ q.next = "create"
        /\ r \in Process /\ r.at = "list" /\ r.next = "plan"
    BY IdleType DEF Process, Idle
  <2>2. /\ tasks' = tasks /\ UNCHANGED <<plan, desired>> /\ Pub.at = "idle"
        /\ proc' = [proc EXCEPT ![Publisher] = q] \/ proc' = [proc EXCEPT ![Publisher] = r]
    BY <1>5 DEF StartPublish, StartRetry
  <2> HIDE DEF q, r
  <2> QED BY <1>1, <1>2, <2>1, <2>2
<1>6. ASSUME NEW i \in DOMAIN tasks, Expire(i)
      PROVE  CurrentInv' /\ KeepsResults
  <2> DEFINE s == [tasks[i] EXCEPT !.expired = TRUE]
  <2>1. /\ tasks' = [tasks EXCEPT ![i] = s] /\ proc' = proc /\ UNCHANGED <<plan, desired>>
        /\ Pub.at \notin Publishing
    BY <1>6 DEF Expire, Rendering, Publishing
  <2>2. /\ s.status = tasks[i].status /\ s.result = tasks[i].result
        /\ s.target = tasks[i].target /\ s.expired
    BY <1>1 DEF Task
  <2> HIDE DEF s
  <2>3. Quiet(tasks[i], s) /\ TaskCurrent(s)
    BY <1>1, <2>2 DEF Quiet, TaskCurrent, With
  <2>4. /\ DOMAIN tasks' = DOMAIN tasks
        /\ \A k \in DOMAIN tasks : Quiet(tasks[k], tasks'[k]) /\ TaskCurrent(tasks'[k])
    BY <2>1, <2>3, QuietReplaced
  <2>5. proc' = [proc EXCEPT ![Publisher] = Pub] /\ proc'[Publisher] = Pub /\ Pub \in Process
    BY <1>1, <2>1 DEF Pub
  <2>6. PubCurrent(proc'[Publisher], tasks') /\ PlanCurrent(proc[Publisher])'
    BY <1>1, <2>1, <2>5 DEF PubCurrent, PlanCurrent
  <2>7. ProcCurrent(Pub, tasks')
    BY <1>1, <2>4, ProcQuiet DEF CurrentInv, SoundInv, Pub
  <2>8. CurrentInv'
    BY <1>1, <2>4, <2>5, <2>6, <2>7, CurrentKept
  <2>9. KeepsResults
    BY <1>1, <2>1, <2>2, <2>4 DEF KeepsResults, Quiet
  <2> QED BY <2>8, <2>9
<1>7. CASE ControllerRestart
  <2>1. /\ tasks' = tasks /\ desired' = desired /\ plan' = NoTargets
        /\ \A p \in Procs : proc'[p] = Idle
    BY <1>7 DEF ControllerRestart
  <2>2. \A p \in Procs : ProcCurrent(proc'[p], tasks')
    BY <2>1 DEF ProcCurrent, Idle
  <2>3. PubCurrent(Pub, tasks)'
    BY <1>1, <2>1 DEF PubCurrent, Pub, Idle, Publishing
  <2>4. PlanCurrent(Pub)'
    BY <1>1, <2>1 DEF PlanCurrent, NoTargets
  <2>5. CurrentInv'
    BY <1>1, <2>1, <2>2, <2>3, <2>4 DEF CurrentInv, Latest
  <2> QED BY <2>1, <2>5 DEF KeepsResults
<1>8. CASE UNCHANGED vars \/ \E n \in Nodes, ok \in BOOLEAN : Apply(n, ok)
  <2>1. UNCHANGED <<tasks, proc, plan, desired>>
    BY <1>8 DEF vars, Apply
  <2>2. CurrentInv'
    BY <1>1, <2>1 DEF CurrentInv, Latest, Pub, PlanCurrent
  <2> QED BY <2>1, <2>2 DEF KeepsResults
<1>9. ASSUME NEW n \in Nodes, PublishOther(n)
      PROVE  CurrentInv' /\ KeepsResults
  <2>1. UNCHANGED <<tasks, proc, plan>> /\ plan = NoTargets
    BY <1>1, <1>9 DEF PublishOther, PlanCurrent
  <2>2. \A m \in Nodes : plan'[m] = 0
    BY <2>1 DEF NoTargets
  <2>3. CurrentInv'
    BY <1>1, <2>1, <2>2 DEF CurrentInv, Latest, Pub, PlanCurrent
  <2> QED BY <2>1, <2>3 DEF KeepsResults
<1> QED BY <1>1, <1>3, <1>4, <1>5, <1>6, <1>7, <1>8, <1>9, CurrentReconcile, CurrentPublish DEF Next

\* While a site is rendered within the 90 seconds of its task: however many
\* runs of the reconciliation overtake each other, the results of a task never
\* change once a newer task exists, and the targets of a publication or a retry
\* are the desired states at the moment they are stored
\* (reconcilePublishTasks, reconcileLatePublishConfirmations, RetryFailedPublish).
THEOREM ResultsAreFinal ==
    ASSUME ~SlowRendering
    PROVE  Spec => ResultsStayCurrent
<1>1. Init => CurrentInv
  <2> SUFFICES ASSUME Init PROVE CurrentInv
    OBVIOUS
  <2>1. SoundInv
    BY TypeInit DEF Init, SoundInv, ProcSound, Idle, Writing, Publishing, Procs
  <2>2. /\ \A p \in Procs : proc[p] = Idle
        /\ Publisher \in Procs /\ DOMAIN tasks = {} /\ plan = NoTargets
    BY DEF Init, Procs
  <2>3. \A p \in Procs : ProcCurrent(proc[p], tasks)
    BY <2>2 DEF ProcCurrent, Idle
  <2>4. PubCurrent(Pub, tasks) /\ PlanCurrent(Pub)
    BY <2>2 DEF PubCurrent, PlanCurrent, NoTargets, Pub, Idle, Publishing
  <2> QED BY <2>1, <2>2, <2>3, <2>4 DEF CurrentInv
<1>2. CurrentInv /\ [Next]_vars => CurrentInv'
  BY CurrentNext
<1>3. CurrentInv /\ [Next]_vars
      => [\A i \in DOMAIN tasks :
          /\ i < Latest => tasks'[i].result = tasks[i].result
          /\ tasks'[i].target # tasks[i].target =>
                \A n \in Targets(tasks'[i]) : tasks'[i].target[n] = desired'[n]]_vars
  BY CurrentNext DEF KeepsResults
<1> QED BY <1>1, <1>2, <1>3, PTL DEF Spec, ResultsStayCurrent
===============================================================================
