--------------------------- MODULE SiteDrainsProofs ---------------------------
(***************************************************************************)
(* Theorems about SiteDrains: the types, the exclusion of upgrades, and    *)
(* the cutover of traffic: what traffic reaches is served, and what is     *)
(* withdrawn was confirmed, for every number of sites and nodes, every     *)
(* pool, TTL and bound.                                                    *)
(***************************************************************************)
EXTENDS SiteDrains, TLAPS
LOCAL INSTANCE WellFoundedInduction

-----------------------------------------------------------------------------
(* The longest TTL *)

\* A bounded set of numbers has a largest member, which MaxOf denotes.
LEMMA MaxOfBounded ==
    ASSUME NEW bound \in Nat, NEW S, S \subseteq 0..bound, S # {}
    PROVE  MaxOf(S) \in S /\ \A y \in S : MaxOf(S) >= y
<1> DEFINE gap == {bound - x : x \in S}
           less == OpToRel(<, Nat)
<1>1. \A x \in S : x \in Nat /\ x =< bound /\ bound - x \in Nat
  OBVIOUS
<1>2. gap \subseteq Nat /\ gap # {}
  BY <1>1
<1>3. PICK g \in gap : \A h \in gap : <<h, g>> \notin less
  BY <1>2, WFMin, NatLessThanWellFounded
<1>4. \A h \in gap : ~(h < g)
  BY <1>2, <1>3 DEF OpToRel
<1>5. PICK x \in S : g = bound - x
  OBVIOUS
<1>6. ASSUME NEW y \in S PROVE x >= y
  <2>1. ~(bound - y < bound - x)
    BY <1>4, <1>5
  <2> QED BY <1>1, <2>1
<1> QED BY <1>5, <1>6 DEF MaxOf

TTL == TTLs \cup {0}

LEMMA TTLType == TTL \subseteq Nat /\ TTL \subseteq 0..Grace
BY TimeAssumption DEF TTL

-----------------------------------------------------------------------------
(* Types of the helpers *)

LEMMA NoTaskType == NoTask \in Task
BY DEF NoTask, Task

\* A reconciliation turns a task into a task.
LEMMA SettledTaskType ==
    ASSUME NEW task \in Task, NEW ap \in [Nodes -> Nat], NEW late
    PROVE  SettledTask(task, ap, late) \in Task
<1> DEFINE left == [n \in Nodes |-> IF ap[n] >= task.pending[n] THEN 0
                                    ELSE task.pending[n]]
<1>1. left \in [Nodes -> Nat]
  BY DEF Task
<1>2. [task EXCEPT !.pending = left] \in Task
  BY <1>1 DEF Task
<1> QED BY <1>2, NoTaskType DEF SettledTask

LEMMA ReleaseType == ASSUME NEW d \in Drain PROVE Release(d) \in Drain
BY DEF Release, Drain

LEMMA ConfirmedRowType ==
    ASSUME NEW row \in Row, NEW ap \in [Nodes -> Nat], NEW late
    PROVE  ConfirmedRow(row, ap, late) \in Row
<1> SUFFICES ASSUME NEW n \in Nodes
             PROVE  ConfirmedRow(row, ap, late)[n] \in Drain \cup {NoDrain}
  BY DEF ConfirmedRow, Row
<1>1. row[n] \in Drain \cup {NoDrain}
  BY DEF Row
<1>2. ASSUME Claimed(row[n]), NEW c \in {"done", "failed"}
      PROVE  [row[n] EXCEPT !.claim = c] \in Drain
  BY <1>1, <1>2 DEF Claimed, Drain
<1> QED BY <1>1, <1>2 DEF ConfirmedRow

\* A reconciliation turns a row of drains into a row of drains.
LEMMA SettledRowType ==
    ASSUME NEW row \in Row, NEW running,
           NEW ap \in [Nodes -> Nat], NEW late
    PROVE  SettledRow(row, running, ap, late) \in Row
<1> DEFINE seen == ConfirmedRow(row, ap, late)
<1>1. seen \in Row
  BY ConfirmedRowType
<1> SUFFICES ASSUME NEW n \in Nodes
             PROVE  SettledRow(row, running, ap, late)[n] \in Drain \cup {NoDrain}
  BY DEF SettledRow, Row
<1>2. seen[n] \in Drain \cup {NoDrain}
  BY <1>1 DEF Row
<1>3. SettledRow(row, running, ap, late)[n] \in {seen[n], NoDrain, Release(seen[n])}
  BY DEF SettledRow
<1>4. CASE seen[n] = NoDrain
  BY <1>4 DEF SettledRow
<1>5. CASE seen[n] # NoDrain
  BY <1>2, <1>3, <1>5, ReleaseType
<1> QED BY <1>4, <1>5

\* ReconcilePublishTasks leaves well-formed task tables.
LEMMA ReconcileType ==
    ASSUME NEW pt \in [Sites -> Task], NEW dr \in [Sites -> Row],
           NEW dt \in [Sites -> BOOLEAN], NEW ap \in [Nodes -> Nat],
           NEW lateP, NEW lateD,
           ReconcilePublishTasks(pt, dr, dt, ap, lateP, lateD)
    PROVE  /\ ptask' \in [Sites -> Task]
           /\ drain' \in [Sites -> Row]
           /\ dtask' \in [Sites -> BOOLEAN]
<1>1. \A s \in Sites : SettledTask(pt[s], ap, s \in lateP) \in Task
  BY SettledTaskType
<1>2. \A s \in Sites : SettledRow(dr[s], dt[s], ap, s \in lateD) \in Row
  BY SettledRowType
<1>3. ptask' \in [Sites -> Task]
  BY <1>1 DEF ReconcilePublishTasks
<1>4. drain' \in [Sites -> Row]
  BY <1>2 DEF ReconcilePublishTasks
<1>5. dtask' \in [Sites -> BOOLEAN]
  BY DEF ReconcilePublishTasks
<1> QED BY <1>3, <1>4, <1>5
LEMMA RenderedType ==
    ASSUME NEW pubs \in [Sites -> Publication \cup {NoPub}],
           NEW drains \in [Sites -> Row], NEW n \in Nodes
    PROVE  Rendered(pubs, drains, n) \in [Sites -> Bodies \cup {NoBody}]
<1> SUFFICES ASSUME NEW s \in Sites
             PROVE  Rendered(pubs, drains, n)[s] \in Bodies \cup {NoBody}
  BY DEF Rendered
<1>1. CASE n \in Assigned(pubs[s])
  <2>1. pubs[s] # NoPub
    BY <1>1 DEF Assigned
  <2>2. pubs[s].cfg.body \in Bodies
    BY <2>1 DEF Publication, Config
  <2> QED BY <1>1, <2>2 DEF Rendered
<1>2. CASE n \notin Assigned(pubs[s])
  <2>1. drains[s][n] \in Drain \cup {NoDrain}
    BY DEF Row
  <2>2. drains[s][n] # NoDrain => drains[s][n].cfg.body \in Bodies
    BY <2>1 DEF Drain, Config
  <2> QED BY <1>2, <2>2 DEF Rendered
<1> QED BY <1>1, <1>2

LEMMA NextStateType ==
    ASSUME desired \in [Nodes -> State], NEW n \in Nodes,
           NEW body \in [Sites -> Bodies \cup {NoBody}]
    PROVE  /\ NextState(n, body) \in State
           /\ NextState(n, body) # desired[n] => NextState(n, body).ver = desired[n].ver + 1
BY DEF NextState, State

LEMMA TargetVersionType ==
    ASSUME NEW n, NEW state \in State PROVE TargetVersion(n, state) \in Nat
BY DEF TargetVersion, State

LEMMA Max2Type == ASSUME NEW i \in Nat, NEW j \in Nat
                  PROVE  Max2(i, j) \in Nat /\ Max2(i, j) >= i /\ Max2(i, j) >= j
BY DEF Max2

LEMMA Max2TTL == ASSUME NEW i \in TTL, NEW j \in TTL PROVE Max2(i, j) \in TTL
BY DEF Max2

LEMMA DNSTTLType == ASSUME NEW cfg \in Config PROVE DNSTTL(cfg) \subseteq TTLs
BY DEF DNSTTL, Config

LEMMA NewDrainType ==
    ASSUME NEW p \in Publication, NEW ttl \in TTL PROVE NewDrain(p, ttl) \in Drain
BY DEF NewDrain, Drain, Publication, TTL

LEMMA PreparedRowType ==
    ASSUME TypeOK, NEW s \in Sites, NEW row \in Row, NEW ttl \in TTL
    PROVE  PreparedRow(s, row, ttl) \in Row
<1> SUFFICES ASSUME NEW n \in Nodes
             PROVE  PreparedRow(s, row, ttl)[n] \in Drain \cup {NoDrain}
  BY DEF PreparedRow, Row
<1>1. pub[s] \in Publication \cup {NoPub} /\ row[n] \in Drain \cup {NoDrain}
  BY DEF TypeOK, Row
<1>2. n \in DroppedNodes(s, row) => NewDrain(pub[s], ttl) \in Drain
  BY <1>1, NewDrainType DEF DroppedNodes, Assigned
<1> QED BY <1>1, <1>2 DEF PreparedRow

\* A dropped node's drain starts with a TTL the settings accept.
LEMMA DrainTTLsType ==
    ASSUME TypeOK, NEW s \in Sites PROVE DrainTTLs(s) \subseteq TTL
<1>1. CASE pub[s] = NoPub
  BY <1>1 DEF DrainTTLs, TTL
<1>2. CASE pub[s] # NoPub
  <2> DEFINE last == IF pub[s].ttl = 0 THEN DefaultTTL ELSE pub[s].ttl
  <2>1. pub[s] \in Publication
    BY <1>2 DEF TypeOK
  <2>2. last \in TTL /\ pub[s].cfg \in Config
    BY <2>1, TimeAssumption DEF Publication, TTL
  <2>3. \A t \in DNSTTL(pub[s].cfg) : Max2(last, t) \in TTL
    BY <2>2, DNSTTLType, Max2TTL DEF TTL
  <2>4. DrainTTLs(s) = {Max2(last, t) : t \in DNSTTL(pub[s].cfg)}
    BY <1>2 DEF DrainTTLs
  <2> QED BY <2>3, <2>4
<1> QED BY <1>1, <1>2

-----------------------------------------------------------------------------
(* Type correctness *)

\* A prepared publication that drains nodes has a snapshot to drain, and what a
\* round works on was published: site_publications rows are never removed here.
PublicationsKept ==
    /\ publisher.busy /\ publisher.drains # {} => pub[publisher.site] # NoPub
    /\ \A s \in round.todo : round.pc \in {"site", "pool", "push"} => round.pubs[s] # NoPub
    /\ round.pc \in {"pool", "push"} => round.pubs[round.site] # NoPub
    /\ \A s \in Sites : round.pubs[s] # NoPub => pub[s] # NoPub

TypeInv == TypeOK /\ PublicationsKept

LEMMA CommittedRowType ==
    ASSUME TypeInv, publisher.busy PROVE CommittedRow(publisher) \in Row
<1>1. publisher \in Publishing
  BY DEF TypeInv, TypeOK, NoPublish
<1>2. publisher.site \in Sites /\ publisher.ttl \in TTL
  BY <1>1 DEF Publishing, TTL
<1> SUFFICES ASSUME NEW n \in Nodes
             PROVE  CommittedRow(publisher)[n] \in Drain \cup {NoDrain}
  BY DEF CommittedRow, Row
<1> DEFINE d == drain[publisher.site][n]
<1>3. d \in Drain \cup {NoDrain}
  BY <1>2 DEF TypeInv, TypeOK, Row
<1>4. Claimed(d) => [d EXCEPT !.orphan = TRUE] \in Drain
  BY <1>3 DEF Claimed, Drain
<1>5. n \in publisher.drains => NewDrain(pub[publisher.site], publisher.ttl) \in Drain
  BY <1>2, NewDrainType DEF TypeInv, TypeOK, PublicationsKept
<1> QED BY <1>3, <1>4, <1>5 DEF CommittedRow
LEMMA TypeInit == Init => TypeInv
<1> SUFFICES ASSUME Init PROVE TypeInv
  OBVIOUS
<1> USE DEF Init
<1>1. \A s \in Sites : draft[s].cfg \in Config
  BY ConfigAssumption
<1>2. draft \in [Sites -> [cfg : Config, ver : Nat]]
  BY <1>1
<1>3. \A n \in Nodes : desired[n] \in State
  BY DEF State
<1>4. desired \in [Nodes -> State] /\ loaded \in [Nodes -> State]
  BY <1>3
<1>5. ptask \in [Sites -> Task] /\ drain \in [Sites -> Row]
  BY NoTaskType DEF Row
<1>6. (CHOOSE s \in Sites : TRUE) \in Sites
  BY ConfigAssumption
<1>7. IdleRound \in Round
  BY <1>6 DEF IdleRound, Round
<1>8. dns \in [Sites -> [Nodes -> TTLs \cup {0}]] /\ cache \in [Sites -> [Nodes -> 0..Grace]]
  BY TimeAssumption
<1>9. TypeOK
  BY <1>2, <1>4, <1>5, <1>7, <1>8 DEF TypeOK
<1>10. PublicationsKept
  BY DEF PublicationsKept, NoPublish, IdleRound
<1> QED BY <1>9, <1>10 DEF TypeInv

LEMMA TypeEditor == TypeInv /\ EditorNext => TypeInv'
<1> SUFFICES ASSUME TypeInv, NEW e \in Editors, NEW s \in Sites,
                    UpdateSiteRead(e, s) \/ \E cfg \in Configs[s] : UpdateSiteWrite(e, s, cfg)
             PROVE  TypeInv'
  BY DEF EditorNext
<1> USE DEF TypeInv, TypeOK
<1>1. CASE UpdateSiteRead(e, s)
  <2>1. editor' \in [Editors -> [Sites -> Nat]]
    BY <1>1 DEF UpdateSiteRead
  <2> QED BY <1>1, <2>1 DEF UpdateSiteRead, PublicationsKept, dbVars, dnsVars
<1>2. CASE \E cfg \in Configs[s] : UpdateSiteWrite(e, s, cfg)
  <2> PICK cfg \in Configs[s] : UpdateSiteWrite(e, s, cfg)
    BY <1>2
  <2>1. cfg \in Config
    BY ConfigAssumption
  <2>2. editor' \in [Editors -> [Sites -> Nat]] /\ draft' \in [Sites -> [cfg : Config, ver : Nat]]
    BY <2>1 DEF UpdateSiteWrite
  <2> QED BY <2>2 DEF UpdateSiteWrite, PublicationsKept, dnsVars
<1> QED BY <1>1, <1>2

\* The record BeginPublish prepares.
LEMMA BeginPublishType ==
    ASSUME TypeInv, NEW s \in Sites, BeginPublish(s)
    PROVE  /\ publisher' \in Publishing
           /\ publisher'.site = s
           /\ publisher'.drains # {} => pub[s] # NoPub
<1> USE DEF TypeInv
<1> DEFINE row == SettledRow(drain[s], dtask[s], applied, FALSE)
           affected == Assigned(pub[s]) \cup AssignedNodeIDs(draft[s].cfg)
           pubs == [pub EXCEPT ![s] = [cfg |-> draft[s].cfg, seq |-> 0, ttl |-> 0]]
           rows(ttl) == [t \in Sites |->
                           IF t = s THEN PreparedRow(s, row, ttl)
                           ELSE SettledRow(drain[t], dtask[t], applied, FALSE)]
           state(ttl) == [n \in Nodes |->
                            IF n \in affected THEN NextState(n, Rendered(pubs, rows(ttl), n))
                            ELSE desired[n]]
           target(ttl) == [n \in Nodes |-> IF n \in affected
                                           THEN TargetVersion(n, state(ttl)[n]) ELSE 0]
           record(ttl) == [busy |-> TRUE, site |-> s, ver |-> draft[s].ver,
                           state |-> state(ttl), target |-> target(ttl),
                           drains |-> DroppedNodes(s, row), ttl |-> ttl,
                           cancel |-> AssignedNodeIDs(draft[s].cfg) \cap Draining(row)]
<1>1. PICK ttl \in DrainTTLs(s) : publisher' = record(ttl)
  BY Zenon DEF BeginPublish
<1>2. ttl \in TTL
  BY DrainTTLsType
<1>3. \A t \in Sites : SettledRow(drain[t], dtask[t], applied, FALSE) \in Row
  BY SettledRowType DEF TypeOK
<1>4. rows(ttl) \in [Sites -> Row]
  BY <1>2, <1>3, PreparedRowType
<1>5. draft[s].cfg \in Config /\ draft[s].ver \in Nat
  BY DEF TypeOK
<1>6. pubs \in [Sites -> Publication \cup {NoPub}]
  BY <1>5 DEF TypeOK, Publication
<1>7. \A n \in Nodes : NextState(n, Rendered(pubs, rows(ttl), n)) \in State
  BY <1>4, <1>6, RenderedType, NextStateType DEF TypeOK
<1>8. state(ttl) \in [Nodes -> State]
  BY <1>7 DEF TypeOK
<1>9. target(ttl) \in [Nodes -> Nat]
  BY <1>8, TargetVersionType
<1>10. DroppedNodes(s, row) \subseteq Assigned(pub[s])
  BY DEF DroppedNodes
<1>11. pub[s] \in Publication \cup {NoPub}
  BY DEF TypeOK
<1>12. Assigned(pub[s]) \subseteq Nodes
  BY <1>11 DEF Assigned, Publication, Config
<1>13. AssignedNodeIDs(draft[s].cfg) \subseteq Nodes
  BY <1>5 DEF AssignedNodeIDs, Config
<1>14. record(ttl) \in Publishing
  BY <1>2, <1>5, <1>8, <1>9, <1>10, <1>12, <1>13 DEF Publishing, TTL
<1>15. DroppedNodes(s, row) # {} => pub[s] # NoPub
  BY <1>10 DEF Assigned
<1> HIDE DEF record
<1>16. record(ttl).site = s /\ record(ttl).drains = DroppedNodes(s, row)
  BY DEF record
<1> QED BY <1>1, <1>14, <1>15, <1>16
LEMMA TypePublisher == TypeInv /\ PublisherNext => TypeInv'
<1> SUFFICES ASSUME TypeInv, PublisherNext PROVE TypeInv'
  OBVIOUS
<1> USE DEF TypeInv
<1>1. CASE \E s \in Sites : BeginPublish(s)
  <2> PICK s \in Sites : BeginPublish(s)
    BY <1>1
  <2> DEFINE building == [ptask EXCEPT ![s] = [status |-> "building",
                                               pending |-> NoTask.pending]]
  <2>1. building \in [Sites -> Task]
    BY DEF TypeOK, Task, NoTask
  <2>2. ReconcilePublishTasks(building, drain, dtask, applied, {}, {})
    BY DEF BeginPublish
  <2>3. /\ ptask' \in [Sites -> Task]
        /\ drain' \in [Sites -> Row]
        /\ dtask' \in [Sites -> BOOLEAN]
    BY <2>1, <2>2, ReconcileType DEF TypeOK
  <2>4. UNCHANGED <<draft, editor, pub, desired, applied, active, upgrading,
                    loaded, dns, cache, round>>
    BY DEF BeginPublish, dnsVars
  <2>5. TypeOK'
    BY <2>3, <2>4, BeginPublishType DEF TypeOK
  <2>6. PublicationsKept'
    BY <2>4, BeginPublishType DEF PublicationsKept
  <2> QED BY <2>5, <2>6
<1>2. CASE CommitPublish
  <2> DEFINE p == publisher
  <2>1. p \in Publishing
    BY <1>2 DEF CommitPublish, TypeOK, NoPublish
  <2>2. p.site \in Sites /\ p.state \in [Nodes -> State] /\ p.target \in [Nodes -> Nat]
    BY <2>1 DEF Publishing
  <2>3. \A s \in Sites : Generation(pub[s]) \in Nat
    BY DEF TypeOK, Generation, Publication
  <2>4. [cfg |-> draft[p.site].cfg, seq |-> Generation(pub[p.site]) + 1,
         ttl |-> IF pub[p.site] = NoPub THEN 0 ELSE pub[p.site].ttl] \in Publication
    BY <2>2, <2>3 DEF TypeOK, Publication
  <2>5. pub' \in [Sites -> Publication \cup {NoPub}]
    BY <1>2, <2>4 DEF CommitPublish, TypeOK
  <2>6. drain' \in [Sites -> Row]
    BY <1>2, <2>2, CommittedRowType DEF CommitPublish, TypeOK
  <2>7. StagedTask(p) \in Task
    BY <2>2, NoTaskType DEF StagedTask, Task
  <2>8. ptask' \in [Sites -> Task] /\ dtask' \in [Sites -> BOOLEAN]
    BY <1>2, <2>2, <2>7 DEF CommitPublish, TypeOK
  <2>9. TypeOK'
    BY <1>2, <2>2, <2>5, <2>6, <2>8 DEF CommitPublish, TypeOK, dnsVars
  <2>10. pub'[p.site] # NoPub /\ \A s \in Sites \ {p.site} : pub'[s] = pub[s]
    BY <1>2, <2>2, <2>4, ConfigAssumption DEF CommitPublish, TypeOK
  <2>11. PublicationsKept'
    BY <1>2, <2>10 DEF CommitPublish, PublicationsKept, NoPublish
  <2> QED BY <2>9, <2>11
<1>3. CASE FailPublish
  <2>1. ptask' \in [Sites -> Task]
    BY <1>3, NoTaskType DEF FailPublish, TypeOK
  <2> QED BY <1>3, <2>1 DEF FailPublish, TypeOK, PublicationsKept, NoPublish, dnsVars
<1> QED BY <1>1, <1>2, <1>3 DEF PublisherNext

LEMMA FailedTaskType ==
    ASSUME NEW task \in Task, NEW n \in Nodes, NEW v PROVE FailedTask(task, n, v) \in Task
BY DEF FailedTask, Task

LEMMA FailedRowType ==
    ASSUME NEW row \in Row, NEW n \in Nodes, NEW v PROVE FailedRow(row, n, v) \in Row
<1>1. row[n] \in Drain \cup {NoDrain}
  BY DEF Row
<1>2. Claimed(row[n]) => [row[n] EXCEPT !.claim = "failed"] \in Drain
  BY <1>1 DEF Claimed, Drain
<1>3. Claimed(row[n]) => [row EXCEPT ![n] = [row[n] EXCEPT !.claim = "failed"]] \in Row
  BY <1>2 DEF Row
<1> QED BY <1>3 DEF FailedRow

\* The common part of every action that only reconciles task tables.
LEMMA TypeReconcile ==
    ASSUME TypeInv, NEW pt \in [Sites -> Task], NEW dr \in [Sites -> Row],
           NEW ap \in [Nodes -> Nat], NEW lateP, NEW lateD,
           ReconcilePublishTasks(pt, dr, dtask, ap, lateP, lateD),
           applied' \in [Nodes -> Nat], round' \in Round, PublicationsKept',
           UNCHANGED <<draft, editor, pub, desired, active, upgrading, publisher,
                       loaded, dns, cache>>
    PROVE  TypeInv'
<1>1. /\ ptask' \in [Sites -> Task]
      /\ drain' \in [Sites -> Row]
      /\ dtask' \in [Sites -> BOOLEAN]
  BY ReconcileType DEF TypeInv, TypeOK
<1> QED BY <1>1 DEF TypeInv, TypeOK

LEMMA TypeNode == TypeInv /\ NodeNext => TypeInv'
<1> SUFFICES ASSUME TypeInv, NEW n \in Nodes,
                    \/ PublishNode(n) \/ SetNodeStatus(n)
                    \/ StartUpgrade(n) \/ FinishUpgrade(n)
                    \/ EdgeApply(n) \/ HeartbeatApplied(n)
                    \/ \E v \in loaded[n].ver + 1 .. desired[n].ver : HeartbeatRejected(n, v)
             PROVE  TypeInv'
  BY DEF NodeNext
<1> DEFINE ap == [applied EXCEPT ![n] = Max2(@, loaded[n].ver)]
<1>0. loaded[n].ver \in Nat /\ ap \in [Nodes -> Nat]
  BY Max2Type DEF TypeInv, TypeOK, State
<1>1. CASE PublishNode(n)
  <2>1. NextState(n, Rendered(pub, drain, n)) \in State
    BY RenderedType, NextStateType DEF TypeInv, TypeOK
  <2>2. desired' \in [Nodes -> State]
    BY <1>1, <2>1 DEF PublishNode, TypeInv, TypeOK
  <2> QED BY <1>1, <2>2 DEF PublishNode, TypeInv, TypeOK, PublicationsKept, dnsVars
<1>2. CASE SetNodeStatus(n)
  BY <1>2 DEF SetNodeStatus, TypeInv, TypeOK, PublicationsKept, dnsVars
<1>3. CASE StartUpgrade(n)
  BY <1>3 DEF StartUpgrade, TypeInv, TypeOK, PublicationsKept, dnsVars
<1>4. CASE FinishUpgrade(n)
  BY <1>4 DEF FinishUpgrade, TypeInv, TypeOK, PublicationsKept, dnsVars
<1>5. CASE EdgeApply(n)
  <2>1. loaded' \in [Nodes -> State]
    BY <1>5 DEF EdgeApply, TypeInv, TypeOK
  <2> QED BY <1>5, <2>1 DEF EdgeApply, TypeInv, TypeOK, PublicationsKept, dbVars, dnsVars
<1>6. CASE HeartbeatApplied(n)
  <2>1. /\ applied' = ap
        /\ ReconcilePublishTasks(ptask, drain, dtask, ap, {}, {})
        /\ UNCHANGED <<draft, editor, pub, desired, active, upgrading, publisher,
                       loaded, dns, cache, round>>
    BY <1>6 DEF HeartbeatApplied, dnsVars
  <2>2. PublicationsKept' /\ round' \in Round
    BY <2>1 DEF TypeInv, TypeOK, PublicationsKept
  <2>3. ptask \in [Sites -> Task] /\ drain \in [Sites -> Row]
    BY DEF TypeInv, TypeOK
  <2> HIDE DEF ap
  <2> QED BY <1>0, <2>1, <2>2, <2>3, TypeReconcile
<1>7. ASSUME NEW v \in loaded[n].ver + 1 .. desired[n].ver, HeartbeatRejected(n, v)
      PROVE  TypeInv'
  <2> DEFINE pt == [s \in Sites |-> FailedTask(ptask[s], n, v)]
             dr == [s \in Sites |-> FailedRow(drain[s], n, v)]
  <2>1. /\ applied' = ap
        /\ ReconcilePublishTasks(pt, dr, dtask, ap, {}, {})
        /\ UNCHANGED <<draft, editor, pub, desired, active, upgrading, publisher,
                       loaded, dns, cache, round>>
    BY <1>7 DEF HeartbeatRejected, dnsVars
  <2>2. PublicationsKept' /\ round' \in Round
    BY <2>1 DEF TypeInv, TypeOK, PublicationsKept
  <2>3. pt \in [Sites -> Task] /\ dr \in [Sites -> Row]
    BY FailedTaskType, FailedRowType DEF TypeInv, TypeOK
  <2> HIDE DEF ap, pt, dr
  <2> QED BY <1>0, <2>1, <2>2, <2>3, TypeReconcile
<1> QED BY <1>1, <1>2, <1>3, <1>4, <1>5, <1>6, <1>7
LEMMA SkipType ==
    ASSUME TypeInv, NEW s
    PROVE  Skip(s) \in Round /\ Skip(s).pc = "site" /\ Skip(s).pubs = round.pubs
           /\ Skip(s).todo \subseteq round.todo
<1>1. round \in Round /\ IdleRound.site \in Sites
  BY ConfigAssumption DEF TypeInv, TypeOK, IdleRound
<1> QED BY <1>1 DEF Skip, Round

\* The longest TTL of a site is one that the settings accept.
LEMMA DrainTTLType ==
    ASSUME TypeInv, NEW s \in Sites, round.pubs[s] # NoPub PROVE DrainTTL(s) \in TTL
<1> DEFINE seen == {round.ttl, round.pubs[s].ttl}
                   \cup {drain[s][n].ttl : n \in Draining(drain[s])}
                   \cup {drain[s][n].cfg.ttl : n \in {m \in Draining(drain[s]) :
                                                         drain[s][m].cfg.ttl # Inherit}}
<1>1. \A n \in Draining(drain[s]) : drain[s][n] \in Drain
  BY DEF TypeInv, TypeOK, Row, Draining
<1>2. round.ttl \in TTL /\ round.pubs[s] \in Publication
  BY DEF TypeInv, TypeOK, Round, TTL
<1>3. \A n \in Draining(drain[s]) :
          /\ drain[s][n].ttl \in TTL
          /\ drain[s][n].cfg.ttl # Inherit => drain[s][n].cfg.ttl \in TTL
  BY <1>1 DEF Drain, Config, TTL
<1>4. seen \subseteq TTL /\ seen # {}
  BY <1>2, <1>3 DEF Publication, TTL
<1>5. MaxOf(seen) \in seen
  BY <1>4, TTLType, MaxOfBounded, TimeAssumption
<1> QED BY <1>4, <1>5 DEF DrainTTL

LEMMA TypeDNS == TypeInv /\ (\E n \in Nodes : PutRecord(n) \/ DeleteRecord(n)) => TypeInv'
<1> SUFFICES ASSUME TypeInv, NEW n \in Nodes, PutRecord(n) \/ DeleteRecord(n)
             PROVE  TypeInv'
  OBVIOUS
<1>1. round.site \in Sites /\ round.ttl \in TTL
  BY DEF TypeInv, TypeOK, Round, TTL
<1>2. PICK ttl \in TTL : SetRecord(round.site, n, ttl)
  BY <1>1 DEF PutRecord, DeleteRecord, TTL
<1>3. dns[round.site][n] \in 0..Grace /\ cache[round.site][n] \in 0..Grace
  BY <1>1, TTLType DEF TypeInv, TypeOK, TTL
<1>4. Max2(cache[round.site][n], dns[round.site][n]) \in 0..Grace
  BY <1>3 DEF Max2
<1>5. dns' \in [Sites -> [Nodes -> TTLs \cup {0}]]
  BY <1>1, <1>2 DEF SetRecord, TypeInv, TypeOK, TTL
<1>6. cache' \in [Sites -> [Nodes -> 0..Grace]]
  BY <1>1, <1>2, <1>4 DEF SetRecord, TypeInv, TypeOK
<1>7. UNCHANGED <<dbVars, editor, publisher, loaded, round>>
  BY DEF PutRecord, DeleteRecord
<1> QED BY <1>5, <1>6, <1>7 DEF TypeInv, TypeOK, PublicationsKept, dbVars

LEMMA TypeMarkDNSReady == TypeInv /\ MarkDNSReady => TypeInv'
<1> SUFFICES ASSUME TypeInv, MarkDNSReady PROVE TypeInv'
  OBVIOUS
<1> DEFINE s == round.site
           ready(d) == [d EXCEPT !.ready = TRUE, !.ttl = DrainTTL(s), !.left = RemoveAfter(s)]
           row == [n \in Nodes |-> IF drain[s][n] # NoDrain /\ ~drain[s][n].ready
                                   THEN ready(drain[s][n]) ELSE drain[s][n]]
<1>1. s \in Sites /\ round.pubs[s] # NoPub /\ round.ttl \in TTL
  BY DEF MarkDNSReady, TypeInv, TypeOK, PublicationsKept, Round, TTL
<1>2. DrainTTL(s) \in TTL /\ RemoveAfter(s) \in Nat
  <2>1. DrainTTL(s) \in TTL
    BY <1>1, DrainTTLType
  <2>2. DrainTTL(s) \in Nat
    BY <2>1, TTLType
  <2>3. Grace \in Nat
    BY TimeAssumption
  <2>4. RemoveAfter(s) \in Nat
    BY <2>2, <2>3 DEF RemoveAfter
  <2> QED BY <2>1, <2>4
<1>3. \A n \in Nodes : drain[s][n] \in Drain \cup {NoDrain}
  BY <1>1 DEF TypeInv, TypeOK, Row
<1>4. \A d \in Drain : ready(d) \in Drain
  BY <1>2 DEF Drain, TTL
<1>5. row \in Row
  BY <1>3, <1>4 DEF Row
<1>6. pub[s] \in Publication
  BY <1>1 DEF TypeInv, TypeOK, PublicationsKept
<1>7. [pub[s] EXCEPT !.ttl = round.ttl] \in Publication
  BY <1>1, <1>6 DEF Publication, TTL
<1>8. pub' \in {pub, [pub EXCEPT ![s].ttl = round.ttl]}
  BY DEF MarkDNSReady
<1>9. pub' \in [Sites -> Publication \cup {NoPub}]
  BY <1>1, <1>7, <1>8 DEF TypeInv, TypeOK
<1>10. drain' \in {drain, [drain EXCEPT ![s] = row]}
  BY DEF MarkDNSReady
<1>11. drain' \in [Sites -> Row]
  BY <1>1, <1>5, <1>10 DEF TypeInv, TypeOK
<1>12. \A t \in Sites : pub[t] # NoPub => pub'[t] # NoPub
  BY <1>1, <1>7, <1>8, ConfigAssumption DEF TypeInv, TypeOK
<1>13. round' = Skip(s)
  BY DEF MarkDNSReady
<1>14. UNCHANGED <<draft, editor, desired, applied, active, upgrading, ptask, dtask,
                   publisher, loaded, dns, cache>>
  BY DEF MarkDNSReady, dnsVars
<1>15. TypeOK'
  BY <1>9, <1>11, <1>13, <1>14, SkipType DEF TypeInv, TypeOK
<1>16. PublicationsKept'
  <2>1. round'.pc = "site" /\ round'.pubs = round.pubs /\ round'.todo \subseteq round.todo
    BY <1>13, SkipType
  <2>2. round.pc = "push" /\ round.todo \subseteq Sites
    BY DEF MarkDNSReady, TypeInv, TypeOK, Round
  <2>3. publisher' = publisher /\ (publisher.busy => publisher.site \in Sites)
    <3>1. publisher \in Publishing \cup {NoPublish}
      BY DEF TypeInv, TypeOK
    <3>2. CASE publisher = NoPublish
      BY <1>14, <3>2, Zenon DEF NoPublish
    <3>3. CASE publisher \in Publishing
      BY <1>14, <3>3 DEF Publishing
    <3> QED BY <3>1, <3>2, <3>3
  <2> QED BY <1>12, <2>1, <2>2, <2>3 DEF TypeInv, PublicationsKept
<1> QED BY <1>15, <1>16 DEF TypeInv

LEMMA TypeReconcileDrains ==
    TypeInv /\ (\E s \in Sites : ReconcileDrains(s)) => TypeInv'
<1> SUFFICES ASSUME TypeInv, NEW s \in Sites, ReconcileDrains(s) PROVE TypeInv'
  OBVIOUS
<1> DEFINE due == DueDrains(s)
           without == [drain EXCEPT ![s] =
                         [n \in Nodes |-> IF n \in due THEN NoDrain ELSE drain[s][n]]]
           state == [n \in Nodes |-> IF n \in due
                                     THEN NextState(n, Rendered(pub, without, n))
                                     ELSE desired[n]]
           target == [n \in Nodes |-> IF n \in due THEN TargetVersion(n, state[n]) ELSE 0]
<1>1. without \in [Sites -> Row]
  BY DEF TypeInv, TypeOK, Row
<1>2. \A n \in Nodes : NextState(n, Rendered(pub, without, n)) \in State
  BY <1>1, RenderedType, NextStateType DEF TypeInv, TypeOK
<1>3. state \in [Nodes -> State]
  BY <1>2 DEF TypeInv, TypeOK
<1>4. target \in [Nodes -> Nat]
  BY <1>3, TargetVersionType
<1>5. \A n \in due : drain[s][n] \in Drain
  BY DEF DueDrains, Draining, TypeInv, TypeOK, Row
<1>6. \A n \in due, v \in Nat : /\ [drain[s][n] EXCEPT !.claim = "untracked"] \in Drain
                               /\ [drain[s][n] EXCEPT !.claim = "pending", !.target = v] \in Drain
  BY <1>5 DEF Drain
<1>7. StagedRow(s, due, target) \in Row
  <2> SUFFICES ASSUME NEW n \in Nodes
               PROVE  StagedRow(s, due, target)[n] \in Drain \cup {NoDrain}
    BY DEF StagedRow, Row
  <2>1. drain[s][n] \in Drain \cup {NoDrain}
    BY DEF TypeInv, TypeOK, Row
  <2> HIDE DEF target, due
  <2>2. target[n] \in Nat
    BY <1>4
  <2> QED BY <1>6, <2>1, <2>2 DEF StagedRow
<1>8. /\ desired' \in {desired, state}
      /\ drain' \in {drain, without, [drain EXCEPT ![s] = StagedRow(s, due, target)]}
      /\ dtask' \in {dtask, [dtask EXCEPT ![s] = TRUE]}
      /\ round' = [round EXCEPT !.todo = @ \ {s}]
      /\ round.pc = "clean"
      /\ UNCHANGED <<draft, editor, pub, applied, active, upgrading, ptask,
                     publisher, loaded, dns, cache>>
  BY DEF ReconcileDrains, dnsVars
<1>9. desired' \in [Nodes -> State] /\ drain' \in [Sites -> Row] /\ dtask' \in [Sites -> BOOLEAN]
  BY <1>1, <1>3, <1>7, <1>8 DEF TypeInv, TypeOK
<1>10. round' \in Round /\ round'.pc = "clean" /\ round'.pubs = round.pubs
  BY <1>8 DEF TypeInv, TypeOK, Round
<1> QED BY <1>8, <1>9, <1>10 DEF TypeInv, TypeOK, PublicationsKept
\* The steps of a round that only move the round itself.
LEMMA TypeRoundOnly ==
    ASSUME TypeInv, round' \in Round, UNCHANGED <<dbVars, editor, publisher, loaded, dns, cache>>,
           /\ \A s \in round'.todo : round'.pc \in {"site", "pool", "push"} =>
                                     round'.pubs[s] # NoPub
           /\ round'.pc \in {"pool", "push"} => round'.pubs[round'.site] # NoPub
           /\ \A s \in Sites : round'.pubs[s] # NoPub => pub[s] # NoPub
    PROVE  TypeInv'
BY DEF TypeInv, TypeOK, PublicationsKept, dbVars

LEMMA TypeSkip ==
    ASSUME TypeInv, NEW s, round' = Skip(s), round.pc \in {"site", "pool", "push"},
           UNCHANGED <<dbVars, editor, publisher, loaded, dns, cache>>
    PROVE  TypeInv'
<1>1. round' \in Round /\ round'.pc = "site" /\ round'.pubs = round.pubs
      /\ round'.todo \subseteq round.todo
  BY SkipType
<1>2. \A t \in round'.todo : round'.pubs[t] # NoPub
  BY <1>1 DEF TypeInv, PublicationsKept
<1>3. \A t \in Sites : round'.pubs[t] # NoPub => pub[t] # NoPub
  BY <1>1 DEF TypeInv, PublicationsKept
<1> QED BY <1>1, <1>2, <1>3, TypeRoundOnly

LEMMA TypeCheckPools == TypeInv /\ CheckPools => TypeInv'
<1> SUFFICES ASSUME TypeInv, CheckPools PROVE TypeInv'
  OBVIOUS
<1> DEFINE s == round.site
           cfg == round.pubs[s].cfg
           push(set, ttl) == [round EXCEPT !.pc = "push", !.want = set, !.ttl = ttl]
<1>1. round \in Round /\ round.pc = "pool" /\ s \in Sites /\ round.pubs[s] # NoPub
  BY DEF CheckPools, TypeInv, TypeOK, PublicationsKept, Round
<1>2. cfg \in Config
  BY <1>1 DEF Round, Publication
<1>3. UNCHANGED <<dbVars, editor, publisher, loaded, dns, cache>>
  BY DEF CheckPools, dnsVars
<1>4. \/ round' = Skip(s)
      \/ \E set \in SUBSET Nodes, ttl \in DNSTTL(cfg) : round' = push(set, ttl)
  <2>1. cfg.primary \in SUBSET Nodes /\ cfg.backup \in SUBSET Nodes /\ {} \in SUBSET Nodes
    BY <1>2 DEF Config
  <2>2. (cfg.primary \cap round.active) \in SUBSET Nodes /\ (cfg.backup \cap round.active) \in SUBSET Nodes
    BY <2>1
  <2> QED BY <2>1, <2>2 DEF CheckPools
<1>5. CASE round' = Skip(s)
  BY <1>1, <1>3, <1>5, TypeSkip
<1>6. ASSUME NEW set \in SUBSET Nodes, NEW ttl \in DNSTTL(cfg), round' = push(set, ttl)
      PROVE  TypeInv'
  <2>1. ttl \in TTLs
    BY <1>2, DNSTTLType
  <2>2. round' \in Round /\ round'.pubs = round.pubs /\ round'.todo = round.todo
        /\ round'.site = round.site
    BY <1>1, <1>6, <2>1 DEF Round
  <2> QED BY <1>1, <1>3, <2>2, TypeRoundOnly DEF TypeInv, PublicationsKept
<1> QED BY <1>4, <1>5, <1>6

LEMMA TypeRound == TypeInv /\ RoundNext => TypeInv'
<1> SUFFICES ASSUME TypeInv, RoundNext PROVE TypeInv'
  OBVIOUS
<1>0. round \in Round /\ IdleRound \in Round
  BY ConfigAssumption DEF TypeInv, TypeOK, IdleRound, Round
<1>1. CASE BeginRound
  <2>1. ReconcilePublishTasks(ptask, drain, dtask, applied, {}, {})
        /\ UNCHANGED <<draft, editor, pub, desired, applied, active, upgrading,
                       publisher, loaded, dns, cache>>
    BY <1>1 DEF BeginRound, dnsVars
  <2>2. round' \in Round /\ round'.pc = "list" /\ round'.pubs = round.pubs
    BY <1>0, <1>1 DEF BeginRound, Round, TypeInv, TypeOK
  <2>3. PublicationsKept'
    BY <2>1, <2>2 DEF TypeInv, PublicationsKept
  <2>4. /\ ptask \in [Sites -> Task] /\ drain \in [Sites -> Row]
        /\ applied \in [Nodes -> Nat] /\ applied' \in [Nodes -> Nat]
    BY <2>1 DEF TypeInv, TypeOK
  <2> QED BY <2>1, <2>2, <2>3, <2>4, TypeReconcile
<1>2. CASE ListSitePublications
  <2>1. round' \in Round /\ round'.pc = "site" /\ round'.pubs = pub
        /\ round'.todo = {s \in Sites : pub[s] # NoPub}
    BY <1>0, <1>2 DEF ListSitePublications, Round, TypeInv, TypeOK
  <2> QED BY <1>2, <2>1, TypeRoundOnly DEF ListSitePublications, dnsVars
<1>3. CASE \E s \in Sites : CheckSite(s)
  <2> PICK s \in Sites : CheckSite(s)
    BY <1>3
  <2>1. round.pc = "site" /\ s \in round.todo /\ round.pubs[s] # NoPub
        /\ UNCHANGED <<dbVars, editor, publisher, loaded, dns, cache>>
    BY DEF CheckSite, dnsVars, TypeInv, PublicationsKept
  <2>2. CASE round' = Skip(s)
    BY <2>1, <2>2, TypeSkip
  <2>3. CASE round' = [round EXCEPT !.pc = "pool", !.site = s]
    <3>1. round' \in Round /\ round'.pc = "pool" /\ round'.site = s
          /\ round'.pubs = round.pubs /\ round'.todo = round.todo
      BY <1>0, <2>3 DEF Round
    <3> QED BY <2>1, <3>1, TypeRoundOnly DEF TypeInv, PublicationsKept
  <2> QED BY <2>2, <2>3 DEF CheckSite
<1>4. CASE CheckPools
  BY <1>4, TypeCheckPools
<1>5. CASE \E n \in Nodes : PutRecord(n) \/ DeleteRecord(n)
  BY <1>5, TypeDNS
<1>6. CASE ReconcileDNSFails
  BY <1>6, TypeSkip DEF ReconcileDNSFails, dnsVars
<1>7. CASE MarkDNSReady
  BY <1>7, TypeMarkDNSReady
<1>8. CASE BeginReconcileDrains
  <2>1. round' = [IdleRound EXCEPT !.pc = "clean", !.todo = Sites]
    BY <1>8 DEF BeginReconcileDrains
  <2>2. round' \in Round /\ round'.pc = "clean" /\ \A s \in Sites : round'.pubs[s] = NoPub
    BY <1>0, <2>1 DEF IdleRound, Round
  <2> QED BY <1>8, <2>2, TypeRoundOnly DEF BeginReconcileDrains, dnsVars
<1>9. CASE \E s \in Sites : ReconcileDrains(s)
  BY <1>9, TypeReconcileDrains
<1>10. CASE EndRound
  <2>1. round' \in Round /\ round'.pc = "idle" /\ \A s \in Sites : round'.pubs[s] = NoPub
    BY <1>0, <1>10 DEF EndRound, IdleRound
  <2> QED BY <1>10, <2>1, TypeRoundOnly DEF EndRound, dnsVars
<1> QED BY <1>1, <1>2, <1>3, <1>4, <1>5, <1>6, <1>7, <1>8, <1>9, <1>10 DEF RoundNext

LEMMA TypeExpire ==
    TypeInv /\ (\E s \in Sites : ExpirePublishTask(s) \/ ExpireDrainTask(s)) => TypeInv'
<1> SUFFICES ASSUME TypeInv, NEW s \in Sites, ExpirePublishTask(s) \/ ExpireDrainTask(s)
             PROVE  TypeInv'
  OBVIOUS
<1>1. PICK lateP, lateD : ReconcilePublishTasks(ptask, drain, dtask, applied, lateP, lateD)
  BY DEF ExpirePublishTask, ExpireDrainTask
<1>2. UNCHANGED <<draft, editor, pub, desired, applied, active, upgrading,
                  publisher, loaded, dns, cache, round>>
  BY DEF ExpirePublishTask, ExpireDrainTask, dnsVars
<1>3. /\ ptask \in [Sites -> Task] /\ drain \in [Sites -> Row]
      /\ applied \in [Nodes -> Nat] /\ applied' \in [Nodes -> Nat]
      /\ round' \in Round /\ PublicationsKept'
  BY <1>2 DEF TypeInv, TypeOK, PublicationsKept
<1> QED BY <1>1, <1>2, <1>3, TypeReconcile

LEMMA TypeRestart == TypeInv /\ Restart => TypeInv'
<1> SUFFICES ASSUME TypeInv, Restart PROVE TypeInv'
  OBVIOUS
<1>1. IdleRound \in Round /\ IdleRound.pc = "idle" /\ \A s \in Sites : IdleRound.pubs[s] = NoPub
  BY ConfigAssumption DEF IdleRound, Round
<1>2. ~NoPublish.busy
  BY Zenon DEF NoPublish
<1> QED BY <1>1, <1>2 DEF Restart, TypeInv, TypeOK, PublicationsKept, dbVars, dnsVars

LEMMA TypeTick == TypeInv /\ Tick => TypeInv'
<1> SUFFICES ASSUME TypeInv, Tick PROVE TypeInv'
  OBVIOUS
<1>1. \A k \in 0..Grace : Dec(k) \in 0..Grace
  BY TimeAssumption DEF Dec
<1>2. cache' \in [Sites -> [Nodes -> 0..Grace]]
  BY <1>1 DEF Tick, TypeInv, TypeOK
<1>3. \A d \in Drain : [d EXCEPT !.left = Dec(@)] \in Drain
  BY DEF Drain, Dec
<1>4. drain' \in [Sites -> Row]
  BY <1>3 DEF Tick, TypeInv, TypeOK, Row
<1> QED BY <1>2, <1>4 DEF Tick, TypeInv, TypeOK, PublicationsKept

LEMMA TypeNext == TypeInv /\ [Next]_vars => TypeInv'
<1>1. ASSUME TypeInv, UNCHANGED vars PROVE TypeInv'
  BY <1>1 DEF vars, TypeInv, TypeOK, PublicationsKept
<1> QED BY <1>1, TypeEditor, TypePublisher, TypeNode, TypeExpire, TypeRound,
           TypeRestart, TypeTick DEF Next

\* TypeOK, for every number of sites, nodes and editors: every table row and
\* every piece of process state keeps the shape the code gives it, and all TTLs
\* and timers stay within the accepted range.
THEOREM TypeCorrect == Spec => []TypeOK
<1>1. TypeInv => TypeOK
  BY DEF TypeInv
<1> QED BY <1>1, TypeInit, TypeNext, PTL DEF Spec
-----------------------------------------------------------------------------
(* Upgrades and publications exclude each other *)

\* Node n has a pending target in the given task tables.
Awaited(pt, dr, n) ==
    \E s \in Sites : \/ pt[s].pending[n] > 0
                     \/ Claimed(dr[s][n]) /\ dr[s][n].claim = "pending"

LEMMA SettledTaskAwaits ==
    ASSUME NEW task \in Task, NEW ap, NEW late, NEW n \in Nodes,
           SettledTask(task, ap, late).pending[n] > 0
    PROVE  task.pending[n] > 0
BY DEF SettledTask, Task, NoTask

LEMMA SettledRowAwaits ==
    ASSUME NEW row \in Row, NEW running, NEW ap, NEW late, NEW n \in Nodes,
           Claimed(SettledRow(row, running, ap, late)[n]),
           SettledRow(row, running, ap, late)[n].claim = "pending"
    PROVE  Claimed(row[n]) /\ row[n].claim = "pending"
<1> DEFINE seen == ConfirmedRow(row, ap, late)
           out == SettledRow(row, running, ap, late)[n]
<1>1. out \in {seen[n], NoDrain, Release(seen[n])}
  BY DEF SettledRow
<1>2. row[n] \in Drain \cup {NoDrain}
  BY DEF Row
<1>3. seen[n] \in {row[n], [row[n] EXCEPT !.claim = "done"], [row[n] EXCEPT !.claim = "failed"]}
  BY DEF ConfirmedRow
<1>4. Claimed(row[n]) => row[n] \in Drain
  BY <1>2 DEF Claimed
<1>5. seen[n] # row[n] => Claimed(row[n]) /\ seen[n].claim \in {"done", "failed"}
  BY <1>3, <1>4 DEF ConfirmedRow, Drain
<1>6. CASE out = seen[n]
  BY <1>5, <1>6
<1>7. CASE out = NoDrain
  BY <1>7 DEF Claimed
<1>8. CASE out = Release(seen[n]) /\ seen[n] \in Drain
  BY <1>8 DEF Release, Drain
<1>9. seen[n] \in Drain \/ seen[n] = NoDrain
  BY <1>2, <1>3, <1>5, <1>4 DEF Drain
<1>10. CASE seen[n] = NoDrain
  <2>1. out = NoDrain
    BY <1>10 DEF SettledRow
  <2> QED BY <2>1 DEF Claimed
<1> QED BY <1>1, <1>6, <1>7, <1>8, <1>9, <1>10

\* A reconciliation never makes a task wait for a node it did not wait for.
LEMMA ReconcileAwaits ==
    ASSUME NEW pt \in [Sites -> Task], NEW dr \in [Sites -> Row], NEW dt, NEW ap,
           NEW lateP, NEW lateD, NEW n \in Nodes,
           ReconcilePublishTasks(pt, dr, dt, ap, lateP, lateD),
           Awaited(ptask', drain', n)
    PROVE  Awaited(pt, dr, n)
<1>1. PICK s \in Sites : \/ ptask'[s].pending[n] > 0
                         \/ Claimed(drain'[s][n]) /\ drain'[s][n].claim = "pending"
  BY DEF Awaited
<1>2. ptask'[s] = SettledTask(pt[s], ap, s \in lateP)
      /\ drain'[s] = SettledRow(dr[s], dt[s], ap, s \in lateD)
  BY DEF ReconcilePublishTasks
<1>3. pt[s] \in Task /\ dr[s] \in Row
  OBVIOUS
<1>4. CASE ptask'[s].pending[n] > 0
  BY <1>2, <1>3, <1>4, SettledTaskAwaits DEF Awaited
<1>5. CASE Claimed(drain'[s][n]) /\ drain'[s][n].claim = "pending"
  BY <1>2, <1>3, <1>5, SettledRowAwaits DEF Awaited
<1> QED BY <1>1, <1>4, <1>5

\* A step that only shrinks the set of awaited nodes keeps the exclusion.
LEMMA FewerAwaited ==
    ASSUME UpgradeExcludesPublication, UNCHANGED upgrading,
           \A n \in Nodes : Awaited(ptask', drain', n) => Awaited(ptask, drain, n)
    PROVE  UpgradeExcludesPublication'
BY DEF UpgradeExcludesPublication, HasActiveNodePublication, Awaited
LEMMA ExclusionPublisher ==
    TypeInv /\ UpgradeExcludesPublication /\ PublisherNext => UpgradeExcludesPublication'
<1> SUFFICES ASSUME TypeInv, UpgradeExcludesPublication, PublisherNext
             PROVE  UpgradeExcludesPublication'
  OBVIOUS
<1> USE DEF TypeInv
<1>1. CASE \E s \in Sites : BeginPublish(s)
  <2> PICK s \in Sites : BeginPublish(s)
    BY <1>1
  <2> DEFINE building == [ptask EXCEPT ![s] = [status |-> "building",
                                               pending |-> NoTask.pending]]
  <2>1. building \in [Sites -> Task] /\ drain \in [Sites -> Row]
    BY DEF TypeOK, Task, NoTask
  <2>2. ReconcilePublishTasks(building, drain, dtask, applied, {}, {})
    BY DEF BeginPublish
  <2>3. \A n \in Nodes : Awaited(ptask', drain', n) => Awaited(building, drain, n)
    BY <2>1, <2>2, ReconcileAwaits
  <2>4. \A n \in Nodes, t \in Sites : building[t].pending[n] > 0 => ptask[t].pending[n] > 0
    BY DEF NoTask, TypeOK
  <2>5. \A n \in Nodes : Awaited(building, drain, n) => Awaited(ptask, drain, n)
    BY <2>4 DEF Awaited
  <2> QED BY <2>3, <2>5, FewerAwaited DEF BeginPublish
<1>2. CASE CommitPublish
  <2> DEFINE p == publisher
  <2>1. p \in Publishing
    BY <1>2 DEF CommitPublish, TypeOK, NoPublish
  <2>2. p.site \in Sites /\ p.target \in [Nodes -> Nat]
    BY <2>1 DEF Publishing
  <2>3. upgrading' = upgrading /\ \A n \in Touched(p) : ~upgrading[n]
    BY <1>2 DEF CommitPublish, NodesNotUpgrading
  <2>4. ptask' = [ptask EXCEPT ![p.site] = StagedTask(p)]
        /\ drain' = [drain EXCEPT ![p.site] = CommittedRow(p)]
    BY <1>2 DEF CommitPublish
  <2>5. \A n \in Nodes : StagedTask(p).pending[n] > 0 => n \in Touched(p)
    BY <2>2 DEF StagedTask, NoTask, Touched
  <2>6. ASSUME NEW n \in Nodes, Claimed(CommittedRow(p)[n]), CommittedRow(p)[n].claim = "pending"
        PROVE  Claimed(drain[p.site][n]) /\ drain[p.site][n].claim = "pending"
    <3> DEFINE d == drain[p.site][n]
    <3>1. d \in Drain \cup {NoDrain}
      BY <2>2 DEF TypeOK, Row
    <3>2. ~Claimed(NoDrain) /\ ~Claimed(NewDrain(pub[p.site], p.ttl))
      BY DEF Claimed, NewDrain
    <3>3. ~(Claimed(d) /\ Claimed([d EXCEPT !.orphan = TRUE]))
      BY <3>1 DEF Claimed, Drain
    <3>4. \/ CommittedRow(p)[n] \in {NoDrain, NewDrain(pub[p.site], p.ttl), d}
          \/ Claimed(d) /\ CommittedRow(p)[n] = [d EXCEPT !.orphan = TRUE]
      BY DEF CommittedRow
    <3> QED BY <2>6, <3>2, <3>3, <3>4
  <2>7. ASSUME NEW n \in Nodes, upgrading[n], NEW t \in Sites
        PROVE  /\ ~(ptask'[t].pending[n] > 0)
               /\ ~(Claimed(drain'[t][n]) /\ drain'[t][n].claim = "pending")
    <3>1. /\ ~(ptask[t].pending[n] > 0)
          /\ ~(Claimed(drain[t][n]) /\ drain[t][n].claim = "pending")
      BY <2>7 DEF UpgradeExcludesPublication, HasActiveNodePublication
    <3>2. CASE t = p.site
      <4>1. ptask'[t] = StagedTask(p) /\ drain'[t] = CommittedRow(p)
        BY <2>2, <2>4, <3>2 DEF TypeOK
      <4> QED BY <2>3, <2>5, <2>6, <2>7, <3>1, <3>2, <4>1
    <3>3. CASE t # p.site
      <4>1. ptask'[t] = ptask[t] /\ drain'[t] = drain[t]
        BY <2>4, <3>3 DEF TypeOK
      <4> QED BY <3>1, <4>1
    <3> QED BY <3>2, <3>3
  <2> QED BY <2>3, <2>7 DEF UpgradeExcludesPublication, HasActiveNodePublication
<1>3. CASE FailPublish
  <2>1. \A n \in Nodes, t \in Sites : ptask'[t].pending[n] > 0 => ptask[t].pending[n] > 0
    BY <1>3 DEF FailPublish, TypeOK, NoTask
  <2>2. \A n \in Nodes : Awaited(ptask', drain', n) => Awaited(ptask, drain, n)
    BY <1>3, <2>1 DEF FailPublish, Awaited
  <2> QED BY <1>3, <2>2, FewerAwaited DEF FailPublish
<1> QED BY <1>1, <1>2, <1>3 DEF PublisherNext

LEMMA ExclusionNode ==
    TypeInv /\ UpgradeExcludesPublication /\ NodeNext => UpgradeExcludesPublication'
<1> SUFFICES ASSUME TypeInv, UpgradeExcludesPublication, NEW n \in Nodes,
                    \/ PublishNode(n) \/ SetNodeStatus(n)
                    \/ StartUpgrade(n) \/ FinishUpgrade(n)
                    \/ EdgeApply(n) \/ HeartbeatApplied(n)
                    \/ \E v \in loaded[n].ver + 1 .. desired[n].ver : HeartbeatRejected(n, v)
             PROVE  UpgradeExcludesPublication'
  BY DEF NodeNext
<1> USE DEF TypeInv
<1>1. CASE PublishNode(n) \/ SetNodeStatus(n) \/ EdgeApply(n)
  BY <1>1 DEF PublishNode, SetNodeStatus, EdgeApply, dbVars,
              UpgradeExcludesPublication, HasActiveNodePublication
<1>2. CASE StartUpgrade(n) \/ FinishUpgrade(n)
  BY <1>2 DEF StartUpgrade, FinishUpgrade, TypeOK,
              UpgradeExcludesPublication, HasActiveNodePublication
<1>3. CASE HeartbeatApplied(n)
  <2>1. PICK ap : ReconcilePublishTasks(ptask, drain, dtask, ap, {}, {})
    BY <1>3 DEF HeartbeatApplied
  <2>2. \A m \in Nodes : Awaited(ptask', drain', m) => Awaited(ptask, drain, m)
    BY <2>1, ReconcileAwaits DEF TypeOK
  <2> QED BY <1>3, <2>2, FewerAwaited DEF HeartbeatApplied
<1>4. ASSUME NEW v \in loaded[n].ver + 1 .. desired[n].ver, HeartbeatRejected(n, v)
      PROVE  UpgradeExcludesPublication'
  <2> DEFINE pt == [s \in Sites |-> FailedTask(ptask[s], n, v)]
             dr == [s \in Sites |-> FailedRow(drain[s], n, v)]
  <2>1. PICK ap : ReconcilePublishTasks(pt, dr, dtask, ap, {}, {})
    BY <1>4 DEF HeartbeatRejected
  <2>2. pt \in [Sites -> Task] /\ dr \in [Sites -> Row]
    BY FailedTaskType, FailedRowType DEF TypeOK
  <2>3. \A m \in Nodes : Awaited(ptask', drain', m) => Awaited(pt, dr, m)
    <3> HIDE DEF pt, dr
    <3> QED BY <2>1, <2>2, ReconcileAwaits
  <2>4. \A m \in Nodes, s \in Sites : pt[s].pending[m] > 0 => ptask[s].pending[m] > 0
    BY DEF FailedTask, TypeOK, Task
  <2>5. \A m \in Nodes, s \in Sites : dr[s][m] # drain[s][m] => dr[s][m].claim # "pending"
    <3> SUFFICES ASSUME NEW m \in Nodes, NEW s \in Sites,
                        FailedRow(drain[s], n, v)[m] # drain[s][m]
                 PROVE  FailedRow(drain[s], n, v)[m].claim # "pending"
      OBVIOUS
    <3>1. drain[s] \in Row /\ drain[s][n] \in Drain \cup {NoDrain}
      BY DEF TypeOK, Row
    <3>2. m = n /\ Claimed(drain[s][n])
          /\ FailedRow(drain[s], n, v)[m] = [drain[s][n] EXCEPT !.claim = "failed"]
      BY <3>1 DEF FailedRow, Row
    <3> QED BY <3>1, <3>2 DEF Claimed, Drain
  <2>6. \A m \in Nodes : Awaited(pt, dr, m) => Awaited(ptask, drain, m)
    <3> HIDE DEF pt, dr
    <3> QED BY <2>4, <2>5 DEF Awaited
  <2> QED BY <1>4, <2>3, <2>6, FewerAwaited DEF HeartbeatRejected
<1> QED BY <1>1, <1>2, <1>3, <1>4
LEMMA ExclusionRound ==
    TypeInv /\ UpgradeExcludesPublication /\ RoundNext => UpgradeExcludesPublication'
<1> SUFFICES ASSUME TypeInv, UpgradeExcludesPublication, RoundNext
             PROVE  UpgradeExcludesPublication'
  OBVIOUS
<1> USE DEF TypeInv
<1>1. CASE BeginRound
  <2>1. ReconcilePublishTasks(ptask, drain, dtask, applied, {}, {})
    BY <1>1 DEF BeginRound
  <2>2. \A n \in Nodes : Awaited(ptask', drain', n) => Awaited(ptask, drain, n)
    BY <2>1, ReconcileAwaits DEF TypeOK
  <2> QED BY <1>1, <2>2, FewerAwaited DEF BeginRound
<1>2. CASE UNCHANGED <<ptask, drain, upgrading>>
  BY <1>2 DEF UpgradeExcludesPublication, HasActiveNodePublication
<1>3. CASE MarkDNSReady
  <2> DEFINE s == round.site
  <2>1. s \in Sites /\ \A n \in Nodes : drain[s][n] \in Drain \cup {NoDrain}
    BY DEF TypeOK, Row, Round
  <2> DEFINE row == [n \in Nodes |-> IF drain[s][n] # NoDrain /\ ~drain[s][n].ready
                                     THEN [drain[s][n] EXCEPT !.ready = TRUE,
                                              !.ttl = DrainTTL(s), !.left = RemoveAfter(s)]
                                     ELSE drain[s][n]]
  <2>2. drain' \in {drain, [drain EXCEPT ![s] = row]}
    BY <1>3 DEF MarkDNSReady
  <2>3. \A n \in Nodes, t \in Sites :
           Claimed(drain'[t][n]) /\ drain'[t][n].claim = "pending"
           => Claimed(drain[t][n]) /\ drain[t][n].claim = "pending"
    <3> SUFFICES ASSUME NEW n \in Nodes, NEW t \in Sites, drain'[t][n] # drain[t][n]
                 PROVE  Claimed(drain'[t][n]) /\ drain'[t][n].claim = "pending"
                        => Claimed(drain[t][n]) /\ drain[t][n].claim = "pending"
      OBVIOUS
    <3>0. t = s /\ drain'[t] = row
      <4> HIDE DEF row, s
      <4> QED BY <2>1, <2>2 DEF TypeOK
    <3>1. t = s /\ drain[s][n] # NoDrain
          /\ drain'[s][n] = [drain[s][n] EXCEPT !.ready = TRUE, !.ttl = DrainTTL(s),
                                                !.left = RemoveAfter(s)]
      <4>1. row[n] # drain[s][n] /\ drain'[s][n] = row[n]
        BY <3>0
      <4> HIDE DEF s
      <4> QED BY <3>0, <4>1
    <3>2. drain[s][n] \in Drain
      BY <2>1, <3>1
    <3> QED BY <3>1, <3>2 DEF Claimed, Drain
  <2>4. ptask' = ptask /\ upgrading' = upgrading
    BY <1>3 DEF MarkDNSReady
  <2> QED BY <2>3, <2>4, FewerAwaited DEF Awaited
<1>4. CASE \E s \in Sites : ReconcileDrains(s)
  <2> PICK s \in Sites : ReconcileDrains(s)
    BY <1>4
  <2> DEFINE due == DueDrains(s)
  <2>1. CASE UNCHANGED drain
    BY <1>2, <2>1 DEF ReconcileDrains
  <2>2. CASE drain' = [drain EXCEPT ![s] =
                         [n \in Nodes |-> IF n \in due THEN NoDrain ELSE drain[s][n]]]
    <3>1. \A n \in Nodes, t \in Sites : drain'[t][n] \in {drain[t][n], NoDrain}
      BY <2>2 DEF TypeOK
    <3>2. \A n \in Nodes, t \in Sites : Claimed(drain'[t][n]) => drain'[t][n] = drain[t][n]
      BY <3>1 DEF Claimed
    <3>3. ptask' = ptask /\ upgrading' = upgrading
      BY DEF ReconcileDrains
    <3> QED BY <3>2, <3>3, FewerAwaited DEF Awaited
  <2>3. ASSUME NodesNotUpgrading(due), NEW target, drain' = [drain EXCEPT ![s] = StagedRow(s, due, target)]
        PROVE  UpgradeExcludesPublication'
    <3>1. ptask' = ptask /\ upgrading' = upgrading
      BY DEF ReconcileDrains
    <3>2. \A n \in Nodes, t \in Sites : n \notin due => drain'[t][n] = drain[t][n]
      BY <2>3 DEF StagedRow, TypeOK
    <3> QED BY <2>3, <3>1, <3>2 DEF NodesNotUpgrading, UpgradeExcludesPublication,
                                    HasActiveNodePublication
  <2>4. \/ UNCHANGED drain
        \/ drain' = [drain EXCEPT ![s] =
                       [n \in Nodes |-> IF n \in due THEN NoDrain ELSE drain[s][n]]]
        \/ NodesNotUpgrading(due)
           /\ \E target : drain' = [drain EXCEPT ![s] = StagedRow(s, due, target)]
    BY DEF ReconcileDrains
  <2> QED BY <2>1, <2>2, <2>3, <2>4
<1> QED BY <1>1, <1>2, <1>3, <1>4
        DEF RoundNext, ListSitePublications, CheckSite, CheckPools, PutRecord, DeleteRecord,
            ReconcileDNSFails, BeginReconcileDrains, EndRound, dbVars

LEMMA ExclusionOther ==
    ASSUME TypeInv, UpgradeExcludesPublication,
           \/ EditorNext \/ Restart \/ Tick
           \/ \E s \in Sites : ExpirePublishTask(s) \/ ExpireDrainTask(s)
    PROVE  UpgradeExcludesPublication'
<1> USE DEF TypeInv
<1>1. CASE EditorNext \/ Restart
  BY <1>1 DEF EditorNext, UpdateSiteRead, UpdateSiteWrite, Restart, dbVars,
              UpgradeExcludesPublication, HasActiveNodePublication
<1>2. CASE Tick
  <2>1. \A n \in Nodes, s \in Sites :
            Claimed(drain'[s][n]) /\ drain'[s][n].claim = "pending"
            => Claimed(drain[s][n]) /\ drain[s][n].claim = "pending"
    <3> SUFFICES ASSUME NEW n \in Nodes, NEW s \in Sites
                 PROVE  Claimed(drain'[s][n]) /\ drain'[s][n].claim = "pending"
                        => Claimed(drain[s][n]) /\ drain[s][n].claim = "pending"
      OBVIOUS
    <3>1. drain[s][n] \in Drain \cup {NoDrain}
      BY DEF TypeOK, Row
    <3>2. CASE drain[s][n] = NoDrain
      BY <1>2, <3>2 DEF Tick
    <3>3. CASE drain[s][n] # NoDrain
      <4>1. drain'[s][n] = [drain[s][n] EXCEPT !.left = Dec(@)]
        BY <1>2, <3>3 DEF Tick
      <4> QED BY <3>1, <3>3, <4>1 DEF Claimed, Drain
    <3> QED BY <3>2, <3>3
  <2> QED BY <1>2, <2>1, FewerAwaited DEF Tick, Awaited
<1>3. CASE \E s \in Sites : ExpirePublishTask(s) \/ ExpireDrainTask(s)
  <2>1. PICK lateP, lateD : ReconcilePublishTasks(ptask, drain, dtask, applied, lateP, lateD)
    BY <1>3 DEF ExpirePublishTask, ExpireDrainTask
  <2>2. \A n \in Nodes : Awaited(ptask', drain', n) => Awaited(ptask, drain, n)
    BY <2>1, ReconcileAwaits DEF TypeOK
  <2> QED BY <1>3, <2>2, FewerAwaited DEF ExpirePublishTask, ExpireDrainTask
<1> QED BY <1>1, <1>2, <1>3

LEMMA ExclusionNext ==
    TypeInv /\ UpgradeExcludesPublication /\ [Next]_vars => UpgradeExcludesPublication'
<1>1. ASSUME UpgradeExcludesPublication, UNCHANGED vars PROVE UpgradeExcludesPublication'
  BY <1>1 DEF vars, UpgradeExcludesPublication, HasActiveNodePublication
<1> QED BY <1>1, ExclusionPublisher, ExclusionNode, ExclusionRound, ExclusionOther DEF Next

\* No node is ever upgraded while a publication or a cleanup waits for it, for
\* every number of nodes and sites: the guard in createOrGetNodeUpgradeTx and
\* ensureNodesNotUpgradingTx in every transaction that stages targets are enough.
THEOREM UpgradeExclusion == Spec => []UpgradeExcludesPublication
<1>1. Init => UpgradeExcludesPublication
  BY DEF Init, UpgradeExcludesPublication
<1> QED BY <1>1, TypeInit, TypeNext, ExclusionNext, PTL DEF Spec

-----------------------------------------------------------------------------
(* The invariant *)

\* The edge is never ahead of the controller, and one version has one content.
VersionsOrdered ==
    \A n \in Nodes :
        /\ applied[n] =< loaded[n].ver
        /\ loaded[n].ver =< desired[n].ver
        /\ loaded[n].ver = desired[n].ver => loaded[n] = desired[n]

\* While a publication is prepared nothing else renders, so that what it
\* prepared still replaces older states only.
PreparedIsNewer ==
    publisher.busy =>
        /\ round.pc # "clean"
        /\ \A n \in Nodes : \/ publisher.state[n] = desired[n]
                            \/ publisher.state[n].ver > desired[n].ver

VersionInv == TypeInv /\ VersionsOrdered /\ PreparedIsNewer

\* One request at a time updates drafts.
OneEditor == \A e, f \in Editors : e = f

EditorReadsCurrent ==
    \A e \in Editors, s \in Sites : editor[e][s] > 0 => editor[e][s] = draft[s].ver

\* What a node's state has to serve for the drain row d of a site: its snapshot,
\* as long as traffic may come, and nothing once a cleanup has claimed the row.
ServesRow(d, cached, body) ==
    /\ d.claim # "none" => body = NoBody
    /\ d.claim = "none" /\ (~d.ready \/ cached > 0) => body = d.cfg.body

\* A drain row of a site and a node, as it is in the table or will be.
RowHolds(s, n, d) ==
    /\ n \notin Assigned(pub[s])
    /\ ServesRow(d, cache[s][n], desired[n].body[s])
    /\ d.ready => dns[s][n] = 0 /\ cache[s][n] =< d.left
    /\ d.claim # "none" => d.ready /\ d.left = 0
    /\ d.claim \in {"done", "untracked"} => loaded[n].body[s] = NoBody
    /\ d.claim = "pending" /\ loaded[n].ver >= d.target => loaded[n].body[s] = NoBody

RowsHold == \A s \in Sites, n \in Nodes : drain[s][n] # NoDrain => RowHolds(s, n, drain[s][n])

ReachableNodesKept ==
    \A s \in Sites, n \in Nodes :
        Reachable(s, n) => /\ Serves(loaded[n], s)
                           /\ n \in Assigned(pub[s]) \/ drain[s][n] # NoDrain

\* What the prepared publication p rendered for the other sites and for the
\* drains that it leaves alone.
PreparedKeeps(p) ==
    /\ \A t \in Sites \ {p.site} : \A n \in Assigned(pub[t]) :
           p.state[n].body[t] = pub[t].cfg.body
    /\ \A t \in Sites, n \in Nodes :
           drain[t][n] # NoDrain /\ ~(t = p.site /\ n \in p.cancel)
           => ServesRow(drain[t][n], cache[t][n], p.state[n].body[t])

\* What it rendered for the nodes that leave, and, when the draft is still the
\* one that was rendered, for the nodes of that draft.
PreparedMatchesDraft(p) ==
    /\ p.ver =< draft[p.site].ver
    /\ \A n \in p.drains : /\ n \in Assigned(pub[p.site])
                           /\ p.state[n].body[p.site] = pub[p.site].cfg.body
    /\ DraftUnchanged(p) =>
           /\ \A n \in AssignedNodeIDs(draft[p.site].cfg) :
                  /\ p.state[n].body[p.site] = draft[p.site].cfg.body
                  /\ drain[p.site][n] # NoDrain => n \in p.cancel
           /\ p.cancel \subseteq AssignedNodeIDs(draft[p.site].cfg)
           /\ p.drains = Assigned(pub[p.site]) \ AssignedNodeIDs(draft[p.site].cfg)

PreparedHolds == publisher.busy => PreparedKeeps(publisher) /\ PreparedMatchesDraft(publisher)

\* What the health round read is old, but not wrong where it is used: a node of
\* the publication that it works on is assigned still or begins to drain.
StillServed(s, n) == n \in Assigned(pub[s]) \/ (drain[s][n] # NoDrain /\ ~drain[s][n].ready)

RoundHolds ==
    /\ \A n \in Nodes : round.applied[n] =< applied[n]
    /\ \A s \in Sites :
           /\ Generation(round.pubs[s]) =< Generation(pub[s])
           /\ round.pubs[s] # NoPub /\ SitePublicationCurrent(s)
              => round.pubs[s].cfg = pub[s].cfg
    /\ round.pc \in {"pool", "push"} =>
           \A n \in Assigned(round.pubs[round.site]) : StillServed(round.site, n)

\* What the round pushes: nodes that have loaded the site.
WantedHold ==
    round.pc = "push" =>
        \A n \in round.want :
            /\ n \in Assigned(round.pubs[round.site])
            /\ Serves(loaded[n], round.site)
            /\ SitePublicationCurrent(round.site)
               => loaded[n].body[round.site] = pub[round.site].cfg.body

CutoverInv ==
    /\ VersionInv /\ EditorReadsCurrent /\ PublicationMatchesStates
    /\ RowsHold /\ ReachableNodesKept /\ PreparedHolds /\ RoundHolds /\ WantedHold

-----------------------------------------------------------------------------
(* Rendering *)

\* A state renders the body it is given, and is the old one or newer than it.
LEMMA NextStateRenders ==
    ASSUME TypeInv, NEW n \in Nodes, NEW body
    PROVE  /\ NextState(n, body).body = body
           /\ NextState(n, body) = desired[n] \/ NextState(n, body).ver > desired[n].ver
<1>1. desired[n].ver \in Nat
  BY DEF TypeInv, TypeOK, State
<1> QED BY <1>1 DEF NextState

\* The drains, and the publications, that a new publication of s renders from.
SettledRows == [t \in Sites |-> SettledRow(drain[t], dtask[t], applied, FALSE)]
RenderedRows(s, ttl) == [t \in Sites |-> IF t = s THEN PreparedRow(s, SettledRows[s], ttl)
                                         ELSE SettledRows[t]]
RenderedPubs(s) == [pub EXCEPT ![s] = [cfg |-> draft[s].cfg, seq |-> 0, ttl |-> 0]]
Affected(s) == Assigned(pub[s]) \cup AssignedNodeIDs(draft[s].cfg)

LEMMA BeginPublishRenders ==
    ASSUME TypeInv, NEW s \in Sites, BeginPublish(s)
    PROVE  /\ ~publisher.busy /\ publisher'.busy /\ round.pc # "clean"
           /\ publisher'.site = s /\ publisher'.ver = draft[s].ver
           /\ publisher'.drains = DroppedNodes(s, SettledRows[s])
           /\ publisher'.cancel = AssignedNodeIDs(draft[s].cfg) \cap Draining(SettledRows[s])
           /\ drain' = SettledRows
           /\ \A n \in Nodes \ Affected(s) : publisher'.state[n] = desired[n]
           /\ \E ttl \in TTL : \A n \in Affected(s) : n \in Nodes =>
                publisher'.state[n] = NextState(n, Rendered(RenderedPubs(s), RenderedRows(s, ttl), n))
<1> DEFINE row == SettledRow(drain[s], dtask[s], applied, FALSE)
           affected == Assigned(pub[s]) \cup AssignedNodeIDs(draft[s].cfg)
           pubs == [pub EXCEPT ![s] = [cfg |-> draft[s].cfg, seq |-> 0, ttl |-> 0]]
           rows(ttl) == [t \in Sites |->
                           IF t = s THEN PreparedRow(s, row, ttl)
                           ELSE SettledRow(drain[t], dtask[t], applied, FALSE)]
           state(ttl) == [n \in Nodes |->
                            IF n \in affected THEN NextState(n, Rendered(pubs, rows(ttl), n))
                            ELSE desired[n]]
           target(ttl) == [n \in Nodes |-> IF n \in affected
                                           THEN TargetVersion(n, state(ttl)[n]) ELSE 0]
           record(ttl) == [busy |-> TRUE, site |-> s, ver |-> draft[s].ver,
                           state |-> state(ttl), target |-> target(ttl),
                           drains |-> DroppedNodes(s, row), ttl |-> ttl,
                           cancel |-> AssignedNodeIDs(draft[s].cfg) \cap Draining(row)]
<1>1. PICK ttl \in DrainTTLs(s) : publisher' = record(ttl)
  BY Zenon DEF BeginPublish
<1>2. ttl \in TTL
  BY <1>1, DrainTTLsType DEF TypeInv
<1>3. ~publisher.busy /\ round.pc # "clean"
  BY DEF BeginPublish, MutexFree
<1>4. drain' = SettledRows
  <2>1. drain' = [t \in Sites |-> SettledRow(drain[t], dtask[t], applied, t \in {})]
    BY DEF BeginPublish, ReconcilePublishTasks
  <2>2. \A t : (t \in {}) = FALSE
    OBVIOUS
  <2> QED BY <2>1, <2>2, Zenon DEF SettledRows
<1>5. row = SettledRows[s] /\ rows(ttl) = RenderedRows(s, ttl) /\ pubs = RenderedPubs(s)
      /\ affected = Affected(s)
  BY DEF SettledRows, RenderedRows, RenderedPubs, Affected
<1>6. /\ publisher'.busy /\ publisher'.site = s /\ publisher'.ver = draft[s].ver
      /\ publisher'.drains = DroppedNodes(s, row)
      /\ publisher'.cancel = AssignedNodeIDs(draft[s].cfg) \cap Draining(row)
      /\ publisher'.state = state(ttl)
  <2> HIDE DEF row, state, target
  <2> QED BY <1>1
<1>7. \A n \in Nodes : /\ n \notin affected => state(ttl)[n] = desired[n]
                       /\ n \in affected => state(ttl)[n] = NextState(n, Rendered(pubs, rows(ttl), n))
  OBVIOUS
<1> HIDE DEF row, affected, pubs, rows, state, target, record
<1> QED BY <1>2, <1>3, <1>4, <1>5, <1>6, <1>7

-----------------------------------------------------------------------------
(* Versions *)

LEMMA VersionPublisher == VersionInv /\ PublisherNext => VersionsOrdered' /\ PreparedIsNewer'
<1> SUFFICES ASSUME VersionInv, PublisherNext PROVE VersionsOrdered' /\ PreparedIsNewer'
  OBVIOUS
<1>1. ASSUME NEW s \in Sites, BeginPublish(s) PROVE VersionsOrdered' /\ PreparedIsNewer'
  <2>1. UNCHANGED <<applied, loaded, desired, round>>
    BY <1>1 DEF BeginPublish
  <2>2. \A n \in Nodes : publisher'.state[n] = desired[n] \/ publisher'.state[n].ver > desired[n].ver
    BY <1>1, BeginPublishRenders, NextStateRenders DEF VersionInv
  <2>3. round.pc # "clean"
    BY <1>1, BeginPublishRenders DEF VersionInv
  <2> QED BY <2>1, <2>2, <2>3 DEF VersionInv, VersionsOrdered, PreparedIsNewer
<1>2. CASE CommitPublish
  <2>1. publisher \in Publishing
    BY <1>2 DEF CommitPublish, VersionInv, TypeInv, TypeOK, NoPublish
  <2>2. \A n \in Nodes : /\ desired[n].ver \in Nat /\ publisher.state[n].ver \in Nat
                         /\ loaded[n].ver \in Nat /\ applied[n] \in Nat
    BY <2>1 DEF VersionInv, TypeInv, TypeOK, Publishing, State
  <2>3. /\ desired' = publisher.state /\ publisher' = NoPublish
        /\ UNCHANGED <<applied, loaded, round>> /\ publisher.busy
    BY <1>2 DEF CommitPublish
  <2>4. ~publisher'.busy
    BY <2>3, Zenon DEF NoPublish
  <2>5. \A n \in Nodes : desired'[n] = desired[n] \/ desired'[n].ver > desired[n].ver
    BY <2>3 DEF VersionInv, PreparedIsNewer
  <2>6. VersionsOrdered'
    BY <2>2, <2>3, <2>5 DEF VersionInv, VersionsOrdered
  <2> QED BY <2>4, <2>6 DEF PreparedIsNewer
<1>3. CASE FailPublish
  <2>1. ~publisher'.busy /\ UNCHANGED <<applied, loaded, desired>>
    BY <1>3, Zenon DEF FailPublish, NoPublish
  <2> QED BY <2>1 DEF VersionInv, VersionsOrdered, PreparedIsNewer
<1> QED BY <1>1, <1>2, <1>3 DEF PublisherNext

LEMMA VersionNode == VersionInv /\ NodeNext => VersionsOrdered' /\ PreparedIsNewer'
<1> SUFFICES ASSUME VersionInv, NEW n \in Nodes,
                    \/ PublishNode(n) \/ SetNodeStatus(n)
                    \/ StartUpgrade(n) \/ FinishUpgrade(n)
                    \/ EdgeApply(n) \/ HeartbeatApplied(n)
                    \/ \E v \in loaded[n].ver + 1 .. desired[n].ver : HeartbeatRejected(n, v)
             PROVE  VersionsOrdered' /\ PreparedIsNewer'
  BY DEF NodeNext
<1>0. \A m \in Nodes : desired[m].ver \in Nat /\ loaded[m].ver \in Nat /\ applied[m] \in Nat
  BY DEF VersionInv, TypeInv, TypeOK, State
<1>1. CASE PublishNode(n)
  <2>1. UNCHANGED <<applied, loaded, publisher, round>> /\ ~publisher.busy
        /\ desired' = [desired EXCEPT ![n] = NextState(n, Rendered(pub, drain, n))]
    BY <1>1 DEF PublishNode, MutexFree
  <2>2. NextState(n, Rendered(pub, drain, n)) = desired[n]
        \/ NextState(n, Rendered(pub, drain, n)).ver > desired[n].ver
    BY NextStateRenders DEF VersionInv
  <2>3. \A m \in Nodes : desired'[m] = desired[m] \/ desired'[m].ver > desired[m].ver
    BY <2>1, <2>2 DEF VersionInv, TypeInv, TypeOK
  <2>4. NextState(n, Rendered(pub, drain, n)).ver \in Nat
    BY <1>0 DEF NextState
  <2>5. \A m \in Nodes : desired'[m].ver \in Nat
    BY <1>0, <2>1, <2>4 DEF VersionInv, TypeInv, TypeOK
  <2>6. VersionsOrdered'
    BY <1>0, <2>1, <2>3, <2>5 DEF VersionInv, VersionsOrdered
  <2> QED BY <2>1, <2>6 DEF PreparedIsNewer
<1>2. CASE SetNodeStatus(n) \/ StartUpgrade(n) \/ FinishUpgrade(n)
  BY <1>2 DEF SetNodeStatus, StartUpgrade, FinishUpgrade, VersionInv, VersionsOrdered,
              PreparedIsNewer
<1>3. CASE EdgeApply(n)
  <2>1. UNCHANGED <<applied, desired, publisher, round>>
        /\ loaded' = [loaded EXCEPT ![n] = desired[n]]
    BY <1>3 DEF EdgeApply, dbVars
  <2>2. VersionsOrdered'
    BY <1>0, <2>1 DEF VersionInv, VersionsOrdered, TypeInv, TypeOK
  <2> QED BY <2>1, <2>2 DEF VersionInv, PreparedIsNewer
<1>4. CASE HeartbeatApplied(n) \/ \E v \in loaded[n].ver + 1 .. desired[n].ver : HeartbeatRejected(n, v)
  <2>1. UNCHANGED <<loaded, desired, publisher, round>>
        /\ applied' = [applied EXCEPT ![n] = Max2(@, loaded[n].ver)]
    BY <1>4 DEF HeartbeatApplied, HeartbeatRejected
  <2>2. VersionsOrdered'
    BY <1>0, <2>1 DEF VersionInv, VersionsOrdered, TypeInv, TypeOK, Max2
  <2> QED BY <2>1, <2>2 DEF VersionInv, PreparedIsNewer
<1> QED BY <1>1, <1>2, <1>3, <1>4

LEMMA VersionReconcileDrains ==
    ASSUME VersionInv, NEW s \in Sites, ReconcileDrains(s)
    PROVE  /\ \A n \in Nodes : desired'[n] = desired[n] \/ desired'[n].ver > desired[n].ver
           /\ VersionsOrdered' /\ PreparedIsNewer'
<1> DEFINE due == DueDrains(s)
           without == [drain EXCEPT ![s] =
                         [n \in Nodes |-> IF n \in due THEN NoDrain ELSE drain[s][n]]]
           state == [n \in Nodes |-> IF n \in due
                                     THEN NextState(n, Rendered(pub, without, n))
                                     ELSE desired[n]]
<1>1. desired' \in {desired, state}
  BY DEF ReconcileDrains
<1>2. \A n \in Nodes : state[n] = desired[n] \/ state[n].ver > desired[n].ver
  BY NextStateRenders DEF VersionInv
<1>3. \A n \in Nodes : desired'[n] = desired[n] \/ desired'[n].ver > desired[n].ver
  <2> HIDE DEF state
  <2> QED BY <1>1, <1>2
<1>4. UNCHANGED <<applied, loaded, publisher>> /\ round.pc = "clean"
  BY DEF ReconcileDrains
<1>5. ~publisher.busy
  BY <1>4 DEF VersionInv, PreparedIsNewer
<1>6. TypeInv'
  BY TypeReconcileDrains DEF VersionInv
<1>7. \A n \in Nodes : /\ desired[n].ver \in Nat /\ desired'[n].ver \in Nat
                       /\ loaded[n].ver \in Nat /\ applied[n] \in Nat
  BY <1>6 DEF VersionInv, TypeInv, TypeOK, State
<1>8. VersionsOrdered'
  BY <1>3, <1>4, <1>7 DEF VersionInv, VersionsOrdered
<1> QED BY <1>3, <1>4, <1>5, <1>8 DEF PreparedIsNewer

LEMMA VersionOther ==
    ASSUME VersionInv,
           \/ EditorNext \/ Restart \/ Tick \/ UNCHANGED vars
           \/ \E s \in Sites : ExpirePublishTask(s) \/ ExpireDrainTask(s)
           \/ RoundNext /\ ~(\E s \in Sites : ReconcileDrains(s))
    PROVE  UNCHANGED <<applied, loaded, desired>> /\ VersionsOrdered' /\ PreparedIsNewer'
<1>1. UNCHANGED <<applied, loaded, desired>>
  BY DEF EditorNext, UpdateSiteRead, UpdateSiteWrite, Restart, Tick, ExpirePublishTask,
         ExpireDrainTask, RoundNext, BeginRound, ListSitePublications, CheckSite, CheckPools,
         PutRecord, DeleteRecord, ReconcileDNSFails, MarkDNSReady, BeginReconcileDrains,
         EndRound, dbVars, vars
<1>2. \/ UNCHANGED <<publisher, round>>
      \/ UNCHANGED publisher /\ (round'.pc # "clean" \/ ~publisher.busy)
      \/ ~publisher'.busy
  <2>1. CASE Restart
    BY <2>1, Zenon DEF Restart, NoPublish
  <2>2. CASE EditorNext \/ Tick \/ UNCHANGED vars
             \/ \E s \in Sites : ExpirePublishTask(s) \/ ExpireDrainTask(s)
    BY <2>2 DEF EditorNext, UpdateSiteRead, UpdateSiteWrite, Tick, ExpirePublishTask,
                ExpireDrainTask, vars
  <2>3. ASSUME RoundNext, ~(\E s \in Sites : ReconcileDrains(s))
        PROVE  UNCHANGED publisher /\ (round'.pc # "clean" \/ ~publisher.busy)
    <3>1. round \in Round /\ IdleRound.pc = "idle" /\ \A s : Skip(s).pc = "site"
      BY SkipType DEF VersionInv, TypeInv, TypeOK, IdleRound
    <3>2. CASE BeginRound \/ ListSitePublications
      <4>1. round'.pc \in {"list", "site"}
        BY <3>1, <3>2 DEF BeginRound, ListSitePublications, Round
      <4> QED BY <3>2, <4>1 DEF BeginRound, ListSitePublications
    <3>3. CASE \E s \in Sites : CheckSite(s)
      BY <3>1, <3>3 DEF CheckSite, Round
    <3>4. CASE CheckPools
      <4>1. round'.pc \in {"site", "push"}
        BY <3>1, <3>4 DEF CheckPools, Round
      <4> QED BY <3>4, <4>1 DEF CheckPools
    <3>5. CASE \E n \in Nodes : PutRecord(n) \/ DeleteRecord(n)
      BY <3>5 DEF PutRecord, DeleteRecord
    <3>6. CASE ReconcileDNSFails \/ MarkDNSReady
      BY <3>1, <3>6 DEF ReconcileDNSFails, MarkDNSReady
    <3>7. CASE BeginReconcileDrains
      BY <3>7 DEF BeginReconcileDrains
    <3>8. CASE EndRound
      BY <3>1, <3>8 DEF EndRound
    <3> QED BY <2>3, <3>2, <3>3, <3>4, <3>5, <3>6, <3>7, <3>8 DEF RoundNext
  <2> QED BY <2>1, <2>2, <2>3
<1> QED BY <1>1, <1>2 DEF VersionInv, VersionsOrdered, PreparedIsNewer

LEMMA VersionNext == VersionInv /\ [Next]_vars => VersionInv'
<1> SUFFICES ASSUME VersionInv, [Next]_vars PROVE VersionInv'
  OBVIOUS
<1>1. TypeInv'
  BY TypeNext DEF VersionInv
<1>2. VersionsOrdered' /\ PreparedIsNewer'
  BY VersionPublisher, VersionNode, VersionReconcileDrains, VersionOther DEF Next
<1> QED BY <1>1, <1>2 DEF VersionInv

LEMMA VersionInit == Init => VersionInv
<1> SUFFICES ASSUME Init PROVE VersionInv
  OBVIOUS
<1>1. ~publisher.busy
  BY Zenon DEF Init, NoPublish
<1>2. VersionsOrdered
  BY DEF Init, VersionsOrdered
<1> QED BY <1>1, <1>2, TypeInit DEF VersionInv, PreparedIsNewer

\* A publication that is being prepared is one.
LEMMA BusyPublisher ==
    ASSUME TypeInv, publisher.busy
    PROVE  /\ publisher \in Publishing
           /\ publisher.site \in Sites /\ publisher.state \in [Nodes -> State]
           /\ publisher.drains \subseteq Nodes /\ publisher.cancel \subseteq Nodes
           /\ publisher.ver \in Nat
           /\ draft[publisher.site].cfg \in Config /\ draft[publisher.site].ver \in Nat
           /\ AssignedNodeIDs(draft[publisher.site].cfg) \subseteq Nodes
<1>1. publisher \in Publishing
  BY DEF TypeInv, TypeOK, NoPublish
<1>2. /\ publisher.site \in Sites /\ publisher.state \in [Nodes -> State]
      /\ publisher.drains \subseteq Nodes /\ publisher.cancel \subseteq Nodes
      /\ publisher.ver \in Nat
  BY <1>1 DEF Publishing
<1>3. draft[publisher.site].cfg \in Config /\ draft[publisher.site].ver \in Nat
  BY <1>2 DEF TypeInv, TypeOK
<1> QED BY <1>1, <1>2, <1>3 DEF AssignedNodeIDs, Config


-----------------------------------------------------------------------------
(* Reconciliation *)

\* What a reconciliation makes of one row.
LEMMA SettledRowCases ==
    ASSUME NEW row \in Row, NEW running, NEW ap, NEW late, NEW n \in Nodes,
           SettledRow(row, running, ap, late)[n] # row[n]
    PROVE  /\ row[n] \in Drain
           /\ \/ /\ row[n].claim = "pending" /\ ap[n] >= row[n].target
                 /\ SettledRow(row, running, ap, late)[n] = [row[n] EXCEPT !.claim = "done"]
              \/ /\ row[n].claim = "pending"
                 /\ SettledRow(row, running, ap, late)[n] = [row[n] EXCEPT !.claim = "failed"]
              \/ /\ row[n].claim # "none"
                 /\ SettledRow(row, running, ap, late)[n] \in Drain
                 /\ SettledRow(row, running, ap, late)[n].claim = "none"
                 /\ SettledRow(row, running, ap, late)[n].ready = row[n].ready
                 /\ SettledRow(row, running, ap, late)[n].left = row[n].left
                 /\ SettledRow(row, running, ap, late)[n].cfg = row[n].cfg
              \/ /\ SettledRow(row, running, ap, late)[n] = NoDrain
                 /\ \/ row[n].claim \in {"done", "untracked"}
                    \/ row[n].claim = "pending" /\ ap[n] >= row[n].target
<1> DEFINE d == row[n]
           seen == ConfirmedRow(row, ap, late)
           e == seen[n]
           out == SettledRow(row, running, ap, late)[n]
           closed == DrainTaskClosed(row, running, ap, late)
           won == \A m \in Nodes : Claimed(seen[m]) => seen[m].claim # "failed"
<1>1. d \in Drain \cup {NoDrain}
  BY DEF Row
<1>2. \/ e = d
      \/ d \in Drain /\ d.claim = "pending" /\ ap[n] >= d.target /\ e = [d EXCEPT !.claim = "done"]
      \/ d \in Drain /\ d.claim = "pending" /\ e = [d EXCEPT !.claim = "failed"]
  BY <1>1 DEF ConfirmedRow, Claimed
<1>3. out = IF e = NoDrain \/ e.claim = "none" THEN e
            ELSE IF ~e.orphan /\ ~closed THEN e
            ELSE IF e.claim = "done" \/ (~e.orphan /\ won) THEN NoDrain
            ELSE Release(e)
  BY Zenon DEF SettledRow
<1>4. closed => (Claimed(e) => e.claim # "pending")
  BY DEF DrainTaskClosed
<1>5. won => (Claimed(e) => e.claim # "failed")
  OBVIOUS
<1> HIDE DEF seen, closed, won
<1>6. d # NoDrain
  <2>1. d = NoDrain => e = NoDrain
    BY <1>1, <1>2, ConfigAssumption
  <2> HIDE DEF d, e, out
  <2>2. d = NoDrain => out = d
    BY <2>1, <1>3
  <2> QED BY <2>2 DEF out, d
<1>7. d \in Drain /\ e \in Drain
  BY <1>1, <1>2, <1>6 DEF Drain
<1>8. e # NoDrain
  BY <1>7, ConfigAssumption
<1>9. e.ready = d.ready /\ e.left = d.left /\ e.cfg = d.cfg
      /\ (e.claim = d.claim \/ (d.claim = "pending" /\ e.claim \in {"done", "failed"}))
      /\ (e.claim = "done" => d.claim = "done" \/ (d.claim = "pending" /\ ap[n] >= d.target))
  BY <1>2, <1>7 DEF Drain
<1>10. /\ Release(e) \in Drain /\ Release(e).claim = "none" /\ Release(e).ready = e.ready
       /\ Release(e).left = e.left /\ Release(e).cfg = e.cfg
  BY <1>7, ReleaseType DEF Release, Drain
<1>11. e.claim \in {"none", "pending", "done", "failed", "untracked"} /\ e.orphan \in BOOLEAN
  BY <1>7 DEF Drain
<1>12. Claimed(e) <=> e.claim # "none" /\ ~e.orphan
  BY <1>8 DEF Claimed
<1>13. out # d
  OBVIOUS
<1> HIDE DEF d, e, out
<1>14. CASE out = e
  BY <1>2, <1>7, <1>13, <1>14 DEF d, out
<1>15. CASE out # e /\ out = NoDrain
  <2>1. e.claim \in {"done", "untracked"}
    BY <1>3, <1>4, <1>5, <1>8, <1>10, <1>11, <1>12, <1>15, ConfigAssumption
  <2> QED BY <1>7, <1>9, <1>15, <2>1 DEF d, out
<1>16. CASE out # e /\ out = Release(e)
  <2>1. e.claim # "none"
    BY <1>3, <1>16
  <2>2. d.claim # "none"
    BY <1>9, <2>1
  <2> QED BY <1>7, <1>9, <1>10, <1>16, <2>2 DEF d, out
<1> QED BY <1>3, <1>14, <1>15, <1>16

\* Rows may only be settled: they keep what traffic needs, or they end when the
\* edge has dropped the site.
RowSettles(s, n, old, new) ==
    \/ new = old
    \/ /\ old # NoDrain /\ new # NoDrain
       /\ new.ready = old.ready /\ new.cfg = old.cfg
       /\ old.claim # "none"
       /\ RowHolds(s, n, new)
       /\ new.claim = "none" => cache[s][n] = 0
    \/ /\ old # NoDrain /\ new = NoDrain
       /\ old.ready /\ dns[s][n] = 0 /\ cache[s][n] = 0 /\ ~Serves(loaded[n], s)

\* The two ways in which a reconciliation changes a claimed row that holds.
LEMMA ClaimSettles ==
    ASSUME TypeInv, NEW s \in Sites, NEW n \in Nodes, NEW d \in Drain, RowHolds(s, n, d),
           NEW c \in {"done", "failed"}, d.claim # "none",
           c = "done" => loaded[n].body[s] = NoBody
    PROVE  RowSettles(s, n, d, [d EXCEPT !.claim = c])
<1> DEFINE e == [d EXCEPT !.claim = c]
<1>1. e \in Drain /\ e.ready = d.ready /\ e.cfg = d.cfg /\ e.left = d.left /\ e.claim = c
  BY DEF Drain
<1>2. d # NoDrain /\ e # NoDrain
  BY <1>1, ConfigAssumption
<1>3. RowHolds(s, n, e)
  <2> HIDE DEF e
  <2> QED BY <1>1 DEF RowHolds, ServesRow
<1> HIDE DEF e
<1>4. RowSettles(s, n, d, e)
  BY <1>1, <1>2, <1>3 DEF RowSettles
<1> QED BY <1>4 DEF e

LEMMA SettledRowSettles ==
    ASSUME TypeInv, NEW s \in Sites, NEW n \in Nodes, NEW row \in Row, NEW running, NEW ap, NEW late,
           row[n] # NoDrain => RowHolds(s, n, row[n]),
           ap \in [Nodes -> Nat], ap[n] =< loaded[n].ver
    PROVE  RowSettles(s, n, row[n], SettledRow(row, running, ap, late)[n])
<1> DEFINE d == row[n]
           out == SettledRow(row, running, ap, late)[n]
<1>1. CASE out = d
  BY <1>1 DEF RowSettles
<1>2. CASE out # d
  <2>1. /\ d \in Drain
        /\ \/ d.claim = "pending" /\ ap[n] >= d.target /\ out = [d EXCEPT !.claim = "done"]
           \/ d.claim = "pending" /\ out = [d EXCEPT !.claim = "failed"]
           \/ /\ d.claim # "none" /\ out \in Drain /\ out.claim = "none"
              /\ out.ready = d.ready /\ out.left = d.left /\ out.cfg = d.cfg
           \/ /\ out = NoDrain
              /\ d.claim \in {"done", "untracked"} \/ (d.claim = "pending" /\ ap[n] >= d.target)
    BY <1>2, SettledRowCases
  <2>2. d # NoDrain /\ RowHolds(s, n, d)
    BY <2>1, ConfigAssumption
  <2>3. /\ ap[n] \in Nat /\ d.target \in Nat /\ loaded[n].ver \in Nat
        /\ cache[s][n] \in Nat /\ d.left \in Nat
    BY <2>1, TimeAssumption DEF TypeInv, TypeOK, State, Drain
  <2>4. d.claim = "pending" /\ ap[n] >= d.target => loaded[n].body[s] = NoBody
    BY <2>2, <2>3 DEF RowHolds
  <2>5. d.claim # "none" => d.ready /\ d.left = 0 /\ dns[s][n] = 0 /\ cache[s][n] = 0
    BY <2>2, <2>3 DEF RowHolds
  <2> SUFFICES RowSettles(s, n, d, out)
    OBVIOUS
  <2> HIDE DEF d, out
  <2>6. CASE d.claim = "pending" /\ ap[n] >= d.target /\ out = [d EXCEPT !.claim = "done"]
    BY <2>1, <2>2, <2>4, <2>6, ClaimSettles
  <2>7. CASE d.claim = "pending" /\ out = [d EXCEPT !.claim = "failed"]
    BY <2>1, <2>2, <2>7, ClaimSettles
  <2>8. CASE d.claim # "none" /\ out \in Drain /\ out.claim = "none"
             /\ out.ready = d.ready /\ out.left = d.left /\ out.cfg = d.cfg
    <3>1. out # NoDrain
      BY <2>8, ConfigAssumption
    <3>2. RowHolds(s, n, out)
      BY <2>2, <2>5, <2>8 DEF RowHolds, ServesRow
    <3> QED BY <2>2, <2>5, <2>8, <3>1, <3>2 DEF RowSettles
  <2>9. CASE out = NoDrain
             /\ (d.claim \in {"done", "untracked"} \/ (d.claim = "pending" /\ ap[n] >= d.target))
    <3>1. loaded[n].body[s] = NoBody
      BY <2>2, <2>4, <2>9 DEF RowHolds
    <3> QED BY <2>2, <2>5, <2>9, <3>1 DEF RowSettles, Serves
  <2> QED BY <2>1, <2>6, <2>7, <2>8, <2>9
<1> QED BY <1>1, <1>2

\* A failed report, and then the reconciliation.
LEMMA FailedRowSettles ==
    ASSUME TypeInv, NEW s \in Sites, NEW n \in Nodes, NEW m \in Nodes, NEW row \in Row, NEW v,
           row[m] # NoDrain => RowHolds(s, m, row[m])
    PROVE  RowSettles(s, m, row[m], FailedRow(row, n, v)[m])
<1>1. CASE FailedRow(row, n, v)[m] = row[m]
  BY <1>1 DEF RowSettles
<1>2. CASE FailedRow(row, n, v)[m] # row[m]
  <2>1. /\ Claimed(row[m]) /\ row[m].claim = "pending"
        /\ FailedRow(row, n, v)[m] = [row[m] EXCEPT !.claim = "failed"]
    BY <1>2 DEF FailedRow, Row
  <2>2. row[m] \in Drain /\ row[m] # NoDrain
    BY <2>1 DEF Row, Claimed
  <2>3. RowHolds(s, m, row[m]) /\ row[m].claim # "none"
    BY <2>1, <2>2
  <2> QED BY <2>1, <2>2, <2>3, ClaimSettles, ZenonT(30)
<1> QED BY <1>1, <1>2

LEMMA RowSettlesTwice ==
    ASSUME NEW s \in Sites, NEW n \in Nodes, NEW d, NEW e, NEW f,
           RowSettles(s, n, d, e), RowSettles(s, n, e, f)
    PROVE  RowSettles(s, n, d, f)
BY DEF RowSettles

RowsSettle == \A s \in Sites, n \in Nodes : RowSettles(s, n, drain[s][n], drain'[s][n])

LEMMA RowAfterSettling ==
    ASSUME NEW s \in Sites, NEW n \in Nodes, NEW d, NEW e,
           RowSettles(s, n, d, e), d # NoDrain => RowHolds(s, n, d)
    PROVE  /\ e # NoDrain => d # NoDrain /\ RowHolds(s, n, e) /\ e.ready = d.ready
           /\ d # NoDrain /\ e = NoDrain => ~Reachable(s, n) /\ d.ready /\ ~Serves(loaded[n], s)
           /\ \A body : /\ e # NoDrain /\ ServesRow(d, cache[s][n], body)
                        => ServesRow(e, cache[s][n], body)
<1>1. CASE e = d
  BY <1>1
<1>2. CASE e # d
  BY <1>2 DEF RowSettles, RowHolds, ServesRow, Reachable
<1> QED BY <1>1, <1>2

\* Any step that only settles rows keeps the invariant.
LEMMA SettleKeepsRows ==
    ASSUME CutoverInv, RowsSettle, UNCHANGED <<pub, desired, loaded, dns, cache>>
    PROVE  /\ RowsHold' /\ ReachableNodesKept' /\ PublicationMatchesStates'
           /\ \A s \in Sites, n \in Nodes : StillServed(s, n) => StillServed(s, n)'
<1>1. \A s \in Sites, n \in Nodes :
          /\ drain'[s][n] # NoDrain => /\ drain[s][n] # NoDrain
                                       /\ RowHolds(s, n, drain'[s][n])
                                       /\ drain'[s][n].ready = drain[s][n].ready
          /\ drain[s][n] # NoDrain /\ drain'[s][n] = NoDrain => ~Reachable(s, n) /\ drain[s][n].ready
  BY RowAfterSettling DEF CutoverInv, RowsHold, RowsSettle
<1>2. RowsHold'
  BY <1>1 DEF RowsHold, RowHolds, ServesRow
<1>3. ReachableNodesKept'
  BY <1>1 DEF CutoverInv, ReachableNodesKept, Reachable, Serves
<1>4. PublicationMatchesStates'
  BY DEF CutoverInv, PublicationMatchesStates
<1>5. \A s \in Sites, n \in Nodes : StillServed(s, n) => StillServed(s, n)'
  BY <1>1 DEF StillServed
<1> QED BY <1>2, <1>3, <1>4, <1>5

LEMMA SettleKeepsPrepared ==
    ASSUME CutoverInv, RowsSettle, UNCHANGED <<draft, pub, cache, publisher>>
    PROVE  PreparedHolds'
<1> SUFFICES ASSUME publisher.busy
             PROVE  PreparedKeeps(publisher)' /\ PreparedMatchesDraft(publisher)'
  BY DEF PreparedHolds
<1>1. PreparedKeeps(publisher) /\ PreparedMatchesDraft(publisher)
  BY DEF CutoverInv, PreparedHolds
<1>2. publisher \in Publishing /\ publisher.site \in Sites /\ publisher.drains \subseteq Nodes
  BY BusyPublisher DEF CutoverInv, VersionInv
<1>3. \A s \in Sites, n \in Nodes :
          /\ drain'[s][n] # NoDrain => drain[s][n] # NoDrain
          /\ \A body : drain'[s][n] # NoDrain /\ ServesRow(drain[s][n], cache[s][n], body)
                       => ServesRow(drain'[s][n], cache[s][n], body)
  BY RowAfterSettling DEF CutoverInv, RowsHold, RowsSettle
<1>4. PreparedKeeps(publisher)'
  BY <1>1, <1>2, <1>3 DEF PreparedKeeps
<1>5. AssignedNodeIDs(draft[publisher.site].cfg) \subseteq Nodes
  BY BusyPublisher DEF CutoverInv, VersionInv
<1>6. PreparedMatchesDraft(publisher)'
  BY <1>1, <1>2, <1>3, <1>5 DEF PreparedMatchesDraft, DraftUnchanged
<1> QED BY <1>4, <1>6

LEMMA SettleStep ==
    ASSUME CutoverInv, VersionInv', RowsSettle,
           UNCHANGED <<draft, editor, pub, desired, publisher, loaded, dns, cache>>,
           \A n \in Nodes : applied[n] =< applied'[n],
           \/ round' = round
           \/ /\ round'.pc \notin {"pool", "push"} /\ round'.pubs = round.pubs
              /\ \A n \in Nodes : round'.applied[n] =< applied'[n]
    PROVE  CutoverInv'
<1>1. /\ RowsHold' /\ ReachableNodesKept' /\ PublicationMatchesStates'
      /\ \A s \in Sites, n \in Nodes : StillServed(s, n) => StillServed(s, n)'
  BY SettleKeepsRows
<1>2. PreparedHolds'
  BY SettleKeepsPrepared
<1>3. EditorReadsCurrent'
  BY DEF CutoverInv, EditorReadsCurrent
<1>4. \A n \in Nodes : applied[n] \in Nat /\ applied'[n] \in Nat /\ round.applied[n] \in Nat
  BY DEF CutoverInv, VersionInv, TypeInv, TypeOK, Round
<1>5. \A n \in Nodes : round'.applied[n] =< applied'[n]
  BY <1>4 DEF CutoverInv, RoundHolds
<1>6. \A s \in Sites :
           /\ Generation(round'.pubs[s]) =< Generation(pub'[s])
           /\ round'.pubs[s] # NoPub /\ SitePublicationCurrent(s)' => round'.pubs[s].cfg = pub'[s].cfg
  BY DEF CutoverInv, RoundHolds, SitePublicationCurrent
<1>7. round.site \in Sites /\ \A n \in Assigned(round.pubs[round.site]) : n \in Nodes
  <2>1. round.site \in Sites /\ round.pubs[round.site] \in Publication \cup {NoPub}
    BY DEF CutoverInv, VersionInv, TypeInv, TypeOK, Round
  <2> QED BY <2>1 DEF Assigned, Publication, Config
<1>8. RoundHolds'
  <2>1. CASE round' = round
    BY <1>1, <1>5, <1>6, <1>7, <2>1 DEF CutoverInv, RoundHolds
  <2>2. CASE round'.pc \notin {"pool", "push"}
    BY <1>5, <1>6, <2>2 DEF RoundHolds
  <2> QED BY <2>1, <2>2
<1>9. WantedHold'
  BY DEF CutoverInv, WantedHold, SitePublicationCurrent
<1> QED BY <1>1, <1>2, <1>3, <1>8, <1>9 DEF CutoverInv

LEMMA ReconcileSettles ==
    ASSUME CutoverInv, NEW pt, NEW dr \in [Sites -> Row], NEW dt, NEW ap \in [Nodes -> Nat],
           NEW lateP, NEW lateD,
           \A n \in Nodes : ap[n] =< loaded[n].ver,
           \A s \in Sites, n \in Nodes : RowSettles(s, n, drain[s][n], dr[s][n]),
           ReconcilePublishTasks(pt, dr, dt, ap, lateP, lateD)
    PROVE  RowsSettle
<1> SUFFICES ASSUME NEW s \in Sites, NEW n \in Nodes
             PROVE  RowSettles(s, n, drain[s][n], drain'[s][n])
  BY DEF RowsSettle
<1>1. drain'[s] = SettledRow(dr[s], dt[s], ap, s \in lateD)
  BY DEF ReconcilePublishTasks
<1>2. RowSettles(s, n, drain[s][n], dr[s][n])
  OBVIOUS
<1>3. dr[s] \in Row /\ (dr[s][n] # NoDrain => RowHolds(s, n, dr[s][n]))
  BY <1>2, RowAfterSettling DEF CutoverInv, RowsHold
<1>4. RowSettles(s, n, dr[s][n], drain'[s][n])
  BY <1>1, <1>3, SettledRowSettles DEF CutoverInv, VersionInv
<1> QED BY <1>2, <1>4, RowSettlesTwice

LEMMA NothingSettles ==
    ASSUME NEW s \in Sites, NEW n \in Nodes PROVE RowSettles(s, n, drain[s][n], drain[s][n])
BY DEF RowSettles

\* Every reconciliation only settles rows: that of a round, of a deadline, of a
\* heartbeat and of a publication.
LEMMA ReconcilingSettles ==
    ASSUME CutoverInv, NEW lateP, NEW lateD, NEW pt,
           ReconcilePublishTasks(pt, drain, dtask, applied, lateP, lateD)
    PROVE  RowsSettle
<1>1. drain \in [Sites -> Row] /\ applied \in [Nodes -> Nat]
      /\ \A n \in Nodes : applied[n] =< loaded[n].ver
  BY DEF CutoverInv, VersionInv, VersionsOrdered, TypeInv, TypeOK
<1> QED BY <1>1, ReconcileSettles, NothingSettles

LEMMA HeartbeatSettles ==
    ASSUME CutoverInv, NEW n \in Nodes,
           \/ HeartbeatApplied(n)
           \/ \E v \in loaded[n].ver + 1 .. desired[n].ver : HeartbeatRejected(n, v)
    PROVE  RowsSettle /\ \A m \in Nodes : applied[m] =< applied'[m]
<1> DEFINE ap == [applied EXCEPT ![n] = Max2(@, loaded[n].ver)]
<1>1. applied' = ap
  BY DEF HeartbeatApplied, HeartbeatRejected
<1>2. /\ drain \in [Sites -> Row] /\ ap \in [Nodes -> Nat]
      /\ \A m \in Nodes : ap[m] =< loaded[m].ver /\ applied[m] =< ap[m]
  <2>1. \A m \in Nodes : loaded[m].ver \in Nat /\ applied[m] \in Nat /\ applied[m] =< loaded[m].ver
    BY DEF CutoverInv, VersionInv, VersionsOrdered, TypeInv, TypeOK, State
  <2> QED BY <2>1 DEF Max2, CutoverInv, VersionInv, TypeInv, TypeOK
<1>3. RowsSettle
  <2>1. CASE HeartbeatApplied(n)
    <3>1. ReconcilePublishTasks(ptask, drain, dtask, ap, {}, {})
      BY <2>1 DEF HeartbeatApplied
    <3> HIDE DEF ap
    <3> QED BY <1>2, <3>1, ReconcileSettles, NothingSettles
  <2>2. ASSUME NEW v \in loaded[n].ver + 1 .. desired[n].ver, HeartbeatRejected(n, v)
        PROVE  RowsSettle
    <3> DEFINE pt == [s \in Sites |-> FailedTask(ptask[s], n, v)]
               dr == [s \in Sites |-> FailedRow(drain[s], n, v)]
    <3>1. ReconcilePublishTasks(pt, dr, dtask, ap, {}, {})
      BY <2>2 DEF HeartbeatRejected
    <3>2. dr \in [Sites -> Row]
      BY <1>2, FailedRowType
    <3>3. \A s \in Sites, m \in Nodes : RowSettles(s, m, drain[s][m], dr[s][m])
      BY <1>2, FailedRowSettles DEF CutoverInv, VersionInv, RowsHold
    <3> HIDE DEF ap, pt, dr
    <3> QED BY <1>2, <3>1, <3>2, <3>3, ReconcileSettles
  <2> QED BY <2>1, <2>2
<1> QED BY <1>1, <1>2, <1>3

LEMMA CutoverBeginRound == ASSUME CutoverInv, VersionInv', BeginRound PROVE CutoverInv'
<1>1. UNCHANGED <<draft, editor, pub, desired, applied, publisher, loaded, dns, cache>>
  BY DEF BeginRound, dnsVars
<1>2. round'.pc = "list" /\ round'.pubs = round.pubs /\ round'.applied = applied
  BY DEF BeginRound, CutoverInv, VersionInv, TypeInv, TypeOK, Round
<1>3. \A n \in Nodes : applied[n] =< applied[n]
  BY DEF CutoverInv, VersionInv, TypeInv, TypeOK
<1>4. RowsSettle
  BY ReconcilingSettles DEF BeginRound
<1> QED BY <1>1, <1>2, <1>3, <1>4, SettleStep

LEMMA CutoverExpire ==
    ASSUME CutoverInv, VersionInv', NEW s \in Sites, ExpirePublishTask(s) \/ ExpireDrainTask(s)
    PROVE  CutoverInv'
<1>1. UNCHANGED <<draft, editor, pub, desired, applied, publisher, loaded, dns, cache, round>>
  BY DEF ExpirePublishTask, ExpireDrainTask, dnsVars
<1>2. \A n \in Nodes : applied[n] =< applied[n]
  BY DEF CutoverInv, VersionInv, TypeInv, TypeOK
<1>3. RowsSettle
  BY ReconcilingSettles DEF ExpirePublishTask, ExpireDrainTask
<1> QED BY <1>1, <1>2, <1>3, SettleStep

LEMMA CutoverHeartbeat ==
    ASSUME CutoverInv, VersionInv', NEW n \in Nodes,
           \/ HeartbeatApplied(n)
           \/ \E v \in loaded[n].ver + 1 .. desired[n].ver : HeartbeatRejected(n, v)
    PROVE  CutoverInv'
<1>1. UNCHANGED <<draft, editor, pub, desired, publisher, loaded, dns, cache, round>>
  BY DEF HeartbeatApplied, HeartbeatRejected, dnsVars
<1> QED BY <1>1, HeartbeatSettles, SettleStep

-----------------------------------------------------------------------------
(* Publication *)

\* What the nodes of a new publication are made to serve for each site.
LEMMA RenderedBodies ==
    ASSUME TypeInv, NEW s \in Sites, NEW ttl \in TTL, NEW n \in Nodes, NEW t \in Sites
    PROVE  LET body == Rendered(RenderedPubs(s), RenderedRows(s, ttl), n)[t]
               row == SettledRows[t][n]
           IN  /\ t # s /\ n \in Assigned(pub[t]) => body = pub[t].cfg.body
               /\ t # s /\ n \notin Assigned(pub[t]) /\ row # NoDrain
                  => body = (IF row.claim = "none" THEN row.cfg.body ELSE NoBody)
               /\ t = s /\ n \in AssignedNodeIDs(draft[s].cfg) => body = draft[s].cfg.body
               /\ t = s /\ n \notin AssignedNodeIDs(draft[s].cfg) /\ row # NoDrain
                  => body = (IF row.claim = "none" THEN row.cfg.body ELSE NoBody)
               /\ t = s /\ n \in DroppedNodes(s, SettledRows[s]) => body = pub[s].cfg.body
<1> DEFINE body == Rendered(RenderedPubs(s), RenderedRows(s, ttl), n)[t]
           row == SettledRows[t][n]
           p == RenderedPubs(s)[t]
           d == RenderedRows(s, ttl)[t][n]
<1>1. body = IF n \in Assigned(p) THEN p.cfg.body
             ELSE IF d # NoDrain /\ d.claim = "none" THEN d.cfg.body ELSE NoBody
  BY DEF Rendered
<1>2. CASE t # s
  <2>1. p = pub[t] /\ d = row
    BY <1>2 DEF RenderedPubs, RenderedRows, TypeInv, TypeOK
  <2> HIDE DEF body, row, p, d
  <2> QED BY <1>1, <1>2, <2>1 DEF body, row
<1>3. CASE t = s
  <2>1. draft[s].cfg \in Config /\ pub[s] \in Publication \cup {NoPub}
    BY DEF TypeInv, TypeOK
  <2>2. p = [cfg |-> draft[s].cfg, seq |-> 0, ttl |-> 0]
    BY <1>3 DEF RenderedPubs, TypeInv, TypeOK
  <2>3. p \in Publication /\ p.cfg = draft[s].cfg
    BY <2>1, <2>2 DEF Publication
  <2>4. Assigned(p) = AssignedNodeIDs(draft[s].cfg)
    BY <2>3, ConfigAssumption DEF Assigned, AssignedNodeIDs
  <2>5. d = PreparedRow(s, SettledRows[s], ttl)[n]
    BY <1>3 DEF RenderedRows
  <2>6. d = IF n \in AssignedNodeIDs(draft[s].cfg) THEN NoDrain
            ELSE IF n \in DroppedNodes(s, SettledRows[s]) THEN NewDrain(pub[s], ttl)
            ELSE row
    BY <1>3, <2>5 DEF PreparedRow
  <2>7. n \in DroppedNodes(s, SettledRows[s])
        => /\ n \notin AssignedNodeIDs(draft[s].cfg) /\ row = NoDrain
           /\ pub[s] \in Publication
    BY <1>3, <2>1 DEF DroppedNodes, Draining, Assigned
  <2>8. pub[s] \in Publication
        => /\ NewDrain(pub[s], ttl) # NoDrain
           /\ NewDrain(pub[s], ttl).claim = "none" /\ NewDrain(pub[s], ttl).cfg = pub[s].cfg
    BY NewDrainType, ConfigAssumption DEF NewDrain
  <2> HIDE DEF body, row, p, d
  <2> QED BY <1>1, <1>3, <2>3, <2>4, <2>6, <2>7, <2>8 DEF body, row
<1> HIDE DEF body, row
<1>4. QED
  BY <1>2, <1>3

LEMMA CutoverBeginPublish ==
    ASSUME CutoverInv, VersionInv', NEW s \in Sites, BeginPublish(s)
    PROVE  CutoverInv'
<1>0. TypeInv
  BY DEF CutoverInv, VersionInv
<1>1. /\ publisher'.busy /\ publisher'.site = s /\ publisher'.ver = draft[s].ver
      /\ publisher'.drains = DroppedNodes(s, SettledRows[s])
      /\ publisher'.cancel = AssignedNodeIDs(draft[s].cfg) \cap Draining(SettledRows[s])
      /\ drain' = SettledRows
      /\ \A n \in Nodes \ Affected(s) : publisher'.state[n] = desired[n]
  BY <1>0, BeginPublishRenders
<1>2. UNCHANGED <<draft, editor, pub, desired, applied, loaded, dns, cache, round>>
  BY DEF BeginPublish, dnsVars
<1>3. PICK ttl \in TTL : \A n \in Affected(s) : n \in Nodes =>
          publisher'.state[n] = NextState(n, Rendered(RenderedPubs(s), RenderedRows(s, ttl), n))
  BY <1>0, BeginPublishRenders
<1>4. \A n \in Nodes, t \in Sites :
          n \in Affected(s) =>
          publisher'.state[n].body[t] = Rendered(RenderedPubs(s), RenderedRows(s, ttl), n)[t]
  BY <1>0, <1>3, NextStateRenders
<1>5. RowsSettle
  BY ReconcilingSettles DEF BeginPublish
<1>6. RowsHold' /\ ReachableNodesKept' /\ PublicationMatchesStates'
      /\ \A t \in Sites, n \in Nodes : StillServed(t, n) => StillServed(t, n)'
  BY <1>2, <1>5, SettleKeepsRows
<1>7. \A t \in Sites, n \in Nodes :
          drain'[t][n] # NoDrain => /\ n \notin Assigned(pub[t])
                                    /\ ServesRow(drain'[t][n], cache[t][n], desired[n].body[t])
  BY <1>2, <1>6 DEF RowsHold, RowHolds
<1>8. \A t \in Sites : Assigned(pub[t]) \subseteq Nodes
  <2>1. \A t \in Sites : pub[t] \in Publication \cup {NoPub}
    BY <1>0 DEF TypeInv, TypeOK
  <2> QED BY <2>1 DEF Assigned, Publication, Config
<1>9. AssignedNodeIDs(draft[s].cfg) \subseteq Nodes
  <2>1. draft[s].cfg \in Config
    BY <1>0 DEF TypeInv, TypeOK
  <2> QED BY <2>1 DEF AssignedNodeIDs, Config
<1>10. PreparedKeeps(publisher)'
  <2>1. ASSUME NEW t \in Sites \ {s}, NEW n \in Assigned(pub[t])
        PROVE  publisher'.state[n].body[t] = pub[t].cfg.body
    <3>1. n \in Nodes
      BY <1>8
    <3>2. CASE n \in Affected(s)
      BY <1>0, <1>4, <2>1, <3>1, <3>2, RenderedBodies
    <3>3. CASE n \notin Affected(s)
      <4>1. desired[n].body[t] = pub[t].cfg.body
        BY <2>1 DEF CutoverInv, PublicationMatchesStates
      <4> QED BY <1>1, <3>1, <3>3, <4>1
    <3> QED BY <3>2, <3>3
  <2>2. ASSUME NEW t \in Sites, NEW n \in Nodes, drain'[t][n] # NoDrain,
               ~(t = s /\ n \in publisher'.cancel)
        PROVE  ServesRow(drain'[t][n], cache[t][n], publisher'.state[n].body[t])
    <3>1. n \notin Assigned(pub[t]) /\ SettledRows[t][n] # NoDrain
          /\ (t = s => n \notin AssignedNodeIDs(draft[s].cfg))
      BY <1>1, <1>7, <2>2 DEF Draining
    <3>2. CASE n \in Affected(s)
      <4>1. publisher'.state[n].body[t]
              = (IF drain'[t][n].claim = "none" THEN drain'[t][n].cfg.body ELSE NoBody)
        BY <1>0, <1>1, <1>4, <3>1, <3>2, RenderedBodies
      <4> QED BY <4>1 DEF ServesRow
    <3>3. CASE n \notin Affected(s)
      BY <1>1, <1>7, <2>2, <3>3
    <3> QED BY <3>2, <3>3
  <2> QED BY <1>1, <1>2, <2>1, <2>2 DEF PreparedKeeps
<1>11. PreparedMatchesDraft(publisher)'
  <2>1. publisher'.drains = Assigned(pub[s]) \ AssignedNodeIDs(draft[s].cfg)
    BY <1>1, <1>7, <1>8 DEF DroppedNodes, Draining
  <2>2. \A n \in publisher'.drains : publisher'.state[n].body[s] = pub[s].cfg.body
    <3> TAKE n \in publisher'.drains
    <3>1. n \in Nodes /\ n \in Affected(s) /\ n \in DroppedNodes(s, SettledRows[s])
      BY <1>1, <1>8, <2>1 DEF Affected
    <3> QED BY <1>0, <1>4, <3>1, RenderedBodies
  <2>3. \A n \in AssignedNodeIDs(draft[s].cfg) :
            /\ publisher'.state[n].body[s] = draft[s].cfg.body
            /\ drain'[s][n] # NoDrain => n \in publisher'.cancel
    <3> TAKE n \in AssignedNodeIDs(draft[s].cfg)
    <3>1. n \in Nodes /\ n \in Affected(s)
      BY <1>9 DEF Affected
    <3>2. publisher'.state[n].body[s] = draft[s].cfg.body
      BY <1>0, <1>4, <3>1, RenderedBodies
    <3>3. drain'[s][n] # NoDrain => n \in publisher'.cancel
      BY <1>1, <3>1 DEF Draining
    <3> QED BY <3>2, <3>3
  <2>4. draft[s].ver \in Nat
    BY <1>0 DEF TypeInv, TypeOK
  <2> QED BY <1>1, <1>2, <2>1, <2>2, <2>3, <2>4 DEF PreparedMatchesDraft
<1>12. PreparedHolds'
  BY <1>10, <1>11 DEF PreparedHolds
<1>13. RoundHolds' /\ WantedHold' /\ EditorReadsCurrent'
  <2>1. round.site \in Sites /\ \A n \in Assigned(round.pubs[round.site]) : n \in Nodes
    <3>1. round.site \in Sites /\ round.pubs[round.site] \in Publication \cup {NoPub}
      BY <1>0 DEF TypeInv, TypeOK, Round
    <3> QED BY <3>1 DEF Assigned, Publication, Config
  <2>2. RoundHolds'
    BY <1>2, <1>6, <2>1 DEF CutoverInv, RoundHolds, SitePublicationCurrent
  <2>3. WantedHold' /\ EditorReadsCurrent'
    BY <1>2 DEF CutoverInv, WantedHold, EditorReadsCurrent, SitePublicationCurrent
  <2> QED BY <2>2, <2>3
<1> QED BY <1>6, <1>12, <1>13 DEF CutoverInv

LEMMA CutoverCommitPublish ==
    ASSUME CutoverInv, VersionInv', CommitPublish
    PROVE  /\ CutoverInv'
           /\ \A t \in Sites, n \in Nodes :
                 drain[t][n] # NoDrain /\ drain'[t][n] = NoDrain => n \in Assigned(pub'[t])
<1> DEFINE p == publisher
           s == publisher.site
           assigned == AssignedNodeIDs(draft[s].cfg)
<1>0. TypeInv /\ publisher.busy /\ DraftUnchanged(publisher)
  BY DEF CutoverInv, VersionInv, CommitPublish
<1>1. /\ desired' = p.state
      /\ pub' = [pub EXCEPT ![s] = [cfg |-> draft[s].cfg, seq |-> Generation(pub[s]) + 1,
                                    ttl |-> IF pub[s] = NoPub THEN 0 ELSE pub[s].ttl]]
      /\ drain' = [drain EXCEPT ![s] = CommittedRow(p)]
      /\ publisher' = NoPublish
      /\ UNCHANGED <<draft, editor, applied, loaded, dns, cache, round>>
  BY DEF CommitPublish, dnsVars
<1>2. /\ p \in Publishing /\ s \in Sites /\ p.state \in [Nodes -> State]
      /\ p.drains \subseteq Nodes /\ p.cancel \subseteq Nodes
      /\ draft[s].cfg \in Config /\ assigned \subseteq Nodes
  BY <1>0, BusyPublisher
<1>3. PreparedKeeps(p) /\ PreparedMatchesDraft(p)
  BY <1>0 DEF CutoverInv, PreparedHolds
<1>4. /\ \A n \in assigned : /\ p.state[n].body[s] = draft[s].cfg.body
                             /\ drain[s][n] # NoDrain => n \in p.cancel
      /\ p.cancel \subseteq assigned
      /\ p.drains = Assigned(pub[s]) \ assigned
      /\ \A n \in p.drains : p.state[n].body[s] = pub[s].cfg.body
  BY <1>0, <1>3 DEF PreparedMatchesDraft
<1>5. pub[s] \in Publication \cup {NoPub} /\ Generation(pub[s]) \in Nat
  BY <1>0, <1>2 DEF TypeInv, TypeOK, Generation, Publication
<1>6. /\ pub'[s] \in Publication /\ pub'[s].cfg = draft[s].cfg
      /\ pub'[s].seq = Generation(pub[s]) + 1
      /\ pub'[s] # NoPub
      /\ \A t \in Sites \ {s} : pub'[t] = pub[t]
  <2>1. pub'[s] = [cfg |-> draft[s].cfg, seq |-> Generation(pub[s]) + 1,
                   ttl |-> IF pub[s] = NoPub THEN 0 ELSE pub[s].ttl]
        /\ \A t \in Sites \ {s} : pub'[t] = pub[t]
    BY <1>0, <1>1, <1>2 DEF TypeInv, TypeOK
  <2>2. (IF pub[s] = NoPub THEN 0 ELSE pub[s].ttl) \in TTLs \cup {0}
    BY <1>5 DEF Publication
  <2>3. pub'[s] \in Publication
    BY <1>2, <1>5, <2>1, <2>2 DEF Publication
  <2> HIDE DEF s
  <2> QED BY <2>1, <2>3, ConfigAssumption
<1>7. Assigned(pub'[s]) = assigned /\ \A t \in Sites \ {s} : Assigned(pub'[t]) = Assigned(pub[t])
  BY <1>6 DEF Assigned, AssignedNodeIDs
<1>8. /\ \A t \in Sites \ {s} : drain'[t] = drain[t]
      /\ \A n \in Nodes :
           drain'[s][n] = IF n \in p.cancel THEN NoDrain
                          ELSE IF n \in p.drains /\ drain[s][n] = NoDrain THEN NewDrain(pub[s], p.ttl)
                          ELSE IF Superseded(p) /\ Claimed(drain[s][n])
                               THEN [drain[s][n] EXCEPT !.orphan = TRUE]
                          ELSE drain[s][n]
  BY <1>0, <1>1, <1>2 DEF TypeInv, TypeOK, CommittedRow
<1>9. \A n \in p.drains :
          /\ n \notin p.cancel /\ drain[s][n] = NoDrain
          /\ drain'[s][n] # NoDrain /\ ~drain'[s][n].ready
          /\ drain'[s][n].claim = "none" /\ drain'[s][n].cfg = pub[s].cfg
  <2> TAKE n \in p.drains
  <2>1. n \in Assigned(pub[s]) /\ n \notin assigned /\ n \in Nodes
    BY <1>2, <1>4
  <2>2. drain[s][n] = NoDrain
    BY <1>2, <2>1 DEF CutoverInv, RowsHold, RowHolds
  <2>3. drain'[s][n] = NewDrain(pub[s], p.ttl) /\ n \notin p.cancel
    BY <1>4, <1>8, <2>1, <2>2
  <2>4. NewDrain(pub[s], p.ttl) \in Drain
    <3>1. pub[s] \in Publication
      BY <1>5, <2>1 DEF Assigned
    <3>2. p.ttl \in TTL
      BY <1>2 DEF Publishing, TTL
    <3> QED BY <3>1, <3>2, NewDrainType
  <2>5. ~NewDrain(pub[s], p.ttl).ready /\ NewDrain(pub[s], p.ttl).claim = "none"
        /\ NewDrain(pub[s], p.ttl).cfg = pub[s].cfg
    BY DEF NewDrain
  <2> QED BY <2>2, <2>3, <2>4, <2>5, ConfigAssumption
<1>10. \A n \in Nodes : n \notin p.drains /\ drain'[s][n] # NoDrain
          => /\ n \notin p.cancel /\ n \notin assigned /\ drain[s][n] # NoDrain
             /\ drain'[s][n].ready = drain[s][n].ready /\ drain'[s][n].claim = drain[s][n].claim
             /\ drain'[s][n].cfg = drain[s][n].cfg /\ drain'[s][n].left = drain[s][n].left
             /\ drain'[s][n].target = drain[s][n].target
  <2> TAKE n \in Nodes
  <2> SUFFICES ASSUME n \notin p.drains, drain'[s][n] # NoDrain
               PROVE  /\ n \notin p.cancel /\ n \notin assigned /\ drain[s][n] # NoDrain
                      /\ drain'[s][n].ready = drain[s][n].ready
                      /\ drain'[s][n].claim = drain[s][n].claim
                      /\ drain'[s][n].cfg = drain[s][n].cfg /\ drain'[s][n].left = drain[s][n].left
                      /\ drain'[s][n].target = drain[s][n].target
    OBVIOUS
  <2>1. drain[s][n] \in Drain \cup {NoDrain}
    BY <1>0, <1>2 DEF TypeInv, TypeOK, Row
  <2>2. n \notin p.cancel
        /\ (drain'[s][n] = drain[s][n]
            \/ (Claimed(drain[s][n]) /\ drain'[s][n] = [drain[s][n] EXCEPT !.orphan = TRUE]))
    BY <1>8
  <2>3. drain[s][n] # NoDrain /\ n \notin assigned
    BY <1>4, <2>2 DEF Claimed
  <2>4. drain[s][n] \in Drain
    BY <2>1, <2>3
  <2> HIDE DEF p, s, assigned
  <2> QED BY <2>2, <2>3, <2>4 DEF Drain
<1>11. \A n \in Nodes : /\ n \in p.drains \/ n \in assigned \/ n \notin Assigned(pub[s])
                        /\ drain[s][n] # NoDrain => n \in assigned \/ drain'[s][n] # NoDrain
  <2> TAKE n \in Nodes
  <2>1. drain[s][n] \in Drain \cup {NoDrain}
    BY <1>0, <1>2 DEF TypeInv, TypeOK, Row
  <2>2. [drain[s][n] EXCEPT !.orphan = TRUE] \in Drain \/ ~Claimed(drain[s][n])
    BY <2>1 DEF Drain, Claimed
  <2>3. drain[s][n] # NoDrain => n \in p.cancel \/ n \notin p.drains
    BY <1>9
  <2>4. drain[s][n] # NoDrain /\ n \notin p.cancel => drain'[s][n] # NoDrain
    BY <1>8, <2>2, <2>3, ConfigAssumption
  <2> QED BY <1>4, <2>4
<1> HIDE DEF p, s, assigned
<1>12. PublicationMatchesStates'
  <2> SUFFICES ASSUME NEW t \in Sites, NEW n \in Assigned(pub'[t])
               PROVE  desired'[n].body[t] = pub'[t].cfg.body
    BY DEF PublicationMatchesStates
  <2>1. CASE t = s
    BY <1>1, <1>4, <1>6, <1>7, <2>1
  <2>2. CASE t # s
    BY <1>1, <1>3, <1>6, <1>7, <2>2 DEF PreparedKeeps, p, s
  <2> QED BY <2>1, <2>2
<1>13. RowsHold'
  <2> SUFFICES ASSUME NEW t \in Sites, NEW n \in Nodes, drain'[t][n] # NoDrain
               PROVE  RowHolds(t, n, drain[t][n])'
    BY DEF RowsHold
  <2>1. CASE t # s
    <3>1. drain'[t][n] = drain[t][n] /\ Assigned(pub'[t]) = Assigned(pub[t])
      BY <1>7, <1>8, <2>1
    <3>2. ServesRow(drain[t][n], cache[t][n], desired'[n].body[t])
      BY <1>1, <1>3, <2>1, <3>1 DEF PreparedKeeps, p, s
    <3>3. RowHolds(t, n, drain[t][n])
      BY <3>1 DEF CutoverInv, RowsHold
    <3> QED BY <1>1, <3>1, <3>2, <3>3 DEF RowHolds
  <2>2. CASE t = s /\ n \in p.drains
    <3>1. n \notin assigned /\ ~drain'[s][n].ready /\ drain'[s][n].claim = "none"
          /\ drain'[s][n].cfg = pub[s].cfg /\ desired'[n].body[s] = pub[s].cfg.body
      BY <1>1, <1>4, <1>9, <2>2
    <3> QED BY <1>7, <2>2, <3>1 DEF RowHolds, ServesRow
  <2>3. CASE t = s /\ n \notin p.drains
    <3>1. /\ n \notin p.cancel /\ n \notin assigned /\ drain[s][n] # NoDrain
          /\ drain'[s][n].ready = drain[s][n].ready /\ drain'[s][n].claim = drain[s][n].claim
          /\ drain'[s][n].cfg = drain[s][n].cfg /\ drain'[s][n].left = drain[s][n].left
          /\ drain'[s][n].target = drain[s][n].target
      BY <1>10, <2>3
    <3>2. ServesRow(drain[s][n], cache[s][n], desired'[n].body[s])
      BY <1>1, <1>2, <1>3, <3>1 DEF PreparedKeeps, p, s
    <3>3. RowHolds(s, n, drain[s][n])
      BY <1>2, <3>1 DEF CutoverInv, RowsHold
    <3> QED BY <1>1, <1>7, <2>3, <3>1, <3>2, <3>3 DEF RowHolds, ServesRow
  <2> QED BY <2>1, <2>2, <2>3
<1>14. ReachableNodesKept'
  <2> SUFFICES ASSUME NEW t \in Sites, NEW n \in Nodes, Reachable(t, n)'
               PROVE  Serves(loaded'[n], t) /\ (n \in Assigned(pub'[t]) \/ drain'[t][n] # NoDrain)
    BY DEF ReachableNodesKept
  <2>1. Serves(loaded[n], t) /\ (n \in Assigned(pub[t]) \/ drain[t][n] # NoDrain)
    BY <1>1 DEF CutoverInv, ReachableNodesKept, Reachable
  <2>2. CASE t # s
    BY <1>1, <1>7, <1>8, <2>1, <2>2
  <2>3. CASE t = s
    BY <1>1, <1>7, <1>9, <1>11, <2>1, <2>3
  <2> QED BY <2>2, <2>3
<1>15. PreparedHolds'
  <2>1. ~publisher'.busy
    BY <1>1, Zenon DEF NoPublish
  <2> QED BY <2>1 DEF PreparedHolds
<1>16. RoundHolds'
  <2>1. /\ \A t \in Sites : round.pubs[t] \in Publication \cup {NoPub}
        /\ round.site \in Sites
        /\ \A n \in Assigned(round.pubs[round.site]) : n \in Nodes
    <3>1. round.site \in Sites /\ \A t \in Sites : round.pubs[t] \in Publication \cup {NoPub}
      BY <1>0 DEF TypeInv, TypeOK, Round
    <3> QED BY <3>1 DEF Assigned, Publication, Config
  <2>2. \A t \in Sites : Generation(round.pubs[t]) \in Nat
    BY <2>1 DEF Generation, Publication
  <2>3. Generation(pub'[s]) = Generation(pub[s]) + 1
    BY <1>6 DEF Generation
  <2>4. \A t \in Sites : Generation(round.pubs[t]) =< Generation(pub[t])
    BY DEF CutoverInv, RoundHolds
  <2>5. \A t \in Sites :
           /\ Generation(round.pubs[t]) =< Generation(pub'[t])
           /\ round.pubs[t] # NoPub /\ Generation(pub'[t]) = Generation(round.pubs[t])
              => round.pubs[t].cfg = pub'[t].cfg
    <3> TAKE t \in Sites
    <3>1. CASE t = s
      BY <1>2, <1>5, <2>2, <2>3, <2>4, <3>1
    <3>2. CASE t # s
      BY <1>6, <3>2 DEF CutoverInv, RoundHolds, SitePublicationCurrent
    <3> QED BY <3>1, <3>2
  <2>6. \A n \in Nodes : StillServed(round.site, n)
            => \/ n \in Assigned(pub'[round.site])
               \/ drain'[round.site][n] # NoDrain /\ ~drain'[round.site][n].ready
    <3> TAKE n \in Nodes
    <3>1. CASE round.site # s
      BY <1>7, <1>8, <2>1, <3>1 DEF StillServed
    <3>2. CASE round.site = s
      BY <1>7, <1>9, <1>10, <1>11, <3>2 DEF StillServed
    <3> QED BY <3>1, <3>2
  <2>7. round.pc \in {"pool", "push"} =>
           \A n \in Assigned(round.pubs[round.site]) : StillServed(round.site, n)'
    BY <1>1, <2>1, <2>6 DEF CutoverInv, RoundHolds, StillServed
  <2>8. round' = round /\ \A n \in Nodes : round.applied[n] =< applied'[n]
    BY <1>1 DEF CutoverInv, RoundHolds
  <2> QED BY <2>5, <2>7, <2>8 DEF RoundHolds, SitePublicationCurrent
<1>17. WantedHold'
  <2>1. round.site \in Sites
    BY <1>0 DEF TypeInv, TypeOK, Round
  <2>2. CASE round.site # s
    <3>1. pub'[round.site] = pub[round.site]
      BY <1>6, <2>1, <2>2
    <3> QED BY <1>1, <3>1 DEF CutoverInv, WantedHold, SitePublicationCurrent
  <2>3. CASE round.site = s
    <3>1. Generation(pub'[s]) = Generation(pub[s]) + 1
      BY <1>6 DEF Generation
    <3>2. Generation(round.pubs[s]) =< Generation(pub[s]) /\ Generation(round.pubs[s]) \in Nat
      <4>1. round.pubs[s] \in Publication \cup {NoPub}
        BY <1>0, <1>2 DEF TypeInv, TypeOK, Round
      <4> QED BY <1>2, <4>1 DEF CutoverInv, RoundHolds, Generation, Publication
    <3>3. Generation(pub'[round.site]) # Generation(round.pubs[round.site])
      BY <1>5, <2>3, <3>1, <3>2
    <3> QED BY <1>1, <2>3, <3>3 DEF CutoverInv, WantedHold, SitePublicationCurrent
  <2> QED BY <2>2, <2>3
<1>18. EditorReadsCurrent'
  BY <1>1 DEF CutoverInv, EditorReadsCurrent
<1>19. CutoverInv'
  BY <1>12, <1>13, <1>14, <1>15, <1>16, <1>17, <1>18 DEF CutoverInv
<1> QED BY <1>7, <1>8, <1>11, <1>19

\* A step that touches nothing the invariant is about but a process that ends.
LEMMA CutoverFrame ==
    ASSUME CutoverInv, VersionInv',
           UNCHANGED <<pub, desired, drain, applied, loaded, dns, cache>>,
           UNCHANGED <<draft, editor>>,
           publisher' = publisher \/ publisher' = NoPublish,
           round' = round
    PROVE  CutoverInv'
<1>1. /\ EditorReadsCurrent' /\ PublicationMatchesStates' /\ RowsHold' /\ ReachableNodesKept'
      /\ RoundHolds' /\ WantedHold'
  BY DEF CutoverInv, EditorReadsCurrent, PublicationMatchesStates, RowsHold, RowHolds,
         ReachableNodesKept, Reachable, RoundHolds, StillServed, WantedHold, SitePublicationCurrent
<1>2. PreparedHolds'
  <2>1. CASE publisher' = NoPublish
    <3>1. ~publisher'.busy
      BY <2>1, Zenon DEF NoPublish
    <3> QED BY <3>1 DEF PreparedHolds
  <2>2. CASE publisher' = publisher
    BY <2>2 DEF CutoverInv, PreparedHolds, PreparedKeeps, PreparedMatchesDraft, DraftUnchanged
  <2> QED BY <2>1, <2>2
<1> QED BY <1>1, <1>2 DEF CutoverInv

LEMMA CutoverFailPublish ==
    ASSUME CutoverInv, VersionInv', FailPublish PROVE CutoverInv'
BY CutoverFrame DEF FailPublish, dnsVars

-----------------------------------------------------------------------------
(* Nodes, edits and time *)

LEMMA AssignedNodes ==
    ASSUME NEW p \in Publication \cup {NoPub} PROVE Assigned(p) \subseteq Nodes
BY DEF Assigned, Publication, Config

LEMMA DNSTypes ==
    ASSUME CutoverInv, NEW s \in Sites, NEW n \in Nodes
    PROVE  dns[s][n] \in Nat /\ cache[s][n] \in Nat /\ cache[s][n] =< Grace
<1>1. dns[s][n] \in TTLs \cup {0} /\ cache[s][n] \in 0..Grace
  BY DEF CutoverInv, VersionInv, TypeInv, TypeOK
<1>2. TTLs \cup {0} \subseteq Nat /\ Grace \in Nat
  BY TimeAssumption
<1>3. dns[s][n] \in Nat
  BY <1>1, <1>2
<1>4. cache[s][n] \in Nat /\ cache[s][n] =< Grace
  BY <1>1, <1>2
<1> QED BY <1>3, <1>4

\* The desired state of a node serves every site for which traffic may come.
LEMMA DesiredServes ==
    ASSUME CutoverInv, NEW s \in Sites, NEW n \in Nodes,
           \/ n \in Assigned(pub[s])
           \/ drain[s][n] # NoDrain /\ (~drain[s][n].ready \/ Reachable(s, n))
    PROVE  Serves(desired[n], s)
<1>1. CASE n \in Assigned(pub[s])
  <2>1. pub[s] \in Publication
    BY <1>1 DEF CutoverInv, VersionInv, TypeInv, TypeOK, Assigned
  <2>2. pub[s].cfg.body \in Bodies
    BY <2>1 DEF Publication, Config
  <2> QED BY <1>1, <2>2, ConfigAssumption DEF CutoverInv, PublicationMatchesStates, Serves
<1>2. CASE drain[s][n] # NoDrain /\ (~drain[s][n].ready \/ Reachable(s, n))
  <2>1. drain[s][n] \in Drain
    BY <1>2 DEF CutoverInv, VersionInv, TypeInv, TypeOK, Row
  <2>2. drain[s][n].cfg.body \in Bodies /\ drain[s][n].left \in Nat
    BY <2>1 DEF Drain, Config
  <2>3. RowHolds(s, n, drain[s][n])
    BY <1>2 DEF CutoverInv, RowsHold
  <2>4. cache[s][n] \in Nat /\ dns[s][n] \in Nat
    BY DNSTypes
  <2>5. drain[s][n].claim = "none" /\ (~drain[s][n].ready \/ cache[s][n] > 0)
    BY <1>2, <2>2, <2>3, <2>4 DEF RowHolds, Reachable
  <2>6. desired[n].body[s] = drain[s][n].cfg.body
    BY <2>3, <2>5 DEF RowHolds, ServesRow
  <2> QED BY <2>2, <2>6, ConfigAssumption DEF Serves
<1> QED BY <1>1, <1>2

LEMMA CutoverPublishNode ==
    ASSUME CutoverInv, VersionInv', NEW n \in Nodes, PublishNode(n) PROVE CutoverInv'
<1>1. /\ ~publisher.busy
      /\ desired' = [desired EXCEPT ![n] = NextState(n, Rendered(pub, drain, n))]
      /\ UNCHANGED <<draft, editor, pub, drain, publisher, applied, loaded, dns, cache, round>>
  BY DEF PublishNode, MutexFree, dnsVars
<1>2. \A m \in Nodes, t \in Sites :
          desired'[m].body[t] = IF m = n THEN Rendered(pub, drain, n)[t] ELSE desired[m].body[t]
  BY <1>1, NextStateRenders DEF CutoverInv, VersionInv, TypeInv, TypeOK
<1>3. \A t \in Sites :
          Rendered(pub, drain, n)[t] =
              IF n \in Assigned(pub[t]) THEN pub[t].cfg.body
              ELSE IF drain[t][n] # NoDrain /\ drain[t][n].claim = "none"
                   THEN drain[t][n].cfg.body ELSE NoBody
  BY DEF Rendered
<1>4. \A t \in Sites : Assigned(pub[t]) \subseteq Nodes
  BY AssignedNodes DEF CutoverInv, VersionInv, TypeInv, TypeOK
<1>5. PublicationMatchesStates'
  BY <1>1, <1>2, <1>3, <1>4 DEF CutoverInv, PublicationMatchesStates
<1>6. RowsHold'
  <2> SUFFICES ASSUME NEW t \in Sites, NEW m \in Nodes, drain[t][m] # NoDrain
               PROVE  RowHolds(t, m, drain[t][m])'
    BY <1>1 DEF RowsHold
  <2>1. RowHolds(t, m, drain[t][m])
    BY DEF CutoverInv, RowsHold
  <2>2. ServesRow(drain[t][m], cache[t][m], desired'[m].body[t])
    <3>1. CASE m = n
      BY <1>2, <1>3, <2>1, <3>1 DEF RowHolds, ServesRow
    <3>2. CASE m # n
      BY <1>2, <2>1, <3>2 DEF RowHolds
    <3> QED BY <3>1, <3>2
  <2> QED BY <1>1, <2>1, <2>2 DEF RowHolds
<1>7. /\ EditorReadsCurrent' /\ ReachableNodesKept' /\ RoundHolds' /\ WantedHold' /\ PreparedHolds'
  BY <1>1 DEF CutoverInv, EditorReadsCurrent, ReachableNodesKept, Reachable, RoundHolds,
              StillServed, WantedHold, SitePublicationCurrent, PreparedHolds
<1> QED BY <1>5, <1>6, <1>7 DEF CutoverInv

LEMMA CutoverEdgeApply ==
    ASSUME CutoverInv, VersionInv', NEW n \in Nodes, EdgeApply(n) PROVE CutoverInv'
<1>1. /\ loaded' = [loaded EXCEPT ![n] = desired[n]]
      /\ UNCHANGED <<draft, editor, pub, desired, drain, publisher, applied, dns, cache, round>>
  BY DEF EdgeApply, dbVars, dnsVars
<1>2. \A m \in Nodes : loaded'[m] = IF m = n THEN desired[n] ELSE loaded[m]
  BY <1>1 DEF CutoverInv, VersionInv, TypeInv, TypeOK
<1>3. RowsHold'
  <2> SUFFICES ASSUME NEW t \in Sites, NEW m \in Nodes, drain[t][m] # NoDrain
               PROVE  RowHolds(t, m, drain[t][m])'
    BY <1>1 DEF RowsHold
  <2>1. RowHolds(t, m, drain[t][m])
    BY DEF CutoverInv, RowsHold
  <2>2. CASE m = n
    <3>1. drain[t][m].claim # "none" => loaded'[m].body[t] = NoBody
      BY <1>2, <2>1, <2>2 DEF RowHolds, ServesRow
    <3> QED BY <1>1, <2>1, <3>1 DEF RowHolds
  <2>3. CASE m # n
    BY <1>1, <1>2, <2>1, <2>3 DEF RowHolds
  <2> QED BY <2>2, <2>3
<1>4. ReachableNodesKept'
  <2> SUFFICES ASSUME NEW t \in Sites, NEW m \in Nodes, Reachable(t, m)
               PROVE  Serves(loaded'[m], t) /\ (m \in Assigned(pub[t]) \/ drain[t][m] # NoDrain)
    BY <1>1 DEF ReachableNodesKept, Reachable
  <2>1. Serves(loaded[m], t) /\ (m \in Assigned(pub[t]) \/ drain[t][m] # NoDrain)
    BY DEF CutoverInv, ReachableNodesKept
  <2>2. Serves(desired[m], t)
    BY <2>1, DesiredServes
  <2> QED BY <1>2, <2>1, <2>2
<1>5. WantedHold'
  <2> SUFFICES ASSUME round.pc = "push", NEW m \in round.want
               PROVE  /\ m \in Assigned(round.pubs[round.site])
                      /\ Serves(loaded'[m], round.site)
                      /\ SitePublicationCurrent(round.site)
                         => loaded'[m].body[round.site] = pub[round.site].cfg.body
    BY <1>1 DEF WantedHold, SitePublicationCurrent
  <2>1. /\ m \in Assigned(round.pubs[round.site])
        /\ Serves(loaded[m], round.site)
        /\ SitePublicationCurrent(round.site)
           => loaded[m].body[round.site] = pub[round.site].cfg.body
    BY DEF CutoverInv, WantedHold
  <2>2. round.site \in Sites /\ m \in Nodes
    BY DEF CutoverInv, VersionInv, TypeInv, TypeOK, Round
  <2>3. Serves(desired[m], round.site)
    BY <2>1, <2>2, DesiredServes DEF CutoverInv, RoundHolds, StillServed
  <2>4. SitePublicationCurrent(round.site) => m \in Assigned(pub[round.site])
    BY <2>1, <2>2 DEF CutoverInv, RoundHolds, VersionInv, TypeInv, PublicationsKept, Assigned
  <2>5. SitePublicationCurrent(round.site)
        => desired[m].body[round.site] = pub[round.site].cfg.body
    BY <2>2, <2>4 DEF CutoverInv, PublicationMatchesStates
  <2> QED BY <1>2, <2>1, <2>2, <2>3, <2>5
<1>6. /\ EditorReadsCurrent' /\ PublicationMatchesStates' /\ RoundHolds' /\ PreparedHolds'
  BY <1>1 DEF CutoverInv, EditorReadsCurrent, PublicationMatchesStates, RoundHolds, StillServed,
              SitePublicationCurrent, PreparedHolds, PreparedKeeps, PreparedMatchesDraft,
              DraftUnchanged
<1> QED BY <1>3, <1>4, <1>5, <1>6 DEF CutoverInv

LEMMA CutoverEditor ==
    ASSUME OneEditor, CutoverInv, VersionInv', EditorNext PROVE CutoverInv'
<1>1. PICK e \in Editors, s \in Sites :
          UpdateSiteRead(e, s) \/ \E cfg \in Configs[s] : UpdateSiteWrite(e, s, cfg)
  BY DEF EditorNext
<1>2. /\ UNCHANGED <<pub, desired, drain, applied, publisher, loaded, dns, cache, round>>
      /\ editor' = [editor EXCEPT ![e][s] = draft[s].ver] \/ editor' = [editor EXCEPT ![e][s] = 0]
  BY <1>1 DEF UpdateSiteRead, UpdateSiteWrite, dbVars, dnsVars
<1>3. \/ draft' = draft
      \/ /\ editor[e][s] > 0 /\ editor' = [editor EXCEPT ![e][s] = 0]
         /\ \E cfg \in Configs[s] :
               draft' = [draft EXCEPT ![s] = [cfg |-> cfg, ver |-> editor[e][s] + 1]]
  BY <1>1 DEF UpdateSiteRead, UpdateSiteWrite, dbVars
<1>4. draft \in [Sites -> [cfg : Config, ver : Nat]] /\ editor \in [Editors -> [Sites -> Nat]]
  BY DEF CutoverInv, VersionInv, TypeInv, TypeOK
<1>5. \/ draft' = draft
      \/ /\ draft'[s].ver = draft[s].ver + 1 /\ editor' = [editor EXCEPT ![e][s] = 0]
         /\ \A t \in Sites \ {s} : draft'[t] = draft[t]
  BY <1>3, <1>4 DEF CutoverInv, EditorReadsCurrent
<1>6. EditorReadsCurrent'
  <2> SUFFICES ASSUME NEW t \in Sites, editor'[e][t] > 0 PROVE editor'[e][t] = draft'[t].ver
    BY DEF EditorReadsCurrent, OneEditor
  <2>1. CASE draft' = draft
    BY <1>1, <1>2, <1>4, <2>1 DEF CutoverInv, EditorReadsCurrent
  <2>2. CASE draft' # draft
    <3>1. t # s /\ draft'[t] = draft[t] /\ editor'[e][t] = editor[e][t]
      BY <1>4, <1>5, <2>2
    <3> QED BY <3>1 DEF CutoverInv, EditorReadsCurrent
  <2> QED BY <2>1, <2>2
<1>7. PreparedHolds'
  <2> SUFFICES ASSUME publisher.busy
               PROVE  PreparedKeeps(publisher)' /\ PreparedMatchesDraft(publisher)'
    BY <1>2 DEF PreparedHolds
  <2>1. PreparedKeeps(publisher) /\ PreparedMatchesDraft(publisher)
    BY DEF CutoverInv, PreparedHolds
  <2>2. PreparedKeeps(publisher)'
    BY <1>2, <2>1 DEF PreparedKeeps
  <2>3. publisher.site \in Sites /\ publisher.ver \in Nat /\ draft[publisher.site].ver \in Nat
    BY BusyPublisher DEF CutoverInv, VersionInv
  <2>4. PreparedMatchesDraft(publisher)'
    <3>1. CASE draft'[publisher.site] = draft[publisher.site]
      BY <1>2, <2>1, <3>1 DEF PreparedMatchesDraft, DraftUnchanged
    <3>2. CASE draft'[publisher.site] # draft[publisher.site]
      <4>1. draft'[publisher.site].ver = draft[publisher.site].ver + 1
        BY <1>5, <2>3, <3>2
      <4>2. publisher.ver =< draft[publisher.site].ver
        BY <2>1 DEF PreparedMatchesDraft
      <4>3. publisher.ver =< draft'[publisher.site].ver /\ ~DraftUnchanged(publisher)'
        BY <1>2, <2>3, <4>1, <4>2 DEF DraftUnchanged
      <4> QED BY <1>2, <2>1, <4>3 DEF PreparedMatchesDraft
    <3> QED BY <3>1, <3>2
  <2> QED BY <2>2, <2>4
<1>8. /\ PublicationMatchesStates' /\ RowsHold' /\ ReachableNodesKept' /\ RoundHolds' /\ WantedHold'
  BY <1>2 DEF CutoverInv, PublicationMatchesStates, RowsHold, RowHolds, ReachableNodesKept,
              Reachable, RoundHolds, StillServed, WantedHold, SitePublicationCurrent
<1> QED BY <1>6, <1>7, <1>8 DEF CutoverInv

LEMMA TickRows ==
    ASSUME CutoverInv, Tick
    PROVE  \A s \in Sites, n \in Nodes :
           /\ drain[s][n] = NoDrain => drain'[s][n] = NoDrain
           /\ drain[s][n] # NoDrain =>
                 /\ drain[s][n] \in Drain /\ drain'[s][n] # NoDrain
                 /\ drain'[s][n].left = Dec(drain[s][n].left)
                 /\ drain'[s][n].ready = drain[s][n].ready /\ drain'[s][n].claim = drain[s][n].claim
                 /\ drain'[s][n].cfg = drain[s][n].cfg /\ drain'[s][n].target = drain[s][n].target
<1> TAKE s \in Sites, n \in Nodes
<1>1. drain[s][n] \in Drain \cup {NoDrain}
  BY DEF CutoverInv, VersionInv, TypeInv, TypeOK, Row
<1>2. drain'[s][n] = IF drain[s][n] = NoDrain THEN NoDrain
                     ELSE [drain[s][n] EXCEPT !.left = Dec(@)]
  BY DEF Tick
<1>3. CASE drain[s][n] = NoDrain
  BY <1>2, <1>3
<1>4. CASE drain[s][n] # NoDrain
  <2>1. drain[s][n] \in Drain /\ drain'[s][n] = [drain[s][n] EXCEPT !.left = Dec(@)]
    BY <1>1, <1>2, <1>4
  <2>2. drain'[s][n] \in Drain
    BY <2>1 DEF Drain, Dec
  <2>3. /\ drain'[s][n].left = Dec(drain[s][n].left)
        /\ drain'[s][n].ready = drain[s][n].ready /\ drain'[s][n].claim = drain[s][n].claim
        /\ drain'[s][n].cfg = drain[s][n].cfg /\ drain'[s][n].target = drain[s][n].target
    BY <2>1 DEF Drain
  <2> QED BY <1>4, <2>1, <2>2, <2>3, ConfigAssumption
<1> QED BY <1>3, <1>4

LEMMA CutoverTick ==
    ASSUME CutoverInv, VersionInv', Tick PROVE CutoverInv'
<1>1. UNCHANGED <<draft, editor, pub, desired, applied, publisher, loaded, dns, round>>
  BY DEF Tick
<1>2. \A s \in Sites, n \in Nodes :
          /\ cache[s][n] \in Nat /\ cache'[s][n] = Dec(cache[s][n])
          /\ cache'[s][n] \in Nat /\ cache'[s][n] =< cache[s][n]
          /\ dns[s][n] \in Nat
  <2> TAKE s \in Sites, n \in Nodes
  <2>1. cache[s][n] \in Nat /\ dns[s][n] \in Nat
    BY DNSTypes
  <2>2. cache'[s][n] = Dec(cache[s][n])
    BY DEF Tick
  <2> QED BY <2>1, <2>2 DEF Dec
<1>3. \A s \in Sites, n \in Nodes :
          /\ drain[s][n] = NoDrain => drain'[s][n] = NoDrain
          /\ drain[s][n] # NoDrain =>
                /\ drain[s][n] \in Drain /\ drain'[s][n] # NoDrain
                /\ drain'[s][n].left = Dec(drain[s][n].left)
                /\ drain'[s][n].ready = drain[s][n].ready /\ drain'[s][n].claim = drain[s][n].claim
                /\ drain'[s][n].cfg = drain[s][n].cfg /\ drain'[s][n].target = drain[s][n].target
  BY TickRows
<1>4. RowsHold'
  <2> SUFFICES ASSUME NEW s \in Sites, NEW n \in Nodes, drain'[s][n] # NoDrain
               PROVE  RowHolds(s, n, drain[s][n])'
    BY DEF RowsHold
  <2>1. drain[s][n] # NoDrain /\ drain[s][n].left \in Nat
    BY <1>3 DEF Drain
  <2>2. RowHolds(s, n, drain[s][n])
    BY <2>1 DEF CutoverInv, RowsHold
  <2>3. /\ drain'[s][n].left = Dec(drain[s][n].left)
        /\ drain'[s][n].ready = drain[s][n].ready /\ drain'[s][n].claim = drain[s][n].claim
        /\ drain'[s][n].cfg = drain[s][n].cfg /\ drain'[s][n].target = drain[s][n].target
    BY <1>3, <2>1
  <2>4. drain[s][n].ready => cache'[s][n] =< drain'[s][n].left
    BY <1>2, <2>1, <2>2, <2>3 DEF RowHolds, Dec
  <2>5. drain[s][n].claim # "none" => drain'[s][n].left = 0
    BY <2>2, <2>3 DEF RowHolds, Dec
  <2>6. ServesRow(drain'[s][n], cache'[s][n], desired[n].body[s])
    BY <1>2, <2>2, <2>3 DEF RowHolds, ServesRow
  <2> QED BY <1>1, <2>2, <2>3, <2>4, <2>5, <2>6 DEF RowHolds
<1>5. ReachableNodesKept'
  BY <1>1, <1>2, <1>3 DEF CutoverInv, ReachableNodesKept, Reachable
<1>6. PreparedHolds'
  <2> SUFFICES ASSUME publisher.busy
               PROVE  PreparedKeeps(publisher)' /\ PreparedMatchesDraft(publisher)'
    BY <1>1 DEF PreparedHolds
  <2>1. PreparedKeeps(publisher) /\ PreparedMatchesDraft(publisher)
    BY DEF CutoverInv, PreparedHolds
  <2>2. publisher.site \in Sites /\ AssignedNodeIDs(draft[publisher.site].cfg) \subseteq Nodes
    BY BusyPublisher DEF CutoverInv, VersionInv
  <2>3. PreparedKeeps(publisher)'
    <3>1. ASSUME NEW t \in Sites, NEW n \in Nodes, drain'[t][n] # NoDrain,
                 ~(t = publisher.site /\ n \in publisher.cancel)
          PROVE  ServesRow(drain'[t][n], cache'[t][n], publisher.state[n].body[t])
      <4>1. ServesRow(drain[t][n], cache[t][n], publisher.state[n].body[t])
        BY <1>3, <2>1, <3>1 DEF PreparedKeeps
      <4> QED BY <1>2, <1>3, <3>1, <4>1 DEF ServesRow
    <3> QED BY <1>1, <2>1, <3>1 DEF PreparedKeeps
  <2>4. PreparedMatchesDraft(publisher)'
    BY <1>1, <1>3, <2>1, <2>2 DEF PreparedMatchesDraft, DraftUnchanged
  <2> QED BY <2>3, <2>4
<1>7. RoundHolds'
  <2>1. round.site \in Sites /\ \A n \in Assigned(round.pubs[round.site]) : n \in Nodes
    <3>1. round.site \in Sites /\ round.pubs[round.site] \in Publication \cup {NoPub}
      BY DEF CutoverInv, VersionInv, TypeInv, TypeOK, Round
    <3> QED BY <3>1, AssignedNodes
  <2> QED BY <1>1, <1>3, <2>1 DEF CutoverInv, RoundHolds, StillServed, SitePublicationCurrent
<1>8. EditorReadsCurrent' /\ PublicationMatchesStates' /\ WantedHold'
  BY <1>1 DEF CutoverInv, EditorReadsCurrent, PublicationMatchesStates, WantedHold,
              SitePublicationCurrent
<1> QED BY <1>4, <1>5, <1>6, <1>7, <1>8 DEF CutoverInv

LEMMA CutoverRestart ==
    ASSUME CutoverInv, VersionInv', Restart PROVE CutoverInv'
<1>1. /\ UNCHANGED <<draft, pub, desired, drain, applied, loaded, dns, cache>>
      /\ round' = IdleRound /\ ~publisher'.busy
      /\ \A e \in Editors, s \in Sites : editor'[e][s] = 0
  BY Zenon DEF Restart, dbVars, dnsVars, NoPublish
<1>2. /\ IdleRound.pc = "idle" /\ \A n \in Nodes : IdleRound.applied[n] = 0
      /\ \A s \in Sites : IdleRound.pubs[s] = NoPub
  BY DEF IdleRound
<1>3. \A s \in Sites : Generation(pub[s]) \in Nat /\ Generation(NoPub) = 0
  BY DEF CutoverInv, VersionInv, TypeInv, TypeOK, Generation, Publication
<1>4. \A n \in Nodes : applied[n] \in Nat
  BY DEF CutoverInv, VersionInv, TypeInv, TypeOK
<1>5. RoundHolds' /\ WantedHold'
  BY <1>1, <1>2, <1>3, <1>4 DEF RoundHolds, WantedHold
<1>6. /\ EditorReadsCurrent' /\ PublicationMatchesStates' /\ RowsHold' /\ ReachableNodesKept'
      /\ PreparedHolds'
  BY <1>1 DEF CutoverInv, EditorReadsCurrent, PublicationMatchesStates, RowsHold, RowHolds,
              ReachableNodesKept, Reachable, PreparedHolds
<1> QED BY <1>5, <1>6 DEF CutoverInv

-----------------------------------------------------------------------------
(* The health round *)

\* A step that only moves the round.
LEMMA CutoverRoundOnly ==
    ASSUME CutoverInv, VersionInv', RoundHolds', WantedHold',
           UNCHANGED <<dbVars, editor, publisher, loaded, dnsVars>>
    PROVE  CutoverInv'
<1>1. UNCHANGED <<draft, editor, pub, desired, applied, drain, publisher, loaded, dns, cache>>
  BY DEF dbVars, dnsVars
<1>2. /\ EditorReadsCurrent' /\ PublicationMatchesStates' /\ RowsHold' /\ ReachableNodesKept'
  BY <1>1 DEF CutoverInv, EditorReadsCurrent, PublicationMatchesStates, RowsHold, RowHolds,
              ReachableNodesKept, Reachable
<1>3. PreparedHolds'
  BY <1>1 DEF CutoverInv, PreparedHolds, PreparedKeeps, PreparedMatchesDraft, DraftUnchanged
<1> QED BY <1>2, <1>3 DEF CutoverInv

\* It looks at no site any more.
LEMMA CutoverLeavesSite ==
    ASSUME CutoverInv, VersionInv', UNCHANGED <<dbVars, editor, publisher, loaded, dnsVars>>,
           round'.pc \notin {"pool", "push"},
           round'.pubs = round.pubs, round'.applied = round.applied
    PROVE  CutoverInv'
<1>1. RoundHolds' /\ WantedHold'
  BY DEF CutoverInv, RoundHolds, WantedHold, SitePublicationCurrent, dbVars
<1> QED BY <1>1, CutoverRoundOnly

LEMMA SkipLeaves ==
    ASSUME TypeInv, NEW s \in Sites
    PROVE  /\ Skip(s).pc = "site" /\ Skip(s).pubs = round.pubs
           /\ Skip(s).applied = round.applied
BY DEF Skip, TypeInv, TypeOK, Round

\* It starts again, or it is gone.
LEMMA CutoverIdle ==
    ASSUME CutoverInv, VersionInv', UNCHANGED <<dbVars, editor, publisher, loaded, dnsVars>>,
           round'.pc \in {"idle", "clean"},
           round'.pubs = IdleRound.pubs, round'.applied = IdleRound.applied
    PROVE  CutoverInv'
<1>1. /\ \A n \in Nodes : round'.applied[n] = 0
      /\ \A s \in Sites : round'.pubs[s] = NoPub
  BY DEF IdleRound
<1>2. \A s \in Sites : Generation(pub'[s]) \in Nat /\ Generation(NoPub) = 0
  BY DEF VersionInv, TypeInv, TypeOK, Generation, Publication
<1>3. \A n \in Nodes : applied'[n] \in Nat
  BY DEF VersionInv, TypeInv, TypeOK
<1>4. RoundHolds' /\ WantedHold'
  BY <1>1, <1>2, <1>3 DEF RoundHolds, WantedHold
<1> QED BY <1>4, CutoverRoundOnly

LEMMA CutoverListSitePublications ==
    ASSUME CutoverInv, VersionInv', ListSitePublications PROVE CutoverInv'
<1>1. /\ UNCHANGED <<dbVars, editor, publisher, loaded, dnsVars>>
      /\ round'.pc = "site" /\ round'.pubs = pub /\ round'.applied = round.applied
  BY DEF ListSitePublications, CutoverInv, VersionInv, TypeInv, TypeOK, Round
<1>2. pub' = pub /\ applied' = applied
  BY <1>1 DEF dbVars
<1>3. \A s \in Sites : Generation(pub[s]) \in Nat
  BY DEF CutoverInv, VersionInv, TypeInv, TypeOK, Generation, Publication
<1>4. RoundHolds' /\ WantedHold'
  BY <1>1, <1>2, <1>3 DEF CutoverInv, RoundHolds, WantedHold
<1> QED BY <1>1, <1>4, CutoverRoundOnly

LEMMA CutoverCheckSite ==
    ASSUME CutoverInv, VersionInv', NEW s \in Sites, CheckSite(s) PROVE CutoverInv'
<1>0. TypeInv /\ UNCHANGED <<dbVars, editor, publisher, loaded, dnsVars>>
  BY DEF CheckSite, CutoverInv, VersionInv
<1>1. CASE round' = Skip(s)
  BY <1>0, <1>1, SkipLeaves, CutoverLeavesSite
<1>2. CASE SitePublicationCurrent(s) /\ round' = [round EXCEPT !.pc = "pool", !.site = s]
  <2>1. /\ round'.pc = "pool" /\ round'.site = s /\ round'.pubs = round.pubs
        /\ round'.applied = round.applied
    BY <1>0, <1>2 DEF TypeInv, TypeOK, Round
  <2>2. pub' = pub /\ applied' = applied /\ drain' = drain
    BY <1>0 DEF dbVars
  <2>3. round.pubs[s] # NoPub /\ pub[s] # NoPub
    BY <1>0 DEF CheckSite, TypeInv, PublicationsKept
  <2>4. round.pubs[s].cfg = pub[s].cfg
    BY <1>2, <2>3 DEF CutoverInv, RoundHolds
  <2>5. Assigned(round.pubs[s]) = Assigned(pub[s])
    BY <2>3, <2>4 DEF Assigned
  <2>6. RoundHolds' /\ WantedHold'
    BY <2>1, <2>2, <2>5 DEF CutoverInv, RoundHolds, WantedHold, StillServed, SitePublicationCurrent
  <2> QED BY <1>0, <2>6, CutoverRoundOnly
<1> QED BY <1>1, <1>2 DEF CheckSite

\* A node that has confirmed its desired state has loaded it.
LEMMA ConfirmedIsLoaded ==
    ASSUME CutoverInv, NEW n \in Nodes, applied[n] >= desired[n].ver
    PROVE  loaded[n] = desired[n]
<1>1. applied[n] \in Nat /\ loaded[n].ver \in Nat /\ desired[n].ver \in Nat
  BY DEF CutoverInv, VersionInv, TypeInv, TypeOK, State
<1>2. /\ applied[n] =< loaded[n].ver /\ loaded[n].ver =< desired[n].ver
      /\ loaded[n].ver = desired[n].ver => loaded[n] = desired[n]
  BY DEF CutoverInv, VersionInv, VersionsOrdered
<1> QED BY <1>1, <1>2

\* The nodes the health checks choose from have loaded the site.
LEMMA PoolServes ==
    ASSUME CutoverInv, round.pc = "pool", NEW n \in Nodes,
           n \in Assigned(round.pubs[round.site]), n \in round.active,
           ~(desired[n].ver = 0 \/ round.applied[n] < desired[n].ver)
    PROVE  /\ Serves(loaded[n], round.site)
           /\ SitePublicationCurrent(round.site)
              => loaded[n].body[round.site] = pub[round.site].cfg.body
<1> DEFINE s == round.site
<1>1. s \in Sites /\ round.pubs[s] # NoPub /\ pub[s] # NoPub
  BY DEF CutoverInv, VersionInv, TypeInv, TypeOK, PublicationsKept, Round
<1>2. round.applied[n] \in Nat /\ applied[n] \in Nat /\ desired[n].ver \in Nat
  BY DEF CutoverInv, VersionInv, TypeInv, TypeOK, State, Round
<1>3. round.applied[n] =< applied[n]
  BY DEF CutoverInv, RoundHolds
<1>4. applied[n] >= desired[n].ver
  BY <1>2, <1>3
<1>5. loaded[n] = desired[n]
  BY <1>4, ConfirmedIsLoaded
<1>6. StillServed(s, n)
  BY DEF CutoverInv, RoundHolds
<1>7. Serves(desired[n], s)
  BY <1>1, <1>6, DesiredServes DEF StillServed
<1>8. SitePublicationCurrent(s) => n \in Assigned(pub[s])
  BY <1>1 DEF CutoverInv, RoundHolds, Assigned
<1>9. SitePublicationCurrent(s) => desired[n].body[s] = pub[s].cfg.body
  BY <1>1, <1>8 DEF CutoverInv, PublicationMatchesStates
<1> QED BY <1>5, <1>7, <1>9

LEMMA CutoverCheckPools ==
    ASSUME CutoverInv, VersionInv', CheckPools PROVE CutoverInv'
<1> DEFINE s == round.site
           cfg == round.pubs[s].cfg
<1>0. /\ TypeInv /\ UNCHANGED <<dbVars, editor, publisher, loaded, dnsVars>>
      /\ round.pc = "pool"
  BY DEF CheckPools, CutoverInv, VersionInv
<1>1. s \in Sites /\ round.pubs[s] # NoPub /\ round.pubs[s] \in Publication
  BY <1>0 DEF TypeInv, TypeOK, PublicationsKept, Round
<1>2. cfg.primary \subseteq Nodes /\ cfg.backup \subseteq Nodes
      /\ Assigned(round.pubs[s]) = cfg.primary \cup cfg.backup
  BY <1>1 DEF Publication, Config, Assigned
<1>3. \/ round' = Skip(s)
      \/ \E set \in SUBSET Nodes, ttl \in TTLs \cup {0} :
            /\ round' = [round EXCEPT !.pc = "push", !.want = set, !.ttl = ttl]
            /\ \/ set = {}
               \/ set \subseteq cfg.primary \cap round.active /\ ConvergingNodes(cfg.primary) = {}
               \/ set \subseteq cfg.backup \cap round.active /\ ConvergingNodes(cfg.backup) = {}
  <2>1. cfg \in Config
    BY <1>1 DEF Publication
  <2>2. DNSTTL(cfg) \subseteq TTLs \cup {0}
    BY <2>1, DNSTTLType
  <2> HIDE DEF cfg
  <2> QED BY <1>2, <2>2 DEF CheckPools, s, cfg
<1>4. CASE round' = Skip(s)
  BY <1>0, <1>1, <1>4, SkipLeaves, CutoverLeavesSite
<1>5. ASSUME NEW set \in SUBSET Nodes, NEW ttl \in TTLs \cup {0},
             round' = [round EXCEPT !.pc = "push", !.want = set, !.ttl = ttl],
             \/ set = {}
             \/ set \subseteq cfg.primary \cap round.active /\ ConvergingNodes(cfg.primary) = {}
             \/ set \subseteq cfg.backup \cap round.active /\ ConvergingNodes(cfg.backup) = {}
      PROVE  CutoverInv'
  <2>1. /\ round'.pc = "push" /\ round'.want = set /\ round'.site = s
        /\ round'.pubs = round.pubs /\ round'.applied = round.applied
    BY <1>0, <1>5 DEF TypeInv, TypeOK, Round
  <2>2. pub' = pub /\ applied' = applied /\ drain' = drain /\ loaded' = loaded
    BY <1>0 DEF dbVars
  <2>3. \A n \in set : n \in Nodes /\ n \in Assigned(round.pubs[s]) /\ n \in round.active
    BY <1>2, <1>5
  <2>4. \A n \in set : ~(desired[n].ver = 0 \/ round.applied[n] < desired[n].ver)
    BY <1>5, <2>3 DEF ConvergingNodes
  <2>5. \A n \in set : /\ Serves(loaded[n], s)
                       /\ SitePublicationCurrent(s) => loaded[n].body[s] = pub[s].cfg.body
    BY <1>0, <2>3, <2>4, PoolServes
  <2>6. SitePublicationCurrent(s)' <=> SitePublicationCurrent(s)
    BY <2>1, <2>2 DEF SitePublicationCurrent
  <2>7. WantedHold'
    BY <2>1, <2>2, <2>3, <2>5 DEF WantedHold, SitePublicationCurrent
  <2>8. RoundHolds'
    BY <1>0, <2>1, <2>2 DEF CutoverInv, RoundHolds, StillServed, SitePublicationCurrent
  <2> QED BY <1>0, <2>7, <2>8, CutoverRoundOnly
<1> QED BY <1>3, <1>4, <1>5

\* A provider call for a node that the round may move: the row of the node, if
\* it has one, has no timer yet.
LEMMA CutoverRecord ==
    ASSUME CutoverInv, VersionInv', NEW n \in Nodes, NEW ttl, round.pc = "push",
           SetRecord(round.site, n, ttl), ttl \in TTLs \cup {0},
           UNCHANGED <<dbVars, editor, publisher, loaded, round>>,
           drain[round.site][n] # NoDrain => ~drain[round.site][n].ready,
           \/ ttl = 0 /\ Reachable(round.site, n)
           \/ n \in round.want
    PROVE  CutoverInv'
<1> DEFINE s == round.site
<1>0. TypeInv /\ s \in Sites
  BY DEF CutoverInv, VersionInv, TypeInv, TypeOK, Round
<1>1. UNCHANGED <<draft, editor, pub, desired, applied, drain, publisher, loaded, round>>
  BY DEF dbVars
<1>2. \A t \in Sites, m \in Nodes :
          ~(t = s /\ m = n) => dns'[t][m] = dns[t][m] /\ cache'[t][m] = cache[t][m]
  BY <1>0 DEF SetRecord, TypeInv, TypeOK
<1>3. \A t \in Sites, m \in Nodes : drain[t][m] # NoDrain =>
          /\ RowHolds(t, m, drain[t][m])
          /\ t = s /\ m = n => ~drain[t][m].ready /\ drain[t][m].claim = "none"
  BY DEF CutoverInv, RowsHold, RowHolds
<1>4. \A t \in Sites, m \in Nodes : drain[t][m] # NoDrain => \A body :
          (ServesRow(drain[t][m], cache'[t][m], body) <=> ServesRow(drain[t][m], cache[t][m], body))
  BY <1>2, <1>3 DEF ServesRow
<1>5. RowsHold'
  <2> SUFFICES ASSUME NEW t \in Sites, NEW m \in Nodes, drain[t][m] # NoDrain
               PROVE  RowHolds(t, m, drain[t][m])'
    BY <1>1 DEF RowsHold
  <2>1. CASE t = s /\ m = n
    BY <1>1, <1>3, <1>4, <2>1 DEF RowHolds
  <2>2. CASE ~(t = s /\ m = n)
    BY <1>1, <1>2, <1>3, <1>4, <2>2 DEF RowHolds
  <2> QED BY <2>1, <2>2
<1>6. ReachableNodesKept'
  <2> SUFFICES ASSUME NEW t \in Sites, NEW m \in Nodes, Reachable(t, m)'
               PROVE  Serves(loaded[m], t) /\ (m \in Assigned(pub[t]) \/ drain[t][m] # NoDrain)
    BY <1>1 DEF ReachableNodesKept
  <2>1. CASE Reachable(t, m)
    BY <2>1 DEF CutoverInv, ReachableNodesKept
  <2>2. CASE ~Reachable(t, m)
    <3>1. t = s /\ m = n
      BY <1>2, <2>2 DEF Reachable
    <3>2. n \in round.want
      BY <2>2, <3>1
    <3>3. n \in Assigned(round.pubs[s]) /\ Serves(loaded[n], s)
      BY <3>2 DEF CutoverInv, WantedHold
    <3>4. StillServed(s, n)
      BY <3>3 DEF CutoverInv, RoundHolds
    <3> QED BY <3>1, <3>3, <3>4 DEF StillServed
  <2> QED BY <2>1, <2>2
<1>7. PreparedHolds'
  <2> SUFFICES ASSUME publisher.busy
               PROVE  PreparedKeeps(publisher)' /\ PreparedMatchesDraft(publisher)'
    BY <1>1 DEF PreparedHolds
  <2>1. PreparedKeeps(publisher) /\ PreparedMatchesDraft(publisher)
    BY DEF CutoverInv, PreparedHolds
  <2> QED BY <1>1, <1>4, <2>1 DEF PreparedKeeps, PreparedMatchesDraft, DraftUnchanged
<1>8. /\ EditorReadsCurrent' /\ PublicationMatchesStates' /\ RoundHolds' /\ WantedHold'
  BY <1>1 DEF CutoverInv, EditorReadsCurrent, PublicationMatchesStates, RoundHolds, StillServed,
              WantedHold, SitePublicationCurrent
<1> QED BY <1>5, <1>6, <1>7, <1>8 DEF CutoverInv

LEMMA CutoverDNS ==
    ASSUME CutoverInv, VersionInv', NEW n \in Nodes, PutRecord(n) \/ DeleteRecord(n)
    PROVE  CutoverInv'
<1>0. round.site \in Sites /\ round.ttl \in TTLs \cup {0}
  BY DEF CutoverInv, VersionInv, TypeInv, TypeOK, Round
<1>1. \A d : d = drain[round.site][n] /\ d # NoDrain => RowHolds(round.site, n, d)
  BY <1>0 DEF CutoverInv, RowsHold
<1>2. CASE PutRecord(n)
  <2>1. /\ round.pc = "push" /\ n \in round.want /\ SetRecord(round.site, n, round.ttl)
        /\ UNCHANGED <<dbVars, editor, publisher, loaded, round>>
    BY <1>2 DEF PutRecord, Misplaced
  <2>2. n \in Assigned(round.pubs[round.site])
    BY <2>1 DEF CutoverInv, WantedHold
  <2>3. drain[round.site][n] # NoDrain => ~drain[round.site][n].ready
    BY <1>1, <2>1, <2>2 DEF CutoverInv, RoundHolds, StillServed, RowHolds
  <2> QED BY <1>0, <2>1, <2>3, CutoverRecord
<1>3. CASE DeleteRecord(n)
  <2>1. /\ round.pc = "push" /\ dns[round.site][n] > 0 /\ SetRecord(round.site, n, 0)
        /\ UNCHANGED <<dbVars, editor, publisher, loaded, round>>
    BY <1>3 DEF DeleteRecord, Leftover
  <2>2. dns[round.site][n] # 0
    BY <1>0, <2>1, DNSTypes
  <2>3. drain[round.site][n] # NoDrain => ~drain[round.site][n].ready
    BY <1>1, <2>2 DEF RowHolds
  <2> QED BY <2>1, <2>3, CutoverRecord DEF Reachable
<1> QED BY <1>2, <1>3

\* The longest TTL is one of those the settings accept.
LEMMA RemoveAfterType ==
    ASSUME TypeInv, round.pc = "push"
    PROVE  RemoveAfter(round.site) \in Nat /\ RemoveAfter(round.site) >= Grace
<1>1. round.pubs[round.site] # NoPub /\ round.site \in Sites
  BY DEF TypeInv, TypeOK, PublicationsKept, Round
<1>2. DrainTTL(round.site) \in Nat
  BY <1>1, DrainTTLType, TTLType
<1> QED BY <1>2, TimeAssumption DEF RemoveAfter

\* The timers that the round starts.
LEMMA ReadyRows ==
    ASSUME CutoverInv, MarkDNSReady, NEW t \in Sites, NEW n \in Nodes
    PROVE  LET s == round.site IN
           \/ drain'[t][n] = drain[t][n]
           \/ /\ t = s /\ drain[t][n] \in Drain /\ ~drain[t][n].ready
              /\ drain'[t][n] \in Drain /\ drain'[t][n].ready
              /\ drain'[t][n].left = RemoveAfter(s) /\ drain'[t][n].cfg = drain[t][n].cfg
              /\ drain'[t][n].claim = drain[t][n].claim
              /\ drain'[t][n].target = drain[t][n].target
<1> DEFINE s == round.site
           ready(d) == [d EXCEPT !.ready = TRUE, !.ttl = DrainTTL(s), !.left = RemoveAfter(s)]
           rows == [m \in Nodes |-> IF drain[s][m] # NoDrain /\ ~drain[s][m].ready
                                    THEN ready(drain[s][m]) ELSE drain[s][m]]
<1>1. TypeInv /\ s \in Sites /\ round.pc = "push"
  BY DEF MarkDNSReady, CutoverInv, VersionInv, TypeInv, TypeOK, Round
<1>2. \/ drain' = drain
      \/ drain' = [drain EXCEPT ![s] = rows]
  BY DEF MarkDNSReady
<1>3. CASE drain' = drain
  BY <1>3
<1>4. CASE drain' = [drain EXCEPT ![s] = rows] /\ t # s
  <2> HIDE DEF rows
  <2> QED BY <1>1, <1>4 DEF TypeInv, TypeOK
<1>5. CASE drain' = [drain EXCEPT ![s] = rows] /\ t = s
  <2>1. drain[t][n] \in Drain \cup {NoDrain}
    BY <1>1 DEF TypeInv, TypeOK, Row
  <2>2. drain'[t][n] = IF drain[t][n] # NoDrain /\ ~drain[t][n].ready
                       THEN ready(drain[t][n]) ELSE drain[t][n]
    BY <1>1, <1>5 DEF TypeInv, TypeOK
  <2>3. CASE drain[t][n] # NoDrain /\ ~drain[t][n].ready
    <3>1. drain'[t][n] = [drain[t][n] EXCEPT !.ready = TRUE, !.ttl = DrainTTL(s),
                                             !.left = RemoveAfter(s)]
      BY <2>2, <2>3
    <3>2. drain[t][n] \in Drain
      BY <2>1, <2>3
    <3>3. /\ drain'[t][n].ready /\ drain'[t][n].left = RemoveAfter(s)
          /\ drain'[t][n].cfg = drain[t][n].cfg
          /\ drain'[t][n].claim = drain[t][n].claim
          /\ drain'[t][n].target = drain[t][n].target
      BY <3>1, <3>2 DEF Drain
    <3>4. drain'[t][n] \in Drain
      <4>1. RemoveAfter(s) \in Nat /\ DrainTTL(s) \in TTLs \cup {0}
        BY <1>1, RemoveAfterType, DrainTTLType DEF TTL, TypeInv, PublicationsKept
      <4> HIDE DEF s
      <4> QED BY <3>1, <3>2, <4>1 DEF Drain
    <3> QED BY <1>5, <2>3, <3>2, <3>3, <3>4
  <2>4. CASE ~(drain[t][n] # NoDrain /\ ~drain[t][n].ready)
    BY <2>2, <2>4
  <2> QED BY <2>3, <2>4
<1> QED BY <1>2, <1>3, <1>4, <1>5

LEMMA CutoverMarkDNSReady ==
    ASSUME CutoverInv, VersionInv', MarkDNSReady PROVE CutoverInv'
<1> DEFINE s == round.site
           ready(d) == [d EXCEPT !.ready = TRUE, !.ttl = DrainTTL(s), !.left = RemoveAfter(s)]
<1>0. /\ TypeInv /\ s \in Sites /\ round.pc = "push" /\ Leftover(s) = {}
      /\ UNCHANGED <<draft, editor, desired, applied, publisher, loaded, dns, cache>>
      /\ round' = Skip(s)
  BY DEF MarkDNSReady, CutoverInv, VersionInv, TypeInv, TypeOK, Round, dnsVars
<1>1. CASE ~SitePublicationCurrent(s)
  <2>1. UNCHANGED <<pub, drain>>
    BY <1>1 DEF MarkDNSReady
  <2>2. UNCHANGED <<dbVars, editor, publisher, loaded, dnsVars>>
    BY <2>1 DEF MarkDNSReady, dbVars
  <2> QED BY <1>0, <2>2, SkipLeaves, CutoverLeavesSite
<1>2. CASE SitePublicationCurrent(s)
  <2>1. /\ pub' = [pub EXCEPT ![s].ttl = round.ttl]
        /\ drain' = [drain EXCEPT ![s] =
             [n \in Nodes |-> IF drain[s][n] # NoDrain /\ ~drain[s][n].ready
                              THEN ready(drain[s][n]) ELSE drain[s][n]]]
    BY <1>2 DEF MarkDNSReady
  <2>2. round.pubs[s] # NoPub /\ pub[s] # NoPub /\ pub[s] \in Publication
    BY <1>0 DEF TypeInv, TypeOK, PublicationsKept
  <2>3. /\ pub'[s] # NoPub /\ pub'[s].cfg = pub[s].cfg /\ pub'[s].seq = pub[s].seq
        /\ \A t \in Sites \ {s} : pub'[t] = pub[t]
    <3>1. pub'[s] = [pub[s] EXCEPT !.ttl = round.ttl] /\ \A t \in Sites \ {s} : pub'[t] = pub[t]
      BY <1>0, <2>1 DEF TypeInv, TypeOK
    <3>2. round.ttl \in TTLs \cup {0}
      BY <1>0 DEF TypeInv, TypeOK, Round
    <3>3. pub'[s] \in Publication /\ pub'[s].cfg = pub[s].cfg /\ pub'[s].seq = pub[s].seq
      BY <2>2, <3>1, <3>2 DEF Publication
    <3> QED BY <3>1, <3>3, ConfigAssumption
  <2>4. \A t \in Sites : /\ Assigned(pub'[t]) = Assigned(pub[t])
                         /\ Generation(pub'[t]) = Generation(pub[t])
                         /\ pub'[t] = pub[t] \/ pub'[t].cfg = pub[t].cfg
                         /\ pub'[t] = NoPub <=> pub[t] = NoPub
    BY <2>2, <2>3 DEF Assigned, Generation
  <2>5. \A t \in Sites, n \in Nodes :
            \/ drain'[t][n] = drain[t][n]
            \/ /\ t = s /\ drain[t][n] \in Drain /\ ~drain[t][n].ready
               /\ drain'[t][n] \in Drain /\ drain'[t][n].ready
               /\ drain'[t][n].left = RemoveAfter(s) /\ drain'[t][n].cfg = drain[t][n].cfg
               /\ drain'[t][n].claim = drain[t][n].claim
               /\ drain'[t][n].target = drain[t][n].target
    BY ReadyRows
  <2>6. \A n \in Nodes : drain[s][n] # NoDrain => dns[s][n] = 0
    <3> TAKE n \in Nodes
    <3> HAVE drain[s][n] # NoDrain
    <3>1. n \notin Assigned(pub[s])
      BY <1>0 DEF CutoverInv, RowsHold, RowHolds
    <3>2. n \notin Assigned(round.pubs[s])
      BY <1>0, <1>2, <2>2, <3>1 DEF CutoverInv, RoundHolds, Assigned
    <3>3. n \notin round.want
      BY <1>0, <3>2 DEF CutoverInv, WantedHold
    <3>4. ~(dns[s][n] > 0)
      BY <1>0, <3>3 DEF Leftover
    <3> QED BY <1>0, <3>4, DNSTypes
  <2>7. RemoveAfter(s) \in Nat /\ RemoveAfter(s) >= Grace
    BY <1>0, RemoveAfterType
  <2> HIDE DEF s, ready
  <2>8. \A t \in Sites, n \in Nodes : drain'[t][n] # NoDrain =>
            /\ drain[t][n] # NoDrain
            /\ RowHolds(t, n, drain[t][n])
            /\ \A body : ServesRow(drain[t][n], cache[t][n], body)
                         => ServesRow(drain'[t][n], cache[t][n], body)
    BY <2>5, ConfigAssumption DEF CutoverInv, RowsHold, ServesRow
  <2>9. RowsHold'
    <3> SUFFICES ASSUME NEW t \in Sites, NEW n \in Nodes, drain'[t][n] # NoDrain
                 PROVE  RowHolds(t, n, drain[t][n])'
      BY DEF RowsHold
    <3>1. /\ n \notin Assigned(pub'[t])
          /\ ServesRow(drain'[t][n], cache[t][n], desired[n].body[t])
      BY <2>4, <2>8 DEF RowHolds
    <3>2. CASE drain'[t][n] = drain[t][n]
      BY <1>0, <2>8, <3>1, <3>2 DEF RowHolds
    <3>3. CASE drain'[t][n] # drain[t][n]
      <4>1. /\ t = s /\ ~drain[t][n].ready /\ drain[t][n].claim = "none"
            /\ drain'[t][n].left = RemoveAfter(s) /\ drain'[t][n].claim = "none"
        BY <2>5, <2>8, <3>3 DEF RowHolds
      <4>2. dns[t][n] = 0 /\ cache[t][n] =< drain'[t][n].left
        <5>1. cache[t][n] \in Nat /\ cache[t][n] =< Grace
          BY DNSTypes
        <5> QED BY <2>6, <2>7, <2>8, <4>1, <5>1, TimeAssumption
      <4> QED BY <1>0, <3>1, <4>1, <4>2 DEF RowHolds
    <3> QED BY <3>2, <3>3
  <2>10. ReachableNodesKept'
    <3>1. \A t \in Sites, n \in Nodes : drain[t][n] # NoDrain => drain'[t][n] # NoDrain
      BY <2>5, ConfigAssumption
    <3> QED BY <1>0, <2>4, <3>1 DEF CutoverInv, ReachableNodesKept, Reachable
  <2>11. PublicationMatchesStates'
    BY <1>0, <2>4 DEF CutoverInv, PublicationMatchesStates
  <2>12. PreparedHolds'
    <3> SUFFICES ASSUME publisher.busy
                 PROVE  PreparedKeeps(publisher)' /\ PreparedMatchesDraft(publisher)'
      BY <1>0 DEF PreparedHolds
    <3>1. PreparedKeeps(publisher) /\ PreparedMatchesDraft(publisher)
      BY DEF CutoverInv, PreparedHolds
    <3>2. publisher.site \in Sites /\ AssignedNodeIDs(draft[publisher.site].cfg) \subseteq Nodes
      BY <1>0, BusyPublisher
    <3>3. PreparedKeeps(publisher)'
      BY <1>0, <2>4, <2>8, <3>1, SMTT(30) DEF PreparedKeeps
    <3>4. PreparedMatchesDraft(publisher)'
      BY <1>0, <2>4, <2>8, <3>1, <3>2 DEF PreparedMatchesDraft, DraftUnchanged
    <3> QED BY <3>3, <3>4
  <2>13. RoundHolds' /\ WantedHold'
    <3>1. round'.pc = "site" /\ round'.pubs = round.pubs /\ round'.applied = round.applied
      BY <1>0, SkipLeaves
    <3> QED BY <1>0, <2>4, <3>1 DEF CutoverInv, RoundHolds, WantedHold, SitePublicationCurrent
  <2>14. EditorReadsCurrent'
    BY <1>0 DEF CutoverInv, EditorReadsCurrent
  <2> QED BY <2>9, <2>10, <2>11, <2>12, <2>13, <2>14 DEF CutoverInv
<1> QED BY <1>1, <1>2

-----------------------------------------------------------------------------
(* Cleanup *)

\* The drains without those that are due, and what a node serves without its.
WithoutDue(s) ==
    [drain EXCEPT ![s] = [n \in Nodes |-> IF n \in DueDrains(s) THEN NoDrain ELSE drain[s][n]]]

Cleaned(s, n) == NextState(n, Rendered(pub, WithoutDue(s), n))

\* A drain that is due is out of reach, and its node serves the site no more
\* once it has loaded what the cleanup renders.
LEMMA DueRow ==
    ASSUME CutoverInv, NEW s \in Sites, NEW n \in DueDrains(s)
    PROVE  /\ n \in Nodes /\ active[n]
           /\ drain[s][n] \in Drain /\ drain[s][n] # NoDrain
           /\ drain[s][n].ready /\ drain[s][n].left = 0 /\ drain[s][n].claim = "none"
           /\ dns[s][n] = 0 /\ cache[s][n] = 0 /\ n \notin Assigned(pub[s])
<1>1. /\ n \in Nodes /\ active[n] /\ drain[s][n] # NoDrain
      /\ drain[s][n].ready /\ drain[s][n].left = 0 /\ drain[s][n].claim = "none"
  BY DEF DueDrains, Draining
<1>2. drain[s][n] \in Drain
  BY <1>1 DEF CutoverInv, VersionInv, TypeInv, TypeOK, Row
<1>3. RowHolds(s, n, drain[s][n])
  BY <1>1 DEF CutoverInv, RowsHold
<1>4. dns[s][n] = 0 /\ cache[s][n] = 0 /\ n \notin Assigned(pub[s])
  BY <1>1, <1>3, DNSTypes DEF RowHolds
<1> QED BY <1>1, <1>2, <1>4

LEMMA CleanedBodies ==
    ASSUME CutoverInv, NEW s \in Sites, NEW n \in DueDrains(s)
    PROVE  /\ Cleaned(s, n).body[s] = NoBody
           /\ \A t \in Sites \ {s} :
                 /\ n \in Assigned(pub[t]) => Cleaned(s, n).body[t] = pub[t].cfg.body
                 /\ n \notin Assigned(pub[t]) /\ drain[t][n] # NoDrain
                    => Cleaned(s, n).body[t]
                         = (IF drain[t][n].claim = "none" THEN drain[t][n].cfg.body ELSE NoBody)
<1>1. n \in Nodes /\ n \notin Assigned(pub[s])
  BY DueRow
<1>2. Cleaned(s, n).body = Rendered(pub, WithoutDue(s), n)
  BY <1>1, NextStateRenders DEF Cleaned, CutoverInv, VersionInv
<1>3. /\ WithoutDue(s)[s][n] = NoDrain
      /\ \A t \in Sites \ {s} : WithoutDue(s)[t] = drain[t]
  BY <1>1 DEF WithoutDue, CutoverInv, VersionInv, TypeInv, TypeOK
<1>4. Cleaned(s, n).body[s] = NoBody
  BY <1>1, <1>2, <1>3 DEF Rendered
<1>5. ASSUME NEW t \in Sites \ {s}
      PROVE  /\ n \in Assigned(pub[t]) => Cleaned(s, n).body[t] = pub[t].cfg.body
             /\ n \notin Assigned(pub[t]) /\ drain[t][n] # NoDrain
                => Cleaned(s, n).body[t]
                     = (IF drain[t][n].claim = "none" THEN drain[t][n].cfg.body ELSE NoBody)
  <2> DEFINE body == Cleaned(s, n).body[t]
             d == drain[t][n]
  <2>1. body = (IF n \in Assigned(pub[t]) THEN pub[t].cfg.body
                ELSE IF d # NoDrain /\ d.claim = "none" THEN d.cfg.body ELSE NoBody)
    <3>1. body = Rendered(pub, WithoutDue(s), n)[t] /\ WithoutDue(s)[t] = drain[t]
      BY <1>2, <1>3
    <3> HIDE DEF body
    <3> QED BY <3>1 DEF Rendered
  <2> HIDE DEF body, d
  <2>2. /\ n \in Assigned(pub[t]) => body = pub[t].cfg.body
        /\ n \notin Assigned(pub[t]) /\ d # NoDrain
           => body = (IF d.claim = "none" THEN d.cfg.body ELSE NoBody)
    BY <2>1
  <2> QED BY <2>2 DEF body, d
<1> QED BY <1>4, <1>5

LEMMA CleanedVersion ==
    ASSUME CutoverInv, NEW s \in Sites, NEW n \in DueDrains(s)
    PROVE  /\ TargetVersion(n, Cleaned(s, n)) \in Nat
           /\ TargetVersion(n, Cleaned(s, n)) \in {0, Cleaned(s, n).ver}
           /\ TargetVersion(n, Cleaned(s, n)) = 0 => loaded[n] = Cleaned(s, n)
           /\ loaded[n].ver >= Cleaned(s, n).ver => loaded[n] = Cleaned(s, n)
<1>1. n \in Nodes /\ active[n]
  BY DueRow
<1>2. /\ desired[n].ver \in Nat /\ loaded[n].ver \in Nat /\ applied[n] \in Nat
      /\ loaded[n].ver =< desired[n].ver
      /\ loaded[n].ver = desired[n].ver => loaded[n] = desired[n]
  BY <1>1 DEF CutoverInv, VersionInv, VersionsOrdered, TypeInv, TypeOK, State
<1>3. \/ Cleaned(s, n) = desired[n] /\ desired[n].ver > 0
      \/ Cleaned(s, n).ver = desired[n].ver + 1
  BY DEF Cleaned, NextState
<1>4. TargetVersion(n, Cleaned(s, n))
        = (IF Cleaned(s, n) # desired[n] \/ applied[n] < Cleaned(s, n).ver
           THEN Cleaned(s, n).ver ELSE 0)
  BY <1>1 DEF TargetVersion
<1>5. applied[n] >= desired[n].ver => loaded[n] = desired[n]
  BY <1>1, ConfirmedIsLoaded
<1>6. CASE Cleaned(s, n) = desired[n] /\ desired[n].ver > 0
  BY <1>2, <1>4, <1>5, <1>6
<1>7. CASE Cleaned(s, n).ver = desired[n].ver + 1
  BY <1>2, <1>4, <1>7
<1> QED BY <1>3, <1>6, <1>7

\* PruneAppliedSiteNodeDrains: every due node has dropped the site already.
LEMMA PruneSettles ==
    ASSUME CutoverInv, NEW s \in Sites, drain' = WithoutDue(s),
           \A n \in DueDrains(s) : TargetVersion(n, Cleaned(s, n)) = 0
    PROVE  RowsSettle
<1> SUFFICES ASSUME NEW t \in Sites, NEW n \in Nodes
             PROVE  RowSettles(t, n, drain[t][n], drain'[t][n])
  BY DEF RowsSettle
<1>1. drain'[t][n] = IF t = s /\ n \in DueDrains(s) THEN NoDrain ELSE drain[t][n]
  BY DEF WithoutDue, CutoverInv, VersionInv, TypeInv, TypeOK
<1>2. CASE t = s /\ n \in DueDrains(s)
  <2>1. loaded[n].body[s] = NoBody
    BY <1>2, CleanedBodies, CleanedVersion
  <2> QED BY <1>1, <1>2, <2>1, DueRow DEF RowSettles, Serves
<1>3. CASE ~(t = s /\ n \in DueDrains(s))
  BY <1>1, <1>3 DEF RowSettles
<1> QED BY <1>2, <1>3

\* StageDrainCleanup: the due rows are claimed by the states without the site.
LEMMA StagedRowsHold ==
    ASSUME CutoverInv, NEW s \in Sites, NEW target,
           \A n \in DueDrains(s) : target[n] = TargetVersion(n, Cleaned(s, n)),
           UNCHANGED <<pub, loaded, dns, cache>>,
           desired' = [n \in Nodes |-> IF n \in DueDrains(s) THEN Cleaned(s, n) ELSE desired[n]],
           drain' = [drain EXCEPT ![s] = StagedRow(s, DueDrains(s), target)]
    PROVE  /\ RowsHold' /\ PublicationMatchesStates' /\ ReachableNodesKept'
           /\ \A t \in Sites, n \in Nodes : drain[t][n] # NoDrain => drain'[t][n] # NoDrain
<1> DEFINE due == DueDrains(s)
<1>1. \A n \in Nodes : desired'[n] = IF n \in due THEN Cleaned(s, n) ELSE desired[n]
  OBVIOUS
<1>2. /\ \A t \in Sites \ {s} : drain'[t] = drain[t]
      /\ \A n \in Nodes :
            drain'[s][n] = IF n \notin due THEN drain[s][n]
                           ELSE IF target[n] = 0 THEN [drain[s][n] EXCEPT !.claim = "untracked"]
                           ELSE [drain[s][n] EXCEPT !.claim = "pending", !.target = target[n]]
  BY DEF StagedRow, CutoverInv, VersionInv, TypeInv, TypeOK
<1>3. \A n \in due :
          /\ drain'[s][n].ready = drain[s][n].ready /\ drain'[s][n].left = drain[s][n].left
          /\ drain'[s][n].claim \in {"pending", "untracked"}
          /\ drain'[s][n].claim = "untracked" => target[n] = 0
          /\ drain'[s][n].claim = "pending" => drain'[s][n].target = target[n] /\ target[n] # 0
          /\ drain'[s][n] # NoDrain
  <2> TAKE n \in due
  <2>1. drain[s][n] \in Drain /\ n \in Nodes /\ target[n] \in Nat
    BY DueRow, CleanedVersion
  <2>2. \/ target[n] = 0 /\ drain'[s][n] = [drain[s][n] EXCEPT !.claim = "untracked"]
        \/ target[n] # 0 /\ drain'[s][n] = [drain[s][n] EXCEPT !.claim = "pending",
                                                               !.target = target[n]]
    BY <1>2, <2>1
  <2>3. /\ drain'[s][n].ready = drain[s][n].ready /\ drain'[s][n].left = drain[s][n].left
        /\ \/ drain'[s][n].claim = "untracked" /\ target[n] = 0
           \/ /\ drain'[s][n].claim = "pending" /\ drain'[s][n].target = target[n]
              /\ target[n] # 0
        /\ drain'[s][n] \in Drain
    <3> DEFINE d == drain[s][n]
               e == drain'[s][n]
               v == target[n]
    <3>1. /\ d \in Drain
          /\ v \in Nat
          /\ \/ v = 0 /\ e = [d EXCEPT !.claim = "untracked"]
             \/ v # 0 /\ e = [d EXCEPT !.claim = "pending", !.target = v]
      BY <2>1, <2>2
    <3> HIDE DEF d, e, v
    <3>2. /\ e.ready = d.ready /\ e.left = d.left
          /\ \/ e.claim = "untracked" /\ v = 0
             \/ e.claim = "pending" /\ e.target = v /\ v # 0
          /\ e \in Drain
      <4>1. CASE v = 0 /\ e = [d EXCEPT !.claim = "untracked"]
        BY <3>1, <4>1 DEF Drain
      <4>2. CASE v # 0 /\ e = [d EXCEPT !.claim = "pending", !.target = v]
        BY <3>1, <4>2 DEF Drain
      <4> QED BY <3>1, <4>1, <4>2
    <3> QED BY <3>2 DEF d, e, v
  <2> QED BY <2>3, ConfigAssumption
<1>4. \A t \in Sites : Assigned(pub[t]) \subseteq Nodes
  BY AssignedNodes DEF CutoverInv, VersionInv, TypeInv, TypeOK
<1> HIDE DEF due
<1>5. \A t \in Sites, n \in Nodes :
          ~(t = s /\ n \in due) => drain'[t][n] = drain[t][n]
  BY <1>2
<1>6. RowsHold'
  <2> SUFFICES ASSUME NEW t \in Sites, NEW n \in Nodes, drain'[t][n] # NoDrain
               PROVE  RowHolds(t, n, drain[t][n])'
    BY DEF RowsHold
  <2>1. CASE t = s /\ n \in due
    <3>1. /\ drain[s][n].ready /\ drain[s][n].left = 0 /\ dns[s][n] = 0 /\ cache[s][n] = 0
          /\ n \notin Assigned(pub[s])
      BY <2>1, DueRow DEF due
    <3>2. /\ desired'[n].body[s] = NoBody
          /\ target[n] = 0 => loaded[n].body[s] = NoBody
          /\ target[n] # 0 /\ loaded[n].ver >= target[n] => loaded[n].body[s] = NoBody
      BY <1>1, <2>1, CleanedBodies, CleanedVersion DEF due
    <3> QED BY <1>3, <2>1, <3>1, <3>2 DEF RowHolds, ServesRow
  <2>2. CASE ~(t = s /\ n \in due)
    <3>1. drain'[t][n] = drain[t][n] /\ RowHolds(t, n, drain[t][n])
      BY <1>5, <2>2 DEF CutoverInv, RowsHold
    <3>2. ServesRow(drain[t][n], cache[t][n], desired'[n].body[t])
      <4>1. CASE n \in due
        <5>1. desired'[n].body[t]
                = (IF drain[t][n].claim = "none" THEN drain[t][n].cfg.body ELSE NoBody)
          BY <1>1, <2>2, <3>1, <4>1, CleanedBodies DEF due, RowHolds
        <5> QED BY <5>1 DEF ServesRow
      <4>2. CASE n \notin due
        BY <1>1, <3>1, <4>2 DEF RowHolds
      <4> QED BY <4>1, <4>2
    <3> QED BY <3>1, <3>2 DEF RowHolds
  <2> QED BY <2>1, <2>2
<1>7. PublicationMatchesStates'
  <2> SUFFICES ASSUME NEW t \in Sites, NEW n \in Assigned(pub[t])
               PROVE  desired'[n].body[t] = pub[t].cfg.body
    BY DEF PublicationMatchesStates
  <2>1. CASE n \in due
    <3>1. t # s
      BY <2>1, DueRow DEF due
    <3> QED BY <1>1, <1>4, <2>1, <3>1, CleanedBodies DEF due
  <2>2. CASE n \notin due
    BY <1>1, <1>4, <2>2 DEF CutoverInv, PublicationMatchesStates
  <2> QED BY <2>1, <2>2
<1>8. ReachableNodesKept'
  <2> SUFFICES ASSUME NEW t \in Sites, NEW n \in Nodes, Reachable(t, n)
               PROVE  /\ Serves(loaded[n], t)
                      /\ n \in Assigned(pub[t]) \/ drain'[t][n] # NoDrain
    BY DEF ReachableNodesKept, Reachable
  <2>1. ~(t = s /\ n \in due)
    BY DueRow, DNSTypes DEF Reachable, due
  <2> QED BY <1>5, <2>1 DEF CutoverInv, ReachableNodesKept
<1> QED BY <1>3, <1>5, <1>6, <1>7, <1>8

LEMMA DrainsOutcome ==
    ASSUME CutoverInv, NEW s \in Sites, ReconcileDrains(s)
    PROVE  \/ UNCHANGED <<desired, drain>>
           \/ /\ drain' = WithoutDue(s) /\ UNCHANGED desired
              /\ \A n \in DueDrains(s) : TargetVersion(n, Cleaned(s, n)) = 0
           \/ \E target :
                 /\ \A n \in DueDrains(s) : target[n] = TargetVersion(n, Cleaned(s, n))
                 /\ desired' = [n \in Nodes |-> IF n \in DueDrains(s) THEN Cleaned(s, n)
                                                ELSE desired[n]]
                 /\ drain' = [drain EXCEPT ![s] = StagedRow(s, DueDrains(s), target)]
<1> DEFINE state == [n \in Nodes |-> IF n \in DueDrains(s) THEN Cleaned(s, n) ELSE desired[n]]
           target == [n \in Nodes |-> IF n \in DueDrains(s) THEN TargetVersion(n, state[n]) ELSE 0]
<1>1. \A n \in DueDrains(s) : n \in Nodes /\ state[n] = Cleaned(s, n)
                              /\ target[n] = TargetVersion(n, Cleaned(s, n))
  BY DEF DueDrains, Draining
<1>2. \/ UNCHANGED <<desired, drain>>
      \/ drain' = WithoutDue(s) /\ UNCHANGED desired /\ \A n \in Nodes : target[n] = 0
      \/ desired' = state /\ drain' = [drain EXCEPT ![s] = StagedRow(s, DueDrains(s), target)]
  BY Zenon DEF ReconcileDrains, Cleaned, WithoutDue
<1> HIDE DEF target
<1> QED BY <1>1, <1>2

LEMMA CutoverReconcileDrains ==
    ASSUME CutoverInv, VersionInv', NEW s \in Sites, ReconcileDrains(s)
    PROVE  CutoverInv'
<1>1. /\ UNCHANGED <<draft, editor, pub, applied, publisher, loaded, dns, cache>>
      /\ round.pc = "clean" /\ round' = [round EXCEPT !.todo = @ \ {s}]
  BY DEF ReconcileDrains, dnsVars
<1>2. /\ round'.pc = "clean" /\ round'.pubs = round.pubs
      /\ round'.applied = round.applied
  BY <1>1 DEF CutoverInv, VersionInv, TypeInv, TypeOK, Round
<1>3. \A n \in Nodes : round'.applied[n] =< applied'[n] /\ applied[n] =< applied'[n]
  BY <1>1, <1>2 DEF CutoverInv, RoundHolds, VersionInv, TypeInv, TypeOK
<1>4. CASE UNCHANGED <<desired, drain>>
  <2>1. RowsSettle
    BY <1>4, NothingSettles DEF RowsSettle
  <2> QED BY <1>1, <1>2, <1>3, <1>4, <2>1, SettleStep
<1>5. CASE drain' = WithoutDue(s) /\ UNCHANGED desired
           /\ \A n \in DueDrains(s) : TargetVersion(n, Cleaned(s, n)) = 0
  <2>1. RowsSettle
    BY <1>5, PruneSettles
  <2> QED BY <1>1, <1>2, <1>3, <1>5, <2>1, SettleStep
<1>6. ASSUME NEW target,
             \A n \in DueDrains(s) : target[n] = TargetVersion(n, Cleaned(s, n)),
             desired' = [n \in Nodes |-> IF n \in DueDrains(s) THEN Cleaned(s, n) ELSE desired[n]],
             drain' = [drain EXCEPT ![s] = StagedRow(s, DueDrains(s), target)]
      PROVE  CutoverInv'
  <2>1. RowsHold' /\ PublicationMatchesStates' /\ ReachableNodesKept'
    BY <1>1, <1>6, StagedRowsHold
  <2>2. PreparedHolds'
    BY <1>1 DEF PreparedHolds, CutoverInv, VersionInv, PreparedIsNewer
  <2>3. RoundHolds' /\ WantedHold' /\ EditorReadsCurrent'
    BY <1>1, <1>2 DEF CutoverInv, RoundHolds, WantedHold, SitePublicationCurrent, EditorReadsCurrent
  <2> QED BY <2>1, <2>2, <2>3 DEF CutoverInv
<1> QED BY <1>4, <1>5, <1>6, DrainsOutcome

-----------------------------------------------------------------------------
(* The invariant holds *)

LEMMA IdleRoundType == IdleRound \in Round
<1>1. (CHOOSE s \in Sites : TRUE) \in Sites
  BY ConfigAssumption
<1> QED BY <1>1 DEF IdleRound, Round

LEMMA CutoverRound == ASSUME CutoverInv, VersionInv', RoundNext PROVE CutoverInv'
<1>0. TypeInv /\ round.site \in Sites
  BY DEF CutoverInv, VersionInv, TypeInv, TypeOK, Round
<1>1. CASE BeginRound
  BY <1>1, CutoverBeginRound
<1>2. CASE ReconcileDNSFails
  BY <1>0, <1>2, SkipLeaves, CutoverLeavesSite DEF ReconcileDNSFails
<1>3. CASE BeginReconcileDrains \/ EndRound
  <2>1. UNCHANGED <<dbVars, editor, publisher, loaded, dnsVars>>
    BY <1>3 DEF BeginReconcileDrains, EndRound
  <2>2. /\ round'.pc \in {"idle", "clean"}
        /\ round'.pubs = IdleRound.pubs /\ round'.applied = IdleRound.applied
    <3>1. IdleRound \in Round
      BY IdleRoundType
    <3>2. IdleRound.pc = "idle"
      BY DEF IdleRound
    <3> QED BY <1>3, <3>1, <3>2 DEF BeginReconcileDrains, EndRound, Round
  <2> QED BY <2>1, <2>2, CutoverIdle
<1> QED BY <1>1, <1>2, <1>3, CutoverListSitePublications, CutoverCheckSite, CutoverCheckPools,
          CutoverDNS, CutoverMarkDNSReady, CutoverReconcileDrains DEF RoundNext

LEMMA CutoverNode == ASSUME CutoverInv, VersionInv', NodeNext PROVE CutoverInv'
<1>1. PICK n \in Nodes :
          \/ PublishNode(n) \/ EdgeApply(n)
          \/ SetNodeStatus(n) \/ StartUpgrade(n) \/ FinishUpgrade(n)
          \/ HeartbeatApplied(n)
          \/ \E v \in loaded[n].ver + 1 .. desired[n].ver : HeartbeatRejected(n, v)
  BY DEF NodeNext
<1>2. CASE SetNodeStatus(n) \/ StartUpgrade(n) \/ FinishUpgrade(n)
  BY <1>2, CutoverFrame DEF SetNodeStatus, StartUpgrade, FinishUpgrade, dnsVars
<1> QED BY <1>1, <1>2, CutoverPublishNode, CutoverEdgeApply, CutoverHeartbeat

LEMMA CutoverNext == OneEditor /\ CutoverInv /\ [Next]_vars => CutoverInv'
<1> SUFFICES ASSUME OneEditor, CutoverInv, [Next]_vars PROVE CutoverInv'
  OBVIOUS
<1>1. VersionInv'
  BY VersionNext DEF CutoverInv
<1>2. CASE PublisherNext
  BY <1>1, <1>2, CutoverBeginPublish, CutoverCommitPublish, CutoverFailPublish DEF PublisherNext
<1>3. CASE UNCHANGED vars
  BY <1>1, <1>3, CutoverFrame DEF vars
<1> QED BY <1>1, <1>2, <1>3, CutoverEditor, CutoverNode, CutoverExpire, CutoverRound, CutoverRestart,
          CutoverTick DEF Next

LEMMA CutoverInit == Init => CutoverInv
<1> SUFFICES ASSUME Init PROVE CutoverInv
  OBVIOUS
<1>1. VersionInv
  BY VersionInit
<1>2. ~publisher.busy
  BY Zenon DEF Init, NoPublish
<1>3. /\ \A s \in Sites : pub[s] = NoPub
      /\ \A s \in Sites, n \in Nodes : drain[s][n] = NoDrain /\ dns[s][n] = 0 /\ cache[s][n] = 0
      /\ \A e \in Editors, s \in Sites : editor[e][s] = 0
      /\ round.pc = "idle"
      /\ \A n \in Nodes : round.applied[n] = 0 /\ applied[n] = 0
      /\ \A s \in Sites : round.pubs[s] = NoPub
  BY DEF Init, IdleRound
<1>4. PreparedHolds
  BY <1>2 DEF PreparedHolds
<1>5. RoundHolds /\ WantedHold
  BY <1>3 DEF RoundHolds, WantedHold, Generation
<1>6. RowsHold /\ ReachableNodesKept /\ PublicationMatchesStates /\ EditorReadsCurrent
  BY <1>3 DEF RowsHold, ReachableNodesKept, Reachable, PublicationMatchesStates, Assigned,
              EditorReadsCurrent
<1> QED BY <1>1, <1>4, <1>5, <1>6 DEF CutoverInv

-----------------------------------------------------------------------------
(* The theorems *)

\* A node's state is never changed under its version, whatever is edited,
\* published, cleaned up or restarted at the same time: what the edge compares
\* (renderNodeStateUpdates, EdgeApply) identifies what it serves.
THEOREM VersionsIdentifyContent == Spec => VersionIdentifiesContent
<1> DEFINE Newer == \A n \in Nodes : desired'[n] # desired[n] => desired'[n].ver > desired[n].ver
<1>1. VersionInv /\ [Next]_vars => [Newer]_vars
  <2> SUFFICES ASSUME VersionInv, Next PROVE Newer
    OBVIOUS
  <2>1. CASE PublisherNext
    BY <2>1 DEF PublisherNext, BeginPublish, CommitPublish, FailPublish, VersionInv, PreparedIsNewer
  <2>2. CASE NodeNext
    <3>1. PICK n \in Nodes : \/ PublishNode(n)
                             \/ UNCHANGED desired
      BY <2>2 DEF NodeNext, SetNodeStatus, StartUpgrade, FinishUpgrade, EdgeApply,
                  HeartbeatApplied, HeartbeatRejected, dbVars
    <3>2. CASE PublishNode(n)
      <4>1. desired' = [desired EXCEPT ![n] = NextState(n, Rendered(pub, drain, n))]
        BY <3>2 DEF PublishNode
      <4> QED BY <4>1, NextStateRenders DEF VersionInv, TypeInv, TypeOK
    <3> QED BY <3>1, <3>2
  <2>3. CASE \E s \in Sites : ReconcileDrains(s)
    BY <2>3, VersionReconcileDrains
  <2> QED BY <2>1, <2>2, <2>3, VersionOther DEF Next
<1> QED BY <1>1, VersionInit, VersionNext, PTL DEF Spec, VersionIdentifiesContent

\* With one update request of a draft at a time (see UpdateSite), the invariant
\* holds: an edit that two requests share a config_version for could be
\* published under a rendering of the other one.
LEMMA CutoverHolds ==
    ASSUME OneEditor PROVE Spec => []CutoverInv
<1>1. CutoverInv /\ [Next]_vars => CutoverInv'
  BY CutoverNext
<1> QED BY <1>1, CutoverInit, PTL DEF Spec

\* Clients are never sent to a node that does not serve the site, however
\* publications, cleanups, failures, restarts and cached answers interleave
\* (reconcileSiteDNSOutcomeForPublication, CommitSitePublicationWithDrains).
THEOREM TrafficIsServed ==
    ASSUME OneEditor PROVE Spec => []ReachableNodeServes
<1>1. CutoverInv => ReachableNodeServes
  BY DEF CutoverInv, ReachableNodesKept, ReachableNodeServes
<1> QED BY <1>1, CutoverHolds, PTL

\* An assigned node is always asked for exactly what is published, and a drain
\* whose timer runs has no record (CommitSitePublicationWithDrains,
\* MarkSiteNodeDrainsDNSReadyForPublication).
THEOREM StatesFollowPublications ==
    ASSUME OneEditor PROVE Spec => []StatesAndRecordsAgree
<1>1. CutoverInv => StatesAndRecordsAgree
  BY DEF CutoverInv, RowsHold, RowHolds, Draining, StatesAndRecordsAgree, ReadyMeansWithdrawn
<1> QED BY <1>1, CutoverHolds, PTL

\* A record created for the publication that is current points to a node that
\* has loaded it, although the round read nodes and publications long before.
THEOREM RecordsFollowConfirmation ==
    ASSUME OneEditor PROVE Spec => NewRecordServesCurrent
<1> DEFINE Served == \A s \in Sites, n \in Nodes :
                        /\ dns[s][n] = 0 /\ dns'[s][n] > 0
                        /\ SitePublicationCurrent(s)
                        => loaded[n].body[s] = pub[s].cfg.body
<1>1. CutoverInv /\ [Next]_vars => [Served]_vars
  <2> SUFFICES ASSUME CutoverInv, Next, NEW s \in Sites, NEW n \in Nodes,
                      dns[s][n] = 0, dns'[s][n] > 0, SitePublicationCurrent(s)
               PROVE  loaded[n].body[s] = pub[s].cfg.body
    OBVIOUS
  <2>1. ~(0 > 0)
    OBVIOUS
  <2>2. dns' # dns
    BY <2>1
  <2>3. PICK m \in Nodes : PutRecord(m) \/ DeleteRecord(m)
    BY <2>2 DEF Next, EditorNext, UpdateSiteRead, UpdateSiteWrite, PublisherNext, BeginPublish,
                CommitPublish, FailPublish, NodeNext, PublishNode, SetNodeStatus, StartUpgrade,
                FinishUpgrade, EdgeApply, HeartbeatApplied, HeartbeatRejected, ExpirePublishTask,
                ExpireDrainTask, RoundNext, BeginRound, ListSitePublications, CheckSite, CheckPools,
                ReconcileDNSFails, MarkDNSReady, BeginReconcileDrains, ReconcileDrains, EndRound,
                Restart, Tick, dbVars, dnsVars
  <2>4. PICK ttl : dns' = [dns EXCEPT ![round.site][m] = ttl] /\ (ttl = 0 \/ PutRecord(m))
    BY <2>3 DEF PutRecord, DeleteRecord, SetRecord
  <2>5. s = round.site /\ n = m /\ ttl = dns'[s][n]
    BY <2>1, <2>4 DEF CutoverInv, VersionInv, TypeInv, TypeOK
  <2>6. PutRecord(n)
    BY <2>1, <2>4, <2>5
  <2>7. round.pc = "push" /\ n \in round.want
    BY <2>6 DEF PutRecord, Misplaced
  <2> QED BY <2>5, <2>7 DEF CutoverInv, WantedHold
<1> QED BY <1>1, CutoverHolds, PTL DEF Spec, NewRecordServesCurrent

\* No cleanup forgets a node that still serves the site, whether its task
\* succeeds, fails, expires or is superseded, and whatever is restarted
\* (finishDrainCleanupTx, PruneAppliedSiteNodeDrains).
THEOREM CleanupsAreConfirmed ==
    ASSUME OneEditor PROVE Spec => CleanupConfirmed
<1> DEFINE Confirmed == \A s \in Sites, n \in Nodes :
                           drain[s][n] # NoDrain /\ drain'[s][n] = NoDrain
                           => n \in Assigned(pub'[s]) \/ ~Serves(loaded[n], s)
<1>1. CutoverInv /\ [Next]_vars => [Confirmed]_vars
  <2> SUFFICES ASSUME CutoverInv, Next PROVE Confirmed
    OBVIOUS
  <2>1. VersionInv'
    BY VersionNext DEF CutoverInv
  <2>2. CASE RowsSettle
    BY <2>2, RowAfterSettling DEF RowsSettle, CutoverInv, RowsHold
  <2>3. CASE drain' = drain
    BY <2>3
  <2>4. CASE PublisherNext
    <3>1. CASE \E s \in Sites : BeginPublish(s)
      BY <2>2, <3>1, ReconcilingSettles DEF BeginPublish
    <3>2. CASE CommitPublish
      BY <2>1, <3>2, CutoverCommitPublish
    <3> QED BY <2>3, <2>4, <3>1, <3>2 DEF PublisherNext, FailPublish
  <2>5. CASE NodeNext
    BY <2>2, <2>3, <2>5, HeartbeatSettles
       DEF NodeNext, PublishNode, SetNodeStatus, StartUpgrade, FinishUpgrade, EdgeApply, dbVars
  <2>6. CASE RoundNext
    <3>1. CASE BeginRound
      BY <2>2, <3>1, ReconcilingSettles DEF BeginRound
    <3>2. CASE MarkDNSReady
      BY <3>2, ReadyRows, ConfigAssumption
    <3>3. ASSUME NEW s \in Sites, ReconcileDrains(s) PROVE Confirmed
      <4>1. UNCHANGED <<pub, loaded, dns, cache>>
        BY <3>3 DEF ReconcileDrains, dnsVars
      <4> QED BY <2>2, <2>3, <3>3, <4>1, DrainsOutcome, PruneSettles, StagedRowsHold
    <3>4. CASE drain' = drain
      BY <3>4
    <3> QED BY <2>6, <3>1, <3>2, <3>3, <3>4
            DEF RoundNext, ListSitePublications, CheckSite, CheckPools, PutRecord, DeleteRecord,
                ReconcileDNSFails, BeginReconcileDrains, EndRound, dbVars
  <2>7. CASE \E s \in Sites : ExpirePublishTask(s) \/ ExpireDrainTask(s)
    BY <2>2, <2>7, ReconcilingSettles DEF ExpirePublishTask, ExpireDrainTask
  <2>8. CASE Tick
    BY <2>8, TickRows
  <2>9. CASE EditorNext \/ Restart
    BY <2>3, <2>9 DEF EditorNext, UpdateSiteRead, UpdateSiteWrite, Restart, dbVars
  <2> QED BY <2>4, <2>5, <2>6, <2>7, <2>8, <2>9 DEF Next
<1> QED BY <1>1, CutoverHolds, PTL DEF Spec, CleanupConfirmed
=============================================================================
