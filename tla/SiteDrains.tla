------------------------------ MODULE SiteDrains ------------------------------
(***************************************************************************)
(* Publication of a site to its edge nodes, the DNS cutover that follows,  *)
(* and the retirement of the nodes a publication leaves behind.            *)
(*                                                                         *)
(* An administrator edits a draft and publishes it.  The publisher renders *)
(* a new desired state for every affected node and commits it together     *)
(* with the publication.  A node that is no longer assigned keeps serving  *)
(* the site from a drain, a snapshot of the previous publication, until    *)
(* the health manager has moved DNS away, every cached answer has expired, *)
(* and the edge has confirmed a desired state without the site.            *)
(*                                                                         *)
(* The database has one connection, so every transaction is one action.    *)
(* Code that reads in one transaction and writes in a later one is split   *)
(* into the actions of a small process: an editor, the publisher (the      *)
(* holder of desiredStateMu) and the health round.                         *)
(***************************************************************************)
EXTENDS Naturals

CONSTANTS
    Sites,            \* site IDs
    Nodes,            \* edge node IDs
    Drainable,        \* nodes an administrator may put into draining
    Upgradable,       \* nodes an administrator may upgrade
    Editors,          \* concurrent requests that update a site draft
    Bodies,           \* what a site renders to on an edge (origins, domains...)
    NoBody,           \* an edge configuration without the site
    Configs,          \* the configurations an administrator may save for a site
    Inherit,          \* a site without its own TTL: the global setting applies
    TTLs,             \* the DNS TTLs the settings accept, in ticks
    DefaultTTL,       \* the TTL assumed when none was observed
    Grace,            \* siteNodeDrainGrace, in ticks
    NoPub, NoDrain,   \* no publication, no drain row
    MaxEdits,         \* bound: the largest config_version of each site
    MaxPublications,  \* bound: the number of publications of each site
    MaxVersion        \* bound: no publication starts at this desired-state version

Config == [primary : SUBSET Nodes, backup : SUBSET Nodes,
           ttl : TTLs \cup {Inherit}, body : Bodies]

\* A row of site_publications.  seq stands for published_at, which grows with
\* every publication; ttl is dns_ttl_seconds, 0 while it was not observed.
Publication == [cfg : Config, seq : Nat, ttl : TTLs \cup {0}]

\* A row of site_node_drains.  ready and left are dns_ready_at and the time to
\* remove_after.  claim is the node's target in the cleanup task that owns the
\* row ("none" without an owner, "untracked" when the node needed no target);
\* orphan marks a row whose cleanup task a publication has superseded.
Drain == [cfg : Config, ttl : TTLs \cup {0}, ready : BOOLEAN, left : Nat,
          claim : {"none", "pending", "done", "failed", "untracked"},
          target : Nat, orphan : BOOLEAN]

\* A node's desired state: its version and what it serves for every site.
State == [ver : Nat, body : [Sites -> Bodies \cup {NoBody}]]

ASSUME ConfigAssumption ==
    /\ Sites # {}
    /\ Configs \in [Sites -> SUBSET Config]
    /\ NoBody \notin Bodies
    /\ Inherit \notin TTLs
    /\ NoPub \notin Publication
    /\ NoDrain \notin Drain

\* The grace period is as long as the longest TTL the settings accept (both
\* are 300 seconds), so it outlives any cached answer on its own.
ASSUME TimeAssumption ==
    /\ TTLs \subseteq Nat \ {0}
    /\ DefaultTTL \in TTLs
    /\ Grace \in Nat
    /\ \A t \in TTLs : t =< Grace

ASSUME BoundAssumption ==
    /\ MaxEdits \in [Sites -> Nat]
    /\ MaxPublications \in [Sites -> Nat]
    /\ MaxVersion \in Nat

VARIABLES
    draft,      \* the sites table: configuration and config_version
    editor,     \* config_version an update request has read (0: no request)
    pub,        \* site_publications
    desired,    \* node_states
    applied,    \* nodes.applied_version, as last reported
    active,     \* nodes.status = active (otherwise draining)
    upgrading,  \* the node has a queued or applying upgrade task
    ptask,      \* the latest publish_site task of a site
    dtask,      \* the site has an active drain_site task
    drain,      \* site_node_drains
    publisher,  \* the publication being prepared under desiredStateMu
    loaded,     \* edge: the state its nginx serves
    dns,        \* TTL of the site's record for a node (0: no record)
    cache,      \* how long an answer with the node may still be cached
    round       \* the health manager's round

dbVars   == <<draft, pub, desired, applied, active, upgrading, ptask, dtask, drain>>
dnsVars  == <<dns, cache>>
vars == <<draft, editor, pub, desired, applied, active, upgrading, ptask, dtask,
          drain, publisher, loaded, dns, cache, round>>

-----------------------------------------------------------------------------
(* Helpers *)

Max2(a, b) == IF a >= b THEN a ELSE b
MaxOf(S) == CHOOSE x \in S : \A y \in S : x >= y

Assigned(p) == IF p = NoPub THEN {} ELSE p.cfg.primary \cup p.cfg.backup
Generation(p) == IF p = NoPub THEN 0 ELSE p.seq
AssignedNodeIDs(cfg) == cfg.primary \cup cfg.backup

\* A TTL override is used as it is; otherwise the global setting applies, and
\* an administrator may change that to any accepted value at any time.
DNSTTL(cfg) == IF cfg.ttl = Inherit THEN TTLs ELSE {cfg.ttl}

NoTask == [status |-> "none", pending |-> [n \in Nodes |-> 0]]
NoPublish == [busy |-> FALSE]

IdleRound ==
    [pc |-> "idle", active |-> {}, applied |-> [n \in Nodes |-> 0],
     pubs |-> [s \in Sites |-> NoPub], todo |-> {},
     site |-> CHOOSE s \in Sites : TRUE, want |-> {}, ttl |-> 0]

Draining(row) == {n \in Nodes : row[n] # NoDrain}
Reachable(s, n) == dns[s][n] > 0 \/ cache[s][n] > 0
Serves(state, s) == state.body[s] # NoBody

\* desiredStateMu is free.
\* Mutant: renderings do not exclude each other.
NoMutex == TRUE
MutexFree == ~publisher.busy /\ round.pc # "clean"
\* The bound on versions; only a cleanup goes one beyond it.
CanRender == \A n \in Nodes : desired[n].ver < MaxVersion

(***************************************************************************)
(* Rendering.  publicationMaterialsWithDrains: a node serves a site whose  *)
(* publication assigns it, or whose drain is not claimed by a cleanup.     *)
(***************************************************************************)
\* Mutant: a drain is rendered although a cleanup task has claimed it.
RenderedWithClaimed(pubs, drains, n) ==
    [s \in Sites |->
        IF n \in Assigned(pubs[s]) THEN pubs[s].cfg.body
        ELSE IF drains[s][n] # NoDrain THEN drains[s][n].cfg.body ELSE NoBody]

Rendered(pubs, drains, n) ==
    [s \in Sites |->
        IF n \in Assigned(pubs[s]) THEN pubs[s].cfg.body
        ELSE IF drains[s][n] # NoDrain /\ drains[s][n].claim = "none"
             THEN drains[s][n].cfg.body
             ELSE NoBody]

\* renderNodeStateUpdates: a state that renders the same keeps its version.
\* Mutant: a changed state keeps its version.
SameVersion(n, body) == [ver |-> Max2(desired[n].ver, 1), body |-> body]

NextState(n, body) ==
    IF desired[n].ver > 0 /\ desired[n].body = body
    THEN desired[n]
    ELSE [ver |-> desired[n].ver + 1, body |-> body]

\* The version an active node has to confirm, 0 when it needs no target.
TargetVersion(n, state) ==
    IF active[n] /\ (state # desired[n] \/ applied[n] < state.ver)
    THEN state.ver ELSE 0

(***************************************************************************)
(* ReconcilePublishTasks: confirm pending targets from applied_version,    *)
(* close tasks that are complete or past their deadline, then finalize the *)
(* drains of drain tasks that are closed.                                  *)
(***************************************************************************)
\* Mutant: a task without targets ignores its deadline.
SettledByTargets(task, ap, late) ==
    LET left == [n \in Nodes |-> IF ap[n] >= task.pending[n] THEN 0
                                 ELSE task.pending[n]]
    IN  IF task.status = "applying" /\ (late \/ \A n \in Nodes : left[n] = 0)
        THEN NoTask
        ELSE [task EXCEPT !.pending = left]

SettledTask(task, ap, late) ==
    LET left == [n \in Nodes |-> IF ap[n] >= task.pending[n] THEN 0
                                 ELSE task.pending[n]]
    IN  IF late \/ (task.status = "applying" /\ \A n \in Nodes : left[n] = 0)
        THEN NoTask
        ELSE [task EXCEPT !.pending = left]

Claimed(d) == d # NoDrain /\ d.claim # "none" /\ ~d.orphan

ConfirmedRow(row, ap, late) ==
    [n \in Nodes |->
        IF ~Claimed(row[n]) \/ row[n].claim # "pending" THEN row[n]
        ELSE IF ap[n] >= row[n].target THEN [row[n] EXCEPT !.claim = "done"]
        ELSE IF late THEN [row[n] EXCEPT !.claim = "failed"]
        ELSE row[n]]

DrainTaskClosed(row, running, ap, late) ==
    LET seen == ConfirmedRow(row, ap, late)
    IN  running /\ \A n \in Nodes : Claimed(seen[n]) => seen[n].claim # "pending"

\* Mutant: a failed cleanup keeps its claim on the row.
KeepClaim(d) == [d EXCEPT !.orphan = FALSE]
Release(d) == [d EXCEPT !.claim = "none", !.target = 0, !.orphan = FALSE]

\* finishDrainCleanupTx: a fully successful task deletes every row it owns, any
\* other one deletes the rows whose target succeeded and releases the rest.
SettledRow(row, running, ap, late) ==
    LET seen == ConfirmedRow(row, ap, late)
        closed == DrainTaskClosed(row, running, ap, late)
        won == \A n \in Nodes : Claimed(seen[n]) => seen[n].claim # "failed"
    IN  [n \in Nodes |->
            IF seen[n] = NoDrain \/ seen[n].claim = "none" THEN seen[n]
            ELSE IF ~seen[n].orphan /\ ~closed THEN seen[n]
            ELSE IF seen[n].claim = "done" \/ (~seen[n].orphan /\ won)
                 THEN NoDrain
                 ELSE Release(seen[n])]

\* The task tables after a reconciliation that starts from the given values;
\* lateP and lateD are the sites whose active task has passed its deadline.
ReconcilePublishTasks(pt, dr, dt, ap, lateP, lateD) ==
    /\ ptask' = [s \in Sites |-> SettledTask(pt[s], ap, s \in lateP)]
    /\ drain' = [s \in Sites |-> SettledRow(dr[s], dt[s], ap, s \in lateD)]
    /\ dtask' = [s \in Sites |->
                    dt[s] /\ ~DrainTaskClosed(dr[s], dt[s], ap, s \in lateD)]

-----------------------------------------------------------------------------
Init ==
    /\ draft \in [Sites -> [cfg : UNION {Configs[s] : s \in Sites}, ver : {1}]]
    /\ \A s \in Sites : draft[s].cfg \in Configs[s]
    /\ editor = [e \in Editors |-> [s \in Sites |-> 0]]
    /\ pub = [s \in Sites |-> NoPub]
    /\ desired = [n \in Nodes |-> [ver |-> 0, body |-> [s \in Sites |-> NoBody]]]
    /\ applied = [n \in Nodes |-> 0]
    /\ active = [n \in Nodes |-> TRUE]
    /\ upgrading = [n \in Nodes |-> FALSE]
    /\ ptask = [s \in Sites |-> NoTask]
    /\ dtask = [s \in Sites |-> FALSE]
    /\ drain = [s \in Sites |-> [n \in Nodes |-> NoDrain]]
    /\ publisher = NoPublish
    /\ loaded = desired
    /\ dns = [s \in Sites |-> [n \in Nodes |-> 0]]
    /\ cache = dns
    /\ round = IdleRound

-----------------------------------------------------------------------------
(* The draft.  UpdateSite reads the site outside its transaction and then   *)
(* writes the version it read plus one.                                     *)

UpdateSiteRead(e, s) ==
    /\ \A t \in Sites : editor[e][t] = 0
    /\ draft[s].ver < MaxEdits[s]
    /\ editor' = [editor EXCEPT ![e][s] = draft[s].ver]
    /\ UNCHANGED <<dbVars, publisher, loaded, dnsVars, round>>

UpdateSiteWrite(e, s, cfg) ==
    /\ editor[e][s] > 0
    /\ draft' = [draft EXCEPT ![s] = [cfg |-> cfg, ver |-> editor[e][s] + 1]]
    /\ editor' = [editor EXCEPT ![e][s] = 0]
    /\ UNCHANGED <<pub, desired, applied, active, upgrading, ptask, dtask, drain,
                   publisher, loaded, dnsVars, round>>

-----------------------------------------------------------------------------
(* Publication, under desiredStateMu. *)

\* ensureNodesNotUpgradingTx, in the transactions that stage node states.
\* Mutant: the transaction does not look at upgrades.
IgnoreUpgrades(nodes) == TRUE

NodesNotUpgrading(nodes) == \A n \in nodes : ~upgrading[n]

\* The drains as the prepared publication will leave them: those of nodes that
\* are assigned again are cancelled, nodes that drop out of the assignment
\* start draining with the previous snapshot, and existing drains stay.
NewDrain(p, ttl) ==
    [cfg |-> p.cfg, ttl |-> ttl, ready |-> FALSE, left |-> 0,
     claim |-> "none", target |-> 0, orphan |-> FALSE]

DroppedNodes(s, row) == Assigned(pub[s]) \ (AssignedNodeIDs(draft[s].cfg) \cup Draining(row))

PreparedRow(s, row, ttl) ==
    [n \in Nodes |->
        IF n \in AssignedNodeIDs(draft[s].cfg) THEN NoDrain
        ELSE IF n \in DroppedNodes(s, row) THEN NewDrain(pub[s], ttl)
        ELSE row[n]]

\* The conservative TTL of a new drain: the last one the provider accepted,
\* or the published override or current setting if that is longer.
DrainTTLs(s) ==
    IF pub[s] = NoPub THEN {0}
    ELSE {Max2(IF pub[s].ttl = 0 THEN DefaultTTL ELSE pub[s].ttl, t) :
             t \in DNSTTL(pub[s].cfg)}

\* publishSiteLocked up to the commit: reconcile, create the task unless one is
\* active, and prepareNodeStatesWithDrains.
BeginPublish(s) ==
    LET row == SettledRow(drain[s], dtask[s], applied, FALSE)
        affected == Assigned(pub[s]) \cup AssignedNodeIDs(draft[s].cfg)
    IN
    /\ MutexFree /\ CanRender
    /\ Generation(pub[s]) < MaxPublications[s]
    /\ SettledTask(ptask[s], applied, FALSE).status = "none"
    /\ NodesNotUpgrading(affected)
    /\ \E ttl \in DrainTTLs(s) :
        LET pubs == [pub EXCEPT ![s] = [cfg |-> draft[s].cfg, seq |-> 0, ttl |-> 0]]
            rows == [t \in Sites |->
                        IF t = s THEN PreparedRow(s, row, ttl)
                        ELSE SettledRow(drain[t], dtask[t], applied, FALSE)]
            state == [n \in Nodes |->
                        IF n \in affected THEN NextState(n, Rendered(pubs, rows, n))
                        ELSE desired[n]]
        IN publisher' =
             [busy |-> TRUE, site |-> s, ver |-> draft[s].ver,
              state |-> state,
              target |-> [n \in Nodes |-> IF n \in affected
                                          THEN TargetVersion(n, state[n]) ELSE 0],
              drains |-> DroppedNodes(s, row), ttl |-> ttl,
              cancel |-> AssignedNodeIDs(draft[s].cfg) \cap Draining(row)]
    /\ ReconcilePublishTasks(
          [ptask EXCEPT ![s] = [status |-> "building", pending |-> NoTask.pending]],
          drain, dtask, applied, {}, {})
    /\ UNCHANGED <<draft, editor, pub, desired, applied, active, upgrading,
                   loaded, dnsVars, round>>

\* cancelSiteNodeDrainsTx and createSiteNodeDrainsTx.  Cancelling a claimed
\* drain fails the cleanup task, which orphans the other rows it had claimed.
Superseded(p) == \E n \in p.cancel : Claimed(drain[p.site][n])

CommittedRow(p) ==
    [n \in Nodes |->
        IF n \in p.cancel THEN NoDrain
        ELSE IF n \in p.drains /\ drain[p.site][n] = NoDrain
             THEN NewDrain(pub[p.site], p.ttl)
        ELSE IF Superseded(p) /\ Claimed(drain[p.site][n])
             THEN [drain[p.site][n] EXCEPT !.orphan = TRUE]
        ELSE drain[p.site][n]]

\* expectedConfigVersion: the draft is still the one the publisher read.
\* Mutant: the commit does not compare config_version.
AnyDraft(p) == TRUE

DraftUnchanged(p) == draft[p.site].ver = p.ver
Touched(p) == {n \in Nodes : p.target[n] > 0 \/ p.state[n] # desired[n]}

\* A publication whose deadline passed before it was committed stages targets
\* that its closed task never waits for.
StagedTask(p) ==
    IF ptask[p.site].status = "none" \/ \A n \in Nodes : p.target[n] = 0
    THEN NoTask
    ELSE [status |-> "applying", pending |-> p.target]

\* CommitSitePublicationWithDrains, one transaction.  It publishes the draft it
\* reads in the transaction, not the one that was rendered.
CommitPublish ==
    LET p == publisher
        s == publisher.site
        prev == pub[s]
    IN
    /\ publisher.busy
    /\ DraftUnchanged(p)
    /\ NodesNotUpgrading(Touched(p))
    /\ pub' = [pub EXCEPT ![s] =
                 [cfg |-> draft[s].cfg,
                  seq |-> Generation(prev) + 1,
                  ttl |-> IF prev = NoPub THEN 0 ELSE prev.ttl]]
    /\ desired' = p.state
    /\ drain' = [drain EXCEPT ![s] = CommittedRow(p)]
    /\ dtask' = [dtask EXCEPT ![s] = @ /\ ~Superseded(p)]
    /\ ptask' = [ptask EXCEPT ![s] = StagedTask(p)]
    /\ publisher' = NoPublish
    /\ UNCHANGED <<draft, editor, applied, active, upgrading, loaded, dnsVars, round>>

\* The draft changed, or an upgrade of a touched node started: the task fails.
FailPublish ==
    /\ publisher.busy
    /\ ~DraftUnchanged(publisher) \/ ~NodesNotUpgrading(Touched(publisher))
    /\ ptask' = [ptask EXCEPT ![publisher.site] = NoTask]
    /\ publisher' = NoPublish
    /\ UNCHANGED <<draft, editor, pub, desired, applied, active, upgrading, dtask,
                   drain, loaded, dnsVars, round>>

\* PublishNode: re-render one node, for example after a capacity change.  It has
\* no task; the node simply converges to the new version.
PublishNode(n) ==
    /\ MutexFree /\ CanRender
    /\ NodesNotUpgrading({n})
    /\ desired' = [desired EXCEPT ![n] = NextState(n, Rendered(pub, drain, n))]
    /\ UNCHANGED <<draft, editor, pub, applied, active, upgrading, ptask, dtask,
                   drain, publisher, loaded, dnsVars, round>>

-----------------------------------------------------------------------------
(* Nodes *)

\* setNodeStatus between active and draining.
SetNodeStatus(n) ==
    /\ n \in Drainable
    /\ active' = [active EXCEPT ![n] = ~@]
    /\ UNCHANGED <<draft, editor, pub, desired, applied, upgrading, ptask, dtask,
                   drain, publisher, loaded, dnsVars, round>>

\* HasActiveNodePublication: a pending target in an active task.
HasActiveNodePublication(n) ==
    \E s \in Sites : \/ ptask[s].pending[n] > 0
                     \/ /\ Claimed(drain[s][n])
                        /\ drain[s][n].claim = "pending"

\* createOrGetNodeUpgradeTx refuses a node with a pending publication target.
StartUpgrade(n) ==
    /\ n \in Upgradable
    /\ ~upgrading[n]
    /\ ~HasActiveNodePublication(n)
    /\ upgrading' = [upgrading EXCEPT ![n] = TRUE]
    /\ UNCHANGED <<draft, editor, pub, desired, applied, active, ptask, dtask,
                   drain, publisher, loaded, dnsVars, round>>

FinishUpgrade(n) ==
    /\ upgrading[n]
    /\ upgrading' = [upgrading EXCEPT ![n] = FALSE]
    /\ UNCHANGED <<draft, editor, pub, desired, applied, active, ptask, dtask,
                   drain, publisher, loaded, dnsVars, round>>

\* Sync downloads the desired state and nginx loads it.  A download that a newer
\* state overtakes before the reload is a Sync that ran before that state.
EdgeApply(n) ==
    /\ desired[n].ver > loaded[n].ver
    /\ loaded' = [loaded EXCEPT ![n] = desired[n]]
    /\ UNCHANGED <<dbVars, editor, publisher, dnsVars, round>>

\* RecordPublishApply with a failed report of version v closes every pending
\* target of the node up to v.
FailedTask(task, n, v) ==
    IF task.pending[n] =< v THEN [task EXCEPT !.pending[n] = 0] ELSE task

FailedRow(row, n, v) ==
    IF Claimed(row[n]) /\ row[n].claim = "pending" /\ row[n].target =< v
    THEN [row EXCEPT ![n].claim = "failed"] ELSE row

\* HeartbeatWithArtifacts: the apply report, applied_version, then the tasks.
\* A success report confirms what applied_version confirms in the same call.
HeartbeatApplied(n) ==
    LET ap == [applied EXCEPT ![n] = Max2(@, loaded[n].ver)]
    IN
    /\ applied' = ap
    /\ ReconcilePublishTasks(ptask, drain, dtask, ap, {}, {})
    /\ UNCHANGED <<draft, editor, pub, desired, active, upgrading, publisher,
                   loaded, dnsVars, round>>

\* nginx rejected version v and the edge kept the state it had.
HeartbeatRejected(n, v) ==
    LET ap == [applied EXCEPT ![n] = Max2(@, loaded[n].ver)]
    IN
    /\ applied' = ap
    /\ ReconcilePublishTasks([s \in Sites |-> FailedTask(ptask[s], n, v)],
                             [s \in Sites |-> FailedRow(drain[s], n, v)],
                             dtask, ap, {}, {})
    /\ UNCHANGED <<draft, editor, pub, desired, active, upgrading, publisher,
                   loaded, dnsVars, round>>

\* A reconciliation that finds the active tasks of a site past their deadline.
ExpirePublishTask(s) ==
    /\ ptask[s].status # "none"
    /\ ReconcilePublishTasks(ptask, drain, dtask, applied, {s}, {})
    /\ UNCHANGED <<draft, editor, pub, desired, applied, active, upgrading,
                   publisher, loaded, dnsVars, round>>

ExpireDrainTask(s) ==
    /\ dtask[s]
    /\ ReconcilePublishTasks(ptask, drain, dtask, applied, {}, {s})
    /\ UNCHANGED <<draft, editor, pub, desired, applied, active, upgrading,
                   publisher, loaded, dnsVars, round>>

-----------------------------------------------------------------------------
(* The health round.  Nodes and publications are read once, at its start,   *)
(* and used until its end.                                                  *)

BeginRound ==
    /\ round.pc = "idle"
    /\ ReconcilePublishTasks(ptask, drain, dtask, applied, {}, {})
    /\ round' = [round EXCEPT !.pc = "list", !.applied = applied,
                              !.active = {n \in Nodes : active[n]}]
    /\ UNCHANGED <<draft, editor, pub, desired, applied, active, upgrading,
                   publisher, loaded, dnsVars>>

ListSitePublications ==
    /\ round.pc = "list"
    /\ round' = [round EXCEPT !.pc = "site", !.pubs = pub,
                              !.todo = {s \in Sites : pub[s] # NoPub}]
    /\ UNCHANGED <<dbVars, editor, publisher, loaded, dnsVars>>

\* Mutant: the publication token is not compared.
AnyPublication(s) == TRUE

SitePublicationCurrent(s) == Generation(pub[s]) = Generation(round.pubs[s])

\* An active node has not yet confirmed the snapshot it has to keep.
SiteNodeDrainsConverging(s) ==
    \E n \in Draining(drain[s]) :
        /\ ~drain[s][n].ready
        /\ active[n]
        /\ desired[n].ver = 0 \/ applied[n] < desired[n].ver

Skip(s) == [round EXCEPT !.pc = "site", !.todo = @ \ {s},
                         !.site = IdleRound.site, !.want = {}, !.ttl = 0]

\* reconcileSiteDNSOutcomeForPublication up to the node pools.
CheckSite(s) ==
    /\ round.pc = "site"
    /\ s \in round.todo
    /\ round' = IF /\ SitePublicationCurrent(s)
                   /\ ptask[s].status = "none"
                   /\ ~SiteNodeDrainsConverging(s)
                THEN [round EXCEPT !.pc = "pool", !.site = s]
                ELSE Skip(s)
    /\ UNCHANGED <<dbVars, editor, publisher, loaded, dnsVars>>

\* siteNodePool, for the nodes as they were read at the start of the round.
\* Mutant: a node is a target before it applied its desired state.
OnlyUpgrading(ids) == {n \in ids : upgrading[n]}

ConvergingNodes(ids) ==
    {n \in ids : \/ upgrading[n]
                 \/ /\ n \in round.active
                    /\ \/ desired[n].ver = 0
                       \/ round.applied[n] < desired[n].ver
                       \/ HasActiveNodePublication(n)}

\* The probes decide which of the converged nodes of a pool are healthy; backup
\* nodes are used only when no primary node is.  No healthy node at all leaves
\* DNS as it is, unless no assigned node is active: then DNS is cleared.
CheckPools ==
    LET s == round.site
        cfg == round.pubs[s].cfg
        primary == cfg.primary \cap round.active
        backup == cfg.backup \cap round.active
        push(set, ttl) == [round EXCEPT !.pc = "push", !.want = set, !.ttl = ttl]
    IN
    /\ round.pc = "pool"
    /\ \/ /\ ConvergingNodes(cfg.primary) # {}
          /\ round' = Skip(s)
       \/ /\ ConvergingNodes(cfg.primary) = {}
          /\ \E healthy \in SUBSET primary \ {{}}, ttl \in DNSTTL(cfg) :
                round' = push(healthy, ttl)
       \/ /\ ConvergingNodes(cfg.primary) = {}
          /\ ConvergingNodes(cfg.backup) = {}
          /\ \E healthy \in SUBSET backup \ {{}}, ttl \in DNSTTL(cfg) :
                round' = push(healthy, ttl)
       \/ /\ ConvergingNodes(cfg.primary) = {}
          /\ IF primary \cup backup = {}
             THEN /\ ConvergingNodes(cfg.backup) = {}
                  /\ SitePublicationCurrent(s)
                  /\ \E ttl \in DNSTTL(cfg) : round' = push({}, ttl)
             ELSE round' = Skip(s)
    /\ UNCHANGED <<dbVars, editor, publisher, loaded, dnsVars>>

\* DNSProvider.Reconcile creates and updates records one by one, then deletes
\* the others.  Answers with the old TTL may have been cached just before.
Misplaced(s) == {n \in round.want : dns[s][n] # round.ttl}
Leftover(s) == {n \in Nodes \ round.want : dns[s][n] > 0}

SetRecord(s, n, ttl) ==
    /\ dns' = [dns EXCEPT ![s][n] = ttl]
    /\ cache' = [cache EXCEPT ![s][n] = Max2(@, dns[s][n])]

PutRecord(n) ==
    /\ round.pc = "push"
    /\ n \in Misplaced(round.site)
    /\ SetRecord(round.site, n, round.ttl)
    /\ UNCHANGED <<dbVars, editor, publisher, loaded, round>>

DeleteRecord(n) ==
    /\ round.pc = "push"
    /\ Misplaced(round.site) = {}
    /\ n \in Leftover(round.site)
    /\ SetRecord(round.site, n, 0)
    /\ UNCHANGED <<dbVars, editor, publisher, loaded, round>>

\* The provider refused a call or the round's deadline passed.
ReconcileDNSFails ==
    /\ round.pc = "push"
    /\ round' = Skip(round.site)
    /\ UNCHANGED <<dbVars, editor, publisher, loaded, dnsVars>>

\* The longest TTL an old answer of the site may still carry.
DrainTTL(s) ==
    MaxOf({round.ttl, round.pubs[s].ttl}
          \cup {drain[s][n].ttl : n \in Draining(drain[s])}
          \cup {drain[s][n].cfg.ttl : n \in {m \in Draining(drain[s]) :
                                                drain[s][m].cfg.ttl # Inherit}})

\* Mutant: the timer does not wait for cached answers.
RemoveNow(s) == 0
\* Mutant: the grace period shortens the timer.
RemoveEarly(s) == DrainTTL(s) - Grace
RemoveAfter(s) == DrainTTL(s) + Grace

\* MarkSiteNodeDrainsDNSReadyForPublication: the drain timers start only for
\* the publication the records were computed from.
MarkDNSReady ==
    LET s == round.site
        ready(d) == [d EXCEPT !.ready = TRUE, !.ttl = DrainTTL(s),
                              !.left = RemoveAfter(s)]
    IN
    /\ round.pc = "push"
    /\ Misplaced(s) = {} /\ Leftover(s) = {}
    /\ IF SitePublicationCurrent(s)
       THEN /\ pub' = [pub EXCEPT ![s].ttl = round.ttl]
            /\ drain' = [drain EXCEPT ![s] =
                 [n \in Nodes |-> IF drain[s][n] # NoDrain /\ ~drain[s][n].ready
                                  THEN ready(drain[s][n]) ELSE drain[s][n]]]
       ELSE UNCHANGED <<pub, drain>>
    /\ round' = Skip(s)
    /\ UNCHANGED <<draft, editor, desired, applied, active, upgrading, ptask, dtask,
                   publisher, loaded, dnsVars>>

\* ReconcileDrains runs last and holds desiredStateMu for all sites.
BeginReconcileDrains ==
    /\ round.pc = "site"
    /\ round.todo = {}
    /\ ~publisher.busy
    /\ round' = [IdleRound EXCEPT !.pc = "clean", !.todo = Sites]
    /\ UNCHANGED <<dbVars, editor, publisher, loaded, dnsVars>>

\* ListDueSiteNodeDrains, of active nodes only.
DueDrains(s) ==
    {n \in Draining(drain[s]) : /\ drain[s][n].ready
                                /\ drain[s][n].left = 0
                                /\ drain[s][n].claim = "none"
                                /\ active[n]}

\* StageDrainCleanup: claim the due rows and stage the states without them.
StagedRow(s, due, target) ==
    [n \in Nodes |->
        IF n \notin due THEN drain[s][n]
        ELSE IF target[n] = 0 THEN [drain[s][n] EXCEPT !.claim = "untracked"]
        ELSE [drain[s][n] EXCEPT !.claim = "pending", !.target = target[n]]]

ReconcileDrains(s) ==
    LET due == DueDrains(s)
        without == [drain EXCEPT ![s] =
                      [n \in Nodes |-> IF n \in due THEN NoDrain ELSE drain[s][n]]]
        state == [n \in Nodes |-> IF n \in due
                                  THEN NextState(n, Rendered(pub, without, n))
                                  ELSE desired[n]]
        target == [n \in Nodes |-> IF n \in due THEN TargetVersion(n, state[n]) ELSE 0]
    IN
    /\ round.pc = "clean"
    /\ s \in round.todo
    /\ round' = [round EXCEPT !.todo = @ \ {s}]
    /\ IF due = {} \/ dtask[s] \/ ~NodesNotUpgrading(due)
       THEN UNCHANGED <<desired, drain, dtask>>
       ELSE IF \A n \in Nodes : target[n] = 0
            THEN \* PruneAppliedSiteNodeDrains: the edges already removed them
                 /\ drain' = without
                 /\ UNCHANGED <<desired, dtask>>
            ELSE /\ desired' = state
                 /\ drain' = [drain EXCEPT ![s] = StagedRow(s, due, target)]
                 /\ dtask' = [dtask EXCEPT ![s] = TRUE]
    /\ UNCHANGED <<draft, editor, pub, applied, active, upgrading, ptask,
                   publisher, loaded, dnsVars>>

EndRound ==
    /\ round.pc = "clean"
    /\ round.todo = {}
    /\ round' = IdleRound
    /\ UNCHANGED <<dbVars, editor, publisher, loaded, dnsVars>>

-----------------------------------------------------------------------------
\* The controller restarts: requests, the publisher and the round are gone.
Restart ==
    /\ editor' = [e \in Editors |-> [s \in Sites |-> 0]]
    /\ publisher' = NoPublish
    /\ round' = IdleRound
    /\ UNCHANGED <<dbVars, loaded, dnsVars>>

\* Time passes: cached answers age and the timers of ready drains run.
Dec(k) == IF k > 0 THEN k - 1 ELSE 0

Tick ==
    /\ cache' = [s \in Sites |-> [n \in Nodes |-> Dec(cache[s][n])]]
    /\ drain' = [s \in Sites |-> [n \in Nodes |->
                    IF drain[s][n] = NoDrain THEN NoDrain
                    ELSE [drain[s][n] EXCEPT !.left = Dec(@)]]]
    /\ UNCHANGED <<draft, editor, pub, desired, applied, active, upgrading, ptask,
                   dtask, publisher, loaded, dns, round>>

EditorNext == \E e \in Editors, s \in Sites :
    UpdateSiteRead(e, s) \/ \E cfg \in Configs[s] : UpdateSiteWrite(e, s, cfg)

PublisherNext ==
    \/ \E s \in Sites : BeginPublish(s)
    \/ CommitPublish
    \/ FailPublish

NodeNext == \E n \in Nodes :
    \/ PublishNode(n)
    \/ SetNodeStatus(n)
    \/ StartUpgrade(n)
    \/ FinishUpgrade(n)
    \/ EdgeApply(n)
    \/ HeartbeatApplied(n)
    \/ \E v \in loaded[n].ver + 1 .. desired[n].ver : HeartbeatRejected(n, v)

RoundNext ==
    \/ BeginRound
    \/ ListSitePublications
    \/ \E s \in Sites : CheckSite(s)
    \/ CheckPools
    \/ \E n \in Nodes : PutRecord(n) \/ DeleteRecord(n)
    \/ ReconcileDNSFails
    \/ MarkDNSReady
    \/ BeginReconcileDrains
    \/ \E s \in Sites : ReconcileDrains(s)
    \/ EndRound

Next ==
    \/ EditorNext
    \/ PublisherNext
    \/ NodeNext
    \/ \E s \in Sites : ExpirePublishTask(s) \/ ExpireDrainTask(s)
    \/ RoundNext
    \/ Restart
    \/ Tick

Spec == Init /\ [][Next]_vars

\* From some time on the controller stays up, no node is upgraded, the provider
\* accepts its calls and a pool that has converged has a healthy node.  A restart between rounds looks
\* like the end of a round, a last failure like a mark with nothing to mark.
HealthyPools ==
    round.pc = "pool" /\ round'.pc = "site"
    => ConvergingNodes(round.pubs[round.site].cfg.primary) # {}

EventuallyStable ==
    <>[][/\ Restart => EndRound \/ FailPublish
         /\ ReconcileDNSFails => MarkDNSReady
         /\ \A n \in Nodes : ~upgrading'[n]
         /\ HealthyPools]_vars

\* The health loop and the edge loops are tickers, the publisher runs to its end
\* once it has the mutex, and reconciliations compare deadlines with the clock.
\* Administrators need not do anything.
Fairness ==
    /\ WF_vars(RoundNext)
    /\ WF_vars(CommitPublish \/ FailPublish)
    /\ WF_vars(Tick)
    /\ \A s \in Sites : WF_vars(ExpirePublishTask(s))
    /\ \A n \in Nodes : WF_vars(EdgeApply(n)) /\ WF_vars(HeartbeatApplied(n))

LiveSpec == Spec /\ Fairness /\ EventuallyStable
-----------------------------------------------------------------------------
(* Properties *)

Row == [Nodes -> Drain \cup {NoDrain}]
Task == [status : {"none", "building", "applying"}, pending : [Nodes -> Nat]]

Publishing == [busy : {TRUE}, site : Sites, ver : Nat, state : [Nodes -> State],
               target : [Nodes -> Nat], drains : SUBSET Nodes, ttl : TTLs \cup {0},
               cancel : SUBSET Nodes]

Round == [pc : {"idle", "list", "site", "pool", "push", "clean"},
          active : SUBSET Nodes, applied : [Nodes -> Nat],
          pubs : [Sites -> Publication \cup {NoPub}], todo : SUBSET Sites,
          site : Sites, want : SUBSET Nodes, ttl : TTLs \cup {0}]

\* Every table row, process state and edge state has the shape the code gives it.
TypeOK ==
    /\ draft \in [Sites -> [cfg : Config, ver : Nat]]
    /\ editor \in [Editors -> [Sites -> Nat]]
    /\ pub \in [Sites -> Publication \cup {NoPub}]
    /\ desired \in [Nodes -> State]
    /\ applied \in [Nodes -> Nat]
    /\ active \in [Nodes -> BOOLEAN]
    /\ upgrading \in [Nodes -> BOOLEAN]
    /\ ptask \in [Sites -> Task]
    /\ dtask \in [Sites -> BOOLEAN]
    /\ drain \in [Sites -> Row]
    /\ publisher \in Publishing \cup {NoPublish}
    /\ loaded \in [Nodes -> State]
    /\ dns \in [Sites -> [Nodes -> TTLs \cup {0}]]
    /\ cache \in [Sites -> [Nodes -> 0..Grace]]
    /\ round \in Round

\* A node that clients can still reach for a site, through its DNS record or
\* through a cached answer, serves the site: the cutover in
\* reconcileSiteDNSOutcomeForPublication and the drain timers never take the
\* configuration away from a node before the traffic.
ReachableNodeServes ==
    \A s \in Sites, n \in Nodes : Reachable(s, n) => Serves(loaded[n], s)

\* The desired state of an assigned node is the published configuration:
\* CommitSitePublication "atomically exposes node desired states and promotes
\* the current site draft", so neither is ever seen without the other.
PublicationMatchesStates ==
    \A s \in Sites : \A n \in Assigned(pub[s]) :
        desired[n].body[s] = pub[s].cfg.body

\* The timer of a drain runs only once the provider holds no record for the
\* node (markSiteNodeDrainsDNSReady), and nothing puts one back later.
ReadyMeansWithdrawn ==
    \A s \in Sites : \A n \in Draining(drain[s]) :
        drain[s][n].ready => dns[s][n] = 0

\* What traffic and the DNS loop rely on between their steps.
StatesAndRecordsAgree == PublicationMatchesStates /\ ReadyMeansWithdrawn

\* A node is never upgraded while a task waits for it to apply a state:
\* createOrGetNodeUpgradeTx and ensureNodesNotUpgradingTx exclude each other.
UpgradeExcludesPublication ==
    \A n \in Nodes : upgrading[n] => ~HasActiveNodePublication(n)

\* A record that appears while its publication is still the current one points
\* to a node that already serves that publication, not an older one.
NewRecordServesCurrent ==
    [][\A s \in Sites, n \in Nodes :
          /\ dns[s][n] = 0 /\ dns'[s][n] > 0
          /\ SitePublicationCurrent(s)
          => loaded[n].body[s] = pub[s].cfg.body]_vars

\* A drain row disappears without a new assignment only after the edge has
\* loaded a state without the site: finishDrainCleanupTx and
\* PruneAppliedSiteNodeDrains never forget a node that still serves.
CleanupConfirmed ==
    [][\A s \in Sites, n \in Nodes :
          drain[s][n] # NoDrain /\ drain'[s][n] = NoDrain
          => n \in Assigned(pub'[s]) \/ ~Serves(loaded[n], s)]_vars

\* A desired state changes only together with its version, and the version only
\* grows: the edge applies a state when its version is newer, so two contents
\* under one version would leave the edge with either.
VersionIdentifiesContent ==
    [][\A n \in Nodes : desired'[n] # desired[n] => desired'[n].ver > desired[n].ver]_vars

\* Every drain ends: whatever fails, expires or is superseded on the way, the
\* health loop retries until the node has dropped the site or is assigned again.
DrainsEventuallyCleaned ==
    \A s \in Sites, n \in Nodes : drain[s][n] # NoDrain ~> drain[s][n] = NoDrain

\* Once publications stop, DNS points to assigned nodes of the last one only,
\* and to at least one: a task that a restart left building does not hold the
\* site's DNS back for good.
DNSFollowsPublication ==
    <>[](\A s \in Sites : pub[s] # NoPub =>
            LET records == {n \in Nodes : dns[s][n] > 0}
            IN  records # {} /\ records \subseteq Assigned(pub[s]))

\* Both ends of a move: the drains of the nodes that left and the site's DNS
\* (control/health.go, store/site_node_drains.go).
DrainsEnd == DrainsEventuallyCleaned /\ DNSFollowsPublication
=============================================================================
