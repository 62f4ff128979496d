----------------------------- MODULE PolicyRollout -----------------------------
(***************************************************************************)
(* Security rules, browser challenges and rate limits on their way to the  *)
(* edges.  Each is changed in a transaction of its own and then rendered   *)
(* into every node's desired state (control/security.go, Publisher         *)
(* .PublishAll); an agent that reports other capabilities gets its node    *)
(* rendered again (control/edge_capabilities.go); the overview says which  *)
(* nodes have them.  Requests, heartbeats and the overview interleave      *)
(* between any two statements.                                             *)
(***************************************************************************)
EXTENDS Naturals, Sequences, FiniteSets
LOCAL INSTANCE SequencesExt

CONSTANTS
  Enforcers,     \* edge nodes
  Authors,       \* administrators
  RuleIds,         \* ids of security rules
  BuiltIn,       \* those that cannot be deleted
  LegacyRules,   \* those that an agent without the chain understands
  MaxSaves, MaxAgents, MaxHindrances   \* bounds

ASSUME RolloutRulesAssumption ==
  /\ BuiltIn \subseteq RuleIds /\ LegacyRules \subseteq RuleIds
  /\ Enforcers \intersect Authors = {}
  /\ {MaxSaves, MaxAgents, MaxHindrances} \subseteq Nat

VARIABLES
  rules,      \* the three tables; a challenge or limit is the save that wrote it, 0 none
  level,      \* capabilities stored of a node: 0 legacy, 1 also rate limits, 2 also the chain
  applied,    \* version stored of a node
  desired,    \* node_states
  agent,      \* on the node: its level, and the state nginx has loaded
  upgrading,  \* nodes with an active upgrade task
  request,    \* requests that have to publish yet
  beats,      \* heartbeats: "idle", "check", "publish"
  rendering,  \* publications under way, by who holds or wants desiredStateMu
  viewer,     \* an overview that is being read
  shown,      \* what the last one showed of a node
  unsettled,  \* history: a request ended without publishing, and none published since
  counts      \* saves, agents installed, hindrances so far

ruleVars == <<rules, level, applied, desired, agent, upgrading, request, beats, rendering,
              viewer, shown, unsettled, counts>>

Workers == Authors \union Enforcers
Tally(k) == counts' = [counts EXCEPT ![k] = @ + 1]

-----------------------------------------------------------------------------
(* The tables *)

Entry(id, on) == [id |-> id, on |-> on]
NewEntry(id) == Entry(id, TRUE)
Ids(chain) == {chain[i].id : i \in DOMAIN chain}

\* CreateSecurityPolicy: at the place its priority gives it.
Created(chain) ==
  {InsertAt(chain, i, NewEntry(r)) : i \in 1..(Len(chain) + 1), r \in RuleIds \ Ids(chain)}

\* UpdateSecurityPolicy may switch a rule off and give it another priority.
Updated(chain) ==
  {InsertAt(RemoveAt(chain, i), j, Entry(chain[i].id, on)) :
     i \in DOMAIN chain, j \in DOMAIN chain, on \in BOOLEAN}

Deleted(chain) == {RemoveAt(chain, i) : i \in {k \in DOMAIN chain : chain[k].id \notin BuiltIn}}

\* MoveSecurityPolicy: priorities are dealt out anew, in the order with two swapped.
Moved(chain) ==
  {[chain EXCEPT ![i] = chain[i + 1], ![i + 1] = chain[i]] : i \in 1..(Len(chain) - 1)}

\* A challenge is created, updated, deleted or switched off, and so is a limit.
Challenged == {0, counts.saves + 1} \ {rules.challenge}
Limited == {0, counts.saves + 1} \ {rules.limit}

Save(a, tables) ==
  /\ request[a] = "idle" /\ counts.saves < MaxSaves /\ Tally("saves")
  /\ rules' = tables
  /\ request' = [request EXCEPT ![a] = "publish"]
  /\ UNCHANGED <<level, applied, desired, agent, upgrading, beats, rendering, viewer, shown, unsettled>>

ChangeRules(a) ==
  \E chain \in Created(rules.chain) \union Updated(rules.chain) \union Deleted(rules.chain)
               \union Moved(rules.chain) :
    Save(a, [rules EXCEPT !.chain = chain])

ChangeChallenge(a) ==
  \E c \in Challenged : Save(a, [rules EXCEPT !.challenge = c])

ChangeLimit(a) ==
  \E l \in Limited : Save(a, [rules EXCEPT !.limit = l])

\* deploySecurityPolicies: pressed where a publication did not happen.
Deploy(a) ==
  /\ request[a] = "idle" /\ unsettled
  /\ request' = [request EXCEPT ![a] = "publish"]
  /\ UNCHANGED <<rules, level, applied, desired, agent, upgrading, beats, rendering, viewer, shown,
                 unsettled, counts>>

-----------------------------------------------------------------------------
(* Rendering *)

RulesFor(l, chain) ==
  IF l = 2 THEN chain ELSE SelectSeq(chain, LAMBDA r : r.id \in LegacyRules)
ChallengeFor(l, challenge) == IF l = 2 THEN challenge ELSE 0
LimitFor(l, limit) == IF l >= 1 THEN limit ELSE 0

Rendered(l, tables) ==
  [chain |-> RulesFor(l, tables.chain), challenge |-> ChallengeFor(l, tables.challenge),
   limit |-> LimitFor(l, tables.limit), modern |-> l = 2]

\* Mutant: only what the agent needs in addition is looked for.
OnlyGained(n) == level[n] = 2 /\ ~desired[n].body.modern

\* securityRuntimeStateNeedsRebuild
NeedsRebuild(n) == (level[n] = 2) # desired[n].body.modern

\* Mutant: limits are left out of the comparison.
MatchesButLimits(old, new) == [old EXCEPT !.limit = 0] = [new EXCEPT !.limit = 0]

\* nodeStateMatches: an unchanged state keeps its version.
Matches(old, new) == old = new

NotRendering == [at |-> "idle"]

\* Mutant: a node's own rendering does not wait for that of all nodes.
FreeFor(w) == \A v \in Workers \ {w} : w \in Authors => rendering[v] = NotRendering

\* desiredStateMu
MayRender(w) == \A v \in Workers : rendering[v] = NotRendering

Scope(w) == IF w \in Enforcers THEN {w} ELSE Enforcers
Wants(w) == IF w \in Enforcers THEN beats[w] = "publish" ELSE request[w] = "publish"

\* The request or heartbeat is over; without its publication the administrator
\* gets an error, and the heartbeat only logs one.
Ended(w, done) ==
  /\ rendering' = [rendering EXCEPT ![w] = NotRendering]
  /\ IF w \in Enforcers
     THEN beats' = [beats EXCEPT ![w] = "idle"] /\ UNCHANGED <<request, unsettled>>
     ELSE request' = [request EXCEPT ![w] = "idle"] /\ unsettled' = ~done /\ UNCHANGED beats

\* EnsureNodesNotUpgrading, then the nodes with their capabilities.
BeginRendering(w) ==
  /\ Wants(w) /\ MayRender(w)
  /\ IF Scope(w) \intersect upgrading # {}
     THEN Ended(w, FALSE)
     ELSE /\ rendering' = [rendering EXCEPT ![w] = [at |-> "nodes"]]
          /\ UNCHANGED <<request, beats, unsettled>>
  /\ UNCHANGED <<rules, level, applied, desired, agent, upgrading, viewer, shown, counts>>

Reads(w, from, r) ==
  /\ rendering[w].at = from
  /\ rendering' = [rendering EXCEPT ![w] = r]
  /\ UNCHANGED <<rules, level, applied, desired, agent, upgrading, request, beats, viewer, shown,
                 unsettled, counts>>

ListNodes(w) == Reads(w, "nodes", [at |-> "rules", level |-> level])
ReadRules(w) ==
  Reads(w, "rules", [at |-> "challenges", level |-> rendering[w].level, chain |-> rules.chain])
ReadChallenges(w) ==
  Reads(w, "challenges", [at |-> "limits", level |-> rendering[w].level,
                          chain |-> rendering[w].chain, challenge |-> rules.challenge])
ReadLimits(w) ==
  Reads(w, "limits", [at |-> "save", level |-> rendering[w].level,
                      tables |-> [chain |-> rendering[w].chain, challenge |-> rendering[w].challenge,
                                  limit |-> rules.limit]])

\* SaveNodeStates, in one transaction.
SaveStates(w) ==
  /\ rendering[w].at = "save"
  /\ desired' = [n \in Enforcers |->
       LET l == rendering[w].level[n] body == Rendered(l, rendering[w].tables) IN
       IF n \notin Scope(w) THEN desired[n]
       ELSE IF Matches(desired[n].body, body) THEN [desired[n] EXCEPT !.for = l]
       ELSE [version |-> desired[n].version + 1, body |-> body, for |-> l]]
  /\ Ended(w, TRUE)
  /\ UNCHANGED <<rules, level, applied, agent, upgrading, viewer, shown, counts>>

\* A read, a certificate, a capacity or the rendering itself is refused.
RenderingFails(w) ==
  /\ rendering[w] # NotRendering /\ counts.hindrances < MaxHindrances /\ Tally("hindrances")
  /\ Ended(w, FALSE)
  /\ UNCHANGED <<rules, level, applied, desired, agent, upgrading, viewer, shown>>

-----------------------------------------------------------------------------
(* The edges *)

Load(n) ==
  /\ desired[n].version > agent[n].version
  /\ agent' = [agent EXCEPT ![n].version = desired[n].version, ![n].body = desired[n].body]
  /\ UNCHANGED <<rules, level, applied, desired, upgrading, request, beats, rendering, viewer, shown,
                 unsettled, counts>>

\* A heartbeat stores the capabilities and the version.
Beat(n) ==
  /\ beats[n] = "idle"
  /\ level[n] # agent[n].level \/ applied[n] # agent[n].version \/ NeedsRebuild(n)
  /\ level' = [level EXCEPT ![n] = agent[n].level]
  /\ applied' = [applied EXCEPT ![n] = agent[n].version]
  /\ beats' = [beats EXCEPT ![n] = "check"]
  /\ UNCHANGED <<rules, desired, agent, upgrading, request, rendering, viewer, shown, unsettled, counts>>

\* reconcileEdgeRuntimeCapabilities
CheckCapabilities(n) ==
  /\ beats[n] = "check"
  /\ beats' = [beats EXCEPT ![n] = IF NeedsRebuild(n) THEN "publish" ELSE "idle"]
  /\ UNCHANGED <<rules, level, applied, desired, agent, upgrading, request, rendering, viewer, shown,
                 unsettled, counts>>

StartUpgrade(n) ==
  /\ counts.agents < MaxAgents /\ Tally("agents")
  /\ n \notin upgrading /\ upgrading' = upgrading \union {n}
  /\ UNCHANGED <<rules, level, applied, desired, agent, request, beats, rendering, viewer, shown, unsettled>>

\* Another agent runs, a later one or the one before.
EndUpgrade(n, l) ==
  /\ n \in upgrading /\ upgrading' = upgrading \ {n}
  /\ agent' = [agent EXCEPT ![n].level = l]
  /\ UNCHANGED <<rules, level, applied, desired, request, beats, rendering, viewer, shown, unsettled, counts>>

KillRollout ==
  /\ counts.hindrances < MaxHindrances /\ Tally("hindrances")
  /\ request' = [a \in Authors |-> "idle"] /\ beats' = [n \in Enforcers |-> "idle"]
  /\ rendering' = [w \in Workers |-> NotRendering] /\ viewer' = [at |-> "idle"]
  /\ unsettled' = (unsettled \/ \E a \in Authors : request[a] # "idle")
  /\ UNCHANGED <<rules, level, applied, desired, agent, upgrading, shown>>

-----------------------------------------------------------------------------
(* The overview *)

View(from, v) ==
  /\ viewer.at = from /\ viewer' = v
  /\ UNCHANGED <<rules, level, applied, desired, agent, upgrading, request, beats, rendering, shown,
                 unsettled, counts>>

ListPolicies == View("idle", [at |-> "nodes", tables |-> rules])
ViewNodes ==
  \E n \in Enforcers :
    View("nodes", [at |-> "version", tables |-> viewer.tables, node |-> n, level |-> level[n],
                   applied |-> applied[n]])
ViewVersion ==
  View("version", [at |-> "state", tables |-> viewer.tables, node |-> viewer.node,
                   level |-> viewer.level, applied |-> viewer.applied,
                   version |-> desired[viewer.node].version])

\* Mutant: a configured node is taken for one that enforces.
ConfiguredOnly(body, version) == body = Rendered(viewer.level, viewer.tables)

\* HasSecurityRevision and the like, and the page's comparison of versions.
ShownReady(body, version) ==
  body = Rendered(viewer.level, viewer.tables) /\ version > 0 /\ viewer.applied >= version

\* The version was read before the state: a state saved in between is noticed
\* by nobody.
ViewState ==
  LET n == viewer.node IN
  /\ viewer.at = "state" /\ viewer' = [at |-> "idle"]
  /\ shown' = [shown EXCEPT ![n] =
       [ready |-> ShownReady(desired[n].body, viewer.version),
        between |-> desired[n].version # viewer.version,
        runs |-> agent[n].body = Rendered(viewer.level, viewer.tables)]]
  /\ UNCHANGED <<rules, level, applied, desired, agent, upgrading, request, beats, rendering,
                 unsettled, counts>>

-----------------------------------------------------------------------------

RulesInit ==
  /\ rules = [chain |-> <<>>, challenge |-> 0, limit |-> 0]
  /\ level \in [Enforcers -> 0..2] /\ applied = [n \in Enforcers |-> 1]
  /\ desired = [n \in Enforcers |-> [version |-> 1, body |-> Rendered(level[n], rules), for |-> level[n]]]
  /\ agent = [n \in Enforcers |-> [level |-> level[n], version |-> 1, body |-> desired[n].body]]
  /\ upgrading = {} /\ request = [a \in Authors |-> "idle"]
  /\ beats = [n \in Enforcers |-> "idle"] /\ rendering = [w \in Workers |-> NotRendering]
  /\ viewer = [at |-> "idle"]
  /\ shown = [n \in Enforcers |-> [ready |-> FALSE, between |-> FALSE, runs |-> FALSE]]
  /\ unsettled = FALSE /\ counts = [saves |-> 0, agents |-> 0, hindrances |-> 0]

RulesNext ==
  \/ \E a \in Authors : ChangeRules(a) \/ ChangeChallenge(a) \/ ChangeLimit(a) \/ Deploy(a)
  \/ \E w \in Workers : BeginRendering(w) \/ ListNodes(w) \/ ReadRules(w) \/ ReadChallenges(w)
                        \/ ReadLimits(w) \/ SaveStates(w) \/ RenderingFails(w)
  \/ \E n \in Enforcers : Load(n) \/ Beat(n) \/ CheckCapabilities(n) \/ StartUpgrade(n)
                          \/ \E l \in 0..2 : EndUpgrade(n, l)
  \/ ListPolicies \/ ViewNodes \/ ViewVersion \/ ViewState \/ KillRollout

RulesSpec == RulesInit /\ [][RulesNext]_ruleVars

-----------------------------------------------------------------------------
(* Properties *)

RulesTypeOK ==
  /\ level \in [Enforcers -> 0..2] /\ upgrading \subseteq Enforcers
  /\ \A i, j \in DOMAIN rules.chain : rules.chain[i].id = rules.chain[j].id => i = j
  /\ \A n \in Enforcers : applied[n] <= agent[n].version /\ agent[n].version <= desired[n].version
  /\ Cardinality({w \in Workers : rendering[w] # NotRendering}) <= 1

\* A node's desired state misses a change only while a request has to publish it
\* yet, after one that ended with an error or no answer, or until the next
\* heartbeat of an agent that changed.  An agent that merely gained or lost rate
\* limits is not noticed (edge_capabilities.go:82).
StaleIsKnown ==
  \A n \in Enforcers :
    \/ desired[n].body = Rendered(level[n], rules)
    \/ unsettled \/ \E a \in Authors : request[a] # "idle"
    \/ NeedsRebuild(n) \/ {level[n], desired[n].for} = {0, 1}

\* What the overview shows as enforced is what nginx has loaded, unless a state
\* was saved between its two reads.
ShownIsLoaded == \A n \in Enforcers : shown[n].ready /\ ~shown[n].between => shown[n].runs

\* No change of a policy gets lost on its way (control/security.go).
RulesHold == RulesTypeOK /\ StaleIsKnown /\ ShownIsLoaded
=============================================================================
