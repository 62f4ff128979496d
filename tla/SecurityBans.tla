---------------------------- MODULE SecurityBans ----------------------------
(***************************************************************************)
(* Bans of client addresses.  An edge reads the matches that nginx logs,   *)
(* bans the address at once in its own firewall and reports the event; the *)
(* controller validates it, keeps the ban for the fleet and hands the      *)
(* active bans to every edge that does not have their revision yet         *)
(* (internal/edge/security.go, internal/store/security.go).                *)
(*                                                                         *)
(* One goroutine of the agent does all of an edge's work; it may be killed *)
(* between any two writes.  A tick is longer than the ten minutes in which *)
(* the controller takes an observation for a present one.  The digest of   *)
(* the active bans stands for them, and is represented by them.            *)
(***************************************************************************)
EXTENDS Integers, Sequences, FiniteSets

CONSTANTS
  Guards,       \* the edges
  Exposed,      \* bound: the edges that get matches
  Visitors,     \* client addresses
  BatchLimit,   \* events in one report (200)
  BanTicks,     \* the ban duration of the policy
  MaxMatches,   \* bound: matches on one edge
  MaxClock,     \* bound: ticks
  MaxOrders,    \* bound: what the administrator does
  MaxOutages    \* bound: kills, reboots, lost calls and failures of nft

ASSUME BanAssumption ==
  /\ Exposed \subseteq Guards
  /\ BatchLimit \in Nat \ {0} /\ BanTicks \in Nat \ {0}
  /\ {MaxMatches, MaxClock, MaxOrders, MaxOutages} \subseteq Nat

VARIABLES
  matches,  \* security.json of each edge
  guards,   \* files, memory and firewall of each edge
  center,   \* security_bans, security_events and the policy
  clock,    \* the time
  orders,   \* bound: what the administrator has done
  outages   \* bound: what has failed

banVars == <<matches, guards, center, clock, orders, outages>>

NoBan == [until |-> 0, pending |-> FALSE]
NoRevision == [v \in {} |-> 0]
Timeouts == [Visitors -> 0..MaxClock + BanTicks]

\* A line is collected anew, under a new UUID, when the agent was killed before
\* it had saved how far it has read.
Event == [edge : Guards, line : 1..MaxMatches, take : 0..MaxOutages,
          ip : Visitors, seen : 0..MaxClock]

IdleGuard ==
  [at |-> "idle", offset |-> 0, reading |-> 0, queue |-> << >>, refused |-> {},
   bans |-> [v \in Visitors |-> NoBan], revision |-> NoRevision,
   firewall |-> [v \in Visitors |-> 0], dirty |-> FALSE,
   index |-> 0, done |-> {}, answer |-> NoRevision]

BansInit ==
  /\ matches = [e \in Guards |-> << >>]
  /\ guards = [e \in Guards |-> IdleGuard]
  /\ center = [bans |-> [v \in Visitors |-> 0], recorded |-> {}, enabled |-> TRUE]
  /\ clock = 0 /\ orders = 0 /\ outages = 0

Order == orders < MaxOrders /\ orders' = orders + 1
Outage == outages < MaxOutages /\ outages' = outages + 1

Guard(e, guard) == guards' = [guards EXCEPT ![e] = guard]

At(e, step) == guards[e].at = step
GuardOnly == UNCHANGED <<matches, center, clock, orders>>

Later(s, t) == IF s > t THEN s ELSE t

-----------------------------------------------------------------------------
(* Bans *)

Active(bans) == [v \in Visitors |-> IF bans[v].until > clock THEN bans[v] ELSE NoBan]

\* What nftables is given.
Enforced(bans) == [v \in Visitors |-> Active(bans)[v].until]

\* ListActiveSecurityBans, and the revision made of them.
Fleet == [v \in Visitors |-> IF center.bans[v] > clock THEN center.bans[v] ELSE 0]

\* What a pull makes of the local bans.
Pulled(e, fleet) ==
  [v \in Visitors |->
     IF Active(guards[e].bans)[v].pending THEN guards[e].bans[v]
     ELSE IF fleet[v] > clock THEN [until |-> fleet[v], pending |-> FALSE]
     ELSE NoBan]

\* Mutant: a ban of this edge is not marked until its event is accepted.
WithBansUnmarked(e, ips) ==
  [v \in Visitors |->
     IF v \in ips THEN [until |-> Later(clock + BanTicks, guards[e].bans[v].until), pending |-> FALSE]
     ELSE Active(guards[e].bans)[v]]

\* persistLocalBans: the later end of an earlier ban stays.
WithBans(e, ips) ==
  [v \in Visitors |->
     IF v \in ips THEN [until |-> Later(clock + BanTicks, guards[e].bans[v].until), pending |-> TRUE]
     ELSE Active(guards[e].bans)[v]]

-----------------------------------------------------------------------------
(* nginx, time and the administrator *)

\* What the firewall drops does not reach nginx.
Match(e, v) ==
  /\ Len(matches[e]) < MaxMatches /\ guards[e].firewall[v] <= clock
  /\ matches' = [matches EXCEPT ![e] = Append(@, [ip |-> v, seen |-> clock])]
  /\ UNCHANGED <<guards, center, clock, orders, outages>>

BanTick ==
  /\ clock < MaxClock /\ clock' = clock + 1
  /\ UNCHANGED <<matches, guards, center, orders, outages>>

Unban(v) ==
  /\ Order /\ Fleet[v] # 0
  /\ center' = [center EXCEPT !.bans[v] = 0]
  /\ UNCHANGED <<matches, guards, clock, outages>>

\* The edges go on logging until the next publication reaches them.
TogglePolicy ==
  /\ Order
  /\ center' = [center EXCEPT !.enabled = ~@]
  /\ UNCHANGED <<matches, guards, clock, outages>>

-----------------------------------------------------------------------------
(* The controller takes a report *)

Known(event) == event \in center.recorded
Valid(event) == Known(event) \/ center.enabled

BatchOf(e) == SubSeq(guards[e].queue, 1,
                     IF BatchLimit < Len(guards[e].queue) THEN BatchLimit ELSE Len(guards[e].queue))

EventsIn(batch) == {batch[i] : i \in DOMAIN batch}

\* The end of the ban of an address after the events of a batch.
BanEnd(v, batch) ==
  LET ends == {event.seen + BanTicks : event \in {event \in EventsIn(batch) : event.ip = v /\ ~Known(event)}}
      after == {t \in ends : t > clock} \cup {center.bans[v]}
  IN CHOOSE t \in after : \A u \in after : u <= t

\* RecordSecurityEvents, in one transaction.
RecordSecurityEvents(batch) ==
  center' = [center EXCEPT !.recorded = @ \cup EventsIn(batch),
                           !.bans = [v \in Visitors |-> BanEnd(v, batch)]]

FirstInvalid(batch) ==
  CHOOSE i \in DOMAIN batch : ~Valid(batch[i]) /\ \A j \in 1..i - 1 : Valid(batch[j])

-----------------------------------------------------------------------------
(* collectAndFlush, a round of every half second *)

Unread(e) == guards[e].offset < Len(matches[e])

\* The event is queued before its ban and before the offset is saved.
CollectEvents(e) ==
  /\ At(e, "idle") /\ Unread(e)
  /\ LET from == guards[e].offset
         event == [k \in 1..Len(matches[e]) - from |->
                     [edge |-> e, line |-> from + k, take |-> outages,
                      ip |-> matches[e][from + k].ip, seen |-> matches[e][from + k].seen]]
     IN Guard(e, [guards[e] EXCEPT !.at = "bans", !.reading = Len(matches[e]), !.queue = guards[e].queue \o event])
  /\ GuardOnly /\ UNCHANGED outages

PersistLocalBans(e) ==
  /\ At(e, "bans")
  /\ LET ips == {matches[e][n].ip : n \in guards[e].offset + 1..guards[e].reading}
     IN Guard(e, [guards[e] EXCEPT !.at = "offset", !.bans = WithBans(e, ips)])
  /\ GuardOnly /\ UNCHANGED outages

SaveLogOffset(e) ==
  /\ At(e, "offset")
  /\ Guard(e, [guards[e] EXCEPT !.at = "firewall", !.offset = guards[e].reading, !.reading = 0])
  /\ GuardOnly /\ UNCHANGED outages

\* A firewall that could not be replaced is tried again, once a round.
RetryFirewall(e) ==
  /\ At(e, "idle") /\ ~Unread(e) /\ guards[e].dirty
  /\ Guard(e, [guards[e] EXCEPT !.at = "firewall"])
  /\ GuardOnly /\ UNCHANGED outages

\* replaceFirewall; in a round it is followed by the report.
ReplaceFirewall(e) ==
  /\ guards[e].at \in {"firewall", "switch"}
  /\ Guard(e, [guards[e] EXCEPT !.firewall = Enforced(guards[e].bans), !.dirty = FALSE,
               !.at = IF At(e, "firewall") /\ guards[e].queue # << >> THEN "flush" ELSE "idle"])
  /\ GuardOnly /\ UNCHANGED outages

FirewallFails(e) ==
  /\ guards[e].at \in {"firewall", "switch"} /\ Outage
  /\ Guard(e, [guards[e] EXCEPT !.at = "idle", !.dirty = TRUE])
  /\ GuardOnly

HasReport(e) ==
  /\ guards[e].queue # << >>
  /\ \/ At(e, "flush")
     \/ At(e, "idle") /\ ~Unread(e) /\ ~guards[e].dirty

\* One invalid event refuses the whole report.
ReportRefused(e) ==
  /\ HasReport(e)
  /\ \E i \in DOMAIN BatchOf(e) : ~Valid(BatchOf(e)[i])
  /\ Guard(e, [guards[e] EXCEPT !.at = "drop", !.index = FirstInvalid(BatchOf(e))])
  /\ GuardOnly /\ UNCHANGED outages

ReportAccepted(e) ==
  /\ HasReport(e)
  /\ \A i \in DOMAIN BatchOf(e) : Valid(BatchOf(e)[i])
  /\ RecordSecurityEvents(BatchOf(e))
  /\ Guard(e, [guards[e] EXCEPT !.at = "rest"])
  /\ UNCHANGED <<matches, clock, orders, outages>>

\* The request is lost, or what the controller answered.
ReportLost(e) ==
  /\ HasReport(e) /\ Outage
  /\ Guard(e, [guards[e] EXCEPT !.at = "idle"])
  /\ \/ UNCHANGED center
     \/ (\A i \in DOMAIN BatchOf(e) : Valid(BatchOf(e)[i])) /\ RecordSecurityEvents(BatchOf(e))
  /\ UNCHANGED <<matches, clock, orders>>

\* Mutant: a refused report stays as it is.
KeepRejected(e) ==
  /\ At(e, "drop")
  /\ Guard(e, [guards[e] EXCEPT !.at = "idle", !.index = 0])
  /\ GuardOnly /\ UNCHANGED outages

\* The event that the controller named leaves the queue; its ban stays.
DropRejected(e) ==
  /\ At(e, "drop")
  /\ LET queue == guards[e].queue
         i == guards[e].index
     IN Guard(e, [guards[e] EXCEPT !.at = "idle", !.index = 0, !.refused = guards[e].refused \cup {queue[i].line},
                  !.queue = SubSeq(queue, 1, i - 1) \o SubSeq(queue, i + 1, Len(queue))])
  /\ GuardOnly /\ UNCHANGED outages

SaveRest(e) ==
  /\ At(e, "rest")
  /\ Guard(e, [guards[e] EXCEPT !.at = "clear", !.done = {event.ip : event \in EventsIn(BatchOf(e))},
               !.queue = SubSeq(guards[e].queue, Len(BatchOf(e)) + 1, Len(guards[e].queue))])
  /\ GuardOnly /\ UNCHANGED outages

\* By address: a later event of the same address may still be queued.
ClearPending(e) ==
  /\ At(e, "clear")
  /\ Guard(e, [guards[e] EXCEPT !.at = "idle", !.done = {},
               !.bans = [v \in Visitors |-> [guards[e].bans[v] EXCEPT !.pending = @ /\ v \notin guards[e].done]]])
  /\ GuardOnly /\ UNCHANGED outages

-----------------------------------------------------------------------------
(* syncBans: after a report whose answer names another revision, after a     *)
(* heartbeat that does, and in any case every five minutes                    *)

Pull(e) ==
  /\ At(e, "idle")
  /\ Guard(e, [guards[e] EXCEPT !.at = "pulled", !.answer = Fleet])
  /\ GuardOnly /\ UNCHANGED outages

\* 304, the revision is the one that If-None-Match named.
NotModified(e) ==
  /\ At(e, "pulled") /\ guards[e].answer = guards[e].revision
  /\ Guard(e, [guards[e] EXCEPT !.at = IF guards[e].dirty THEN "switch" ELSE "idle", !.answer = NoRevision])
  /\ GuardOnly /\ UNCHANGED outages

SaveRemoteBans(e) ==
  /\ At(e, "pulled") /\ guards[e].answer # guards[e].revision
  /\ Guard(e, [guards[e] EXCEPT !.at = "switch", !.answer = NoRevision,
               !.bans = Pulled(e, guards[e].answer), !.revision = guards[e].answer])
  /\ GuardOnly /\ UNCHANGED outages

-----------------------------------------------------------------------------
\* The agent is killed, or the machine restarts; initialize then restores the
\* firewall from the saved state.
KillGuard(e) ==
  /\ Outage
  /\ \E firewall \in {guards[e].firewall, IdleGuard.firewall} :
       Guard(e, [guards[e] EXCEPT !.at = "switch", !.reading = 0, !.dirty = FALSE, !.index = 0, !.done = {},
                 !.answer = NoRevision, !.firewall = firewall])
  /\ GuardOnly

\* What a round that has begun does next.
RoundStep(e) ==
  \/ PersistLocalBans(e) \/ SaveLogOffset(e) \/ ReplaceFirewall(e)
  \/ DropRejected(e) \/ SaveRest(e) \/ ClearPending(e)
  \/ NotModified(e) \/ SaveRemoteBans(e)

\* What a round begins with, and its report.
Advance(e) == CollectEvents(e) \/ RetryFirewall(e) \/ ReportRefused(e) \/ ReportAccepted(e)

BansNext ==
  \/ \E e \in Exposed, v \in Visitors : Match(e, v)
  \/ BanTick
  \/ \E v \in Visitors : Unban(v)
  \/ TogglePolicy
  \/ \E e \in Guards : \/ RoundStep(e) \/ Advance(e) \/ Pull(e)
                       \/ FirewallFails(e) \/ ReportLost(e) \/ KillGuard(e)

\* The loop of the agent takes every ticker and every signal at some time.
BansFairness ==
  \A e \in Guards : /\ WF_banVars(RoundStep(e))
                    /\ SF_banVars(Advance(e))
                    /\ SF_banVars(Pull(e))

BansSpec == BansInit /\ [][BansNext]_banVars /\ BansFairness

-----------------------------------------------------------------------------
BansTypeOK ==
  /\ \A e \in Guards :
       /\ matches[e] \in Seq([ip : Visitors, seen : 0..MaxClock])
       /\ LET g == guards[e] IN
          /\ g.at \in {"idle", "bans", "offset", "firewall", "flush", "drop", "rest", "clear", "pulled", "switch"}
          /\ g.offset \in 0..Len(matches[e]) /\ g.reading \in 0..Len(matches[e])
          /\ g.queue \in Seq(Event) /\ g.refused \subseteq 1..g.offset
          /\ g.bans \in [Visitors -> [until : 0..MaxClock + BanTicks, pending : BOOLEAN]]
          /\ {g.revision, g.answer} \subseteq Timeouts \cup {NoRevision} /\ g.firewall \in Timeouts
          /\ g.dirty \in BOOLEAN /\ g.index \in 0..BatchLimit /\ g.done \subseteq Visitors
  /\ center.bans \in Timeouts /\ center.recorded \subseteq Event /\ center.enabled \in BOOLEAN
  /\ clock \in 0..MaxClock /\ orders \in 0..MaxOrders /\ outages \in 0..MaxOutages

QueuedEvents(e) == EventsIn(guards[e].queue)
RecordedOf(e) == {event \in center.recorded : event.edge = e}

\* Every line that the saved offset has passed is queued, recorded or refused.
NoEventLost ==
  \A e \in Guards :
    1..guards[e].offset \subseteq {event.line : event \in QueuedEvents(e) \cup RecordedOf(e)} \cup guards[e].refused

\* An address whose event the controller does not know yet is banned by the
\* saved state of the edge, whatever the edge pulls in between and wherever it
\* was killed.
OwnBansHold ==
  \A e \in Guards : \A event \in QueuedEvents(e) :
    /\ event.line <= guards[e].offset /\ event.seen + BanTicks > clock
    /\ \A other \in RecordedOf(e) : other.ip # event.ip
    => guards[e].bans[event.ip].until > clock

\* Between two rounds, a firewall that is not known to be wrong enforces the
\* saved bans.
FirewallFollows ==
  \A e \in Guards : At(e, "idle") /\ ~guards[e].dirty =>
    \A v \in Visitors : Enforced(guards[e].bans)[v] = IF guards[e].firewall[v] > clock
                                                       THEN guards[e].firewall[v] ELSE 0

BansHold == BansTypeOK /\ NoEventLost /\ OwnBansHold /\ FirewallFollows

\* Refused reports and lost ones do not hold up the queue for ever.
QueuesDrain == <>[](\A e \in Guards : guards[e].queue = << >> /\ ~Unread(e))

Matched(e, v) == \E n \in DOMAIN matches[e] : matches[e][n].ip = v

\* A ban of the fleet reaches the firewall of every edge.
BanSpreads ==
  \A e \in Guards, v \in Visitors :
    Fleet[v] # 0 /\ ~Matched(e, v)
      ~> guards[e].firewall[v] >= Fleet[v] \/ Fleet[v] = 0 \/ Matched(e, v)

BansSettle == QueuesDrain /\ BanSpreads

\* docs/SECURITY_POLICIES.md, "Request and ban flow": a manual unban converges on
\* the next pull.  Once the controller knows every event of an address and bans it
\* no longer, no edge enforces the ban for ever.
Quiet(v) ==
  /\ Fleet[v] = 0
  /\ \A e \in Guards : /\ \A event \in QueuedEvents(e) : event.ip # v
                       /\ \A n \in DOMAIN matches[e] :
                            matches[e][n].ip = v => \E event \in RecordedOf(e) : event.line = n
UnbanConverges ==
  \A v \in Visitors : Quiet(v) ~> ~Quiet(v) \/ \A e \in Guards : guards[e].firewall[v] <= clock
=============================================================================
