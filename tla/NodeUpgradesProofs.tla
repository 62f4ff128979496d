--------------------------- MODULE NodeUpgradesProofs ---------------------------
(* Theorems about NodeUpgrades, for every list of nodes and every bound: what a *)
(* rollout may count on, and that it is a staged rollout.                       *)
EXTENDS NodeUpgrades, TLAPS, FiniteSetTheorems, SequenceTheorems, WellFoundedInduction

-----------------------------------------------------------------------------
(* Numbers and rows.                                                       *)

\* A set of numbers has a first one, which FirstOf denotes.
LEMMA FirstOfSet ==
  ASSUME NEW S, S \subseteq Nat, S # {}
  PROVE  FirstOf(S) \in S /\ \A j \in S : FirstOf(S) <= j
<1> DEFINE less == OpToRel(<, Nat)
<1>0. S \subseteq Nat /\ S # {}
  OBVIOUS
<1> HIDE DEF less
<1>1. PICK i \in S : \A j \in S : <<j, i>> \notin less
  <2>1. IsWellFoundedOn(less, Nat)
    BY NatLessThanWellFounded DEF less
  <2> QED BY <1>0, <2>1, WFMin
<1>2. \A j \in S : ~(j < i)
  BY <1>0, <1>1 DEF OpToRel, less
<1>3. \A j \in S : i <= j
  BY <1>0, <1>2
<1> QED BY <1>3 DEF FirstOf

MemberStates == {"pending", "upgrading", "verifying", "succeeded", "failed", "skipped"}

\* A row whose member i is replaced.
WithMember(row, i, m) == [row EXCEPT !.members = [@ EXCEPT ![i] = m]]

LEMMA MemberUpdates ==
  ASSUME NEW m \in Member
  PROVE  /\ \A state \in MemberStates : [m EXCEPT !.state = state] \in Member
         /\ \A state \in MemberStates, flag \in BOOLEAN :
              [m EXCEPT !.state = state, !.healthy = flag] \in Member
         /\ \A state \in MemberStates, t \in TaskIDs : [m EXCEPT !.state = state, !.task = t] \in Member
BY DEF Member, MemberStates

LEMMA RolloutRow ==
  ASSUME NEW row \in Rollout
  PROVE  /\ row.number \in 0..MaxRollouts /\ row.target \in Versions
         /\ row.members \in Seq(Member) /\ DOMAIN row.members = 1..Len(row.members)
         /\ Len(row.members) \in Nat
         /\ \A i \in DOMAIN row.members :
              /\ row.members[i] \in Member
              /\ row.members[i].node \in EdgeNodes /\ row.members[i].task \in TaskIDs
              /\ row.members[i].state \in MemberStates
         /\ row.state \in {"none", "running", "paused", "cancelled", "succeeded"}
<1>1. /\ row.number \in 0..MaxRollouts /\ row.target \in Versions /\ row.members \in Seq(Member)
      /\ row.state \in {"none", "running", "paused", "cancelled", "succeeded"}
  BY DEF Rollout
<1>2. DOMAIN row.members = 1..Len(row.members) /\ Len(row.members) \in Nat
  BY <1>1, LenProperties
<1>3. \A i \in DOMAIN row.members : row.members[i] \in Member
  BY <1>1, <1>2, ElementOfSeq
<1> QED BY <1>1, <1>2, <1>3 DEF Member, MemberStates

LEMMA RowUpdates ==
  ASSUME NEW row \in Rollout
  PROVE  \A state \in {"none", "running", "paused", "cancelled", "succeeded"} :
           LET r == [row EXCEPT !.state = state] IN
           /\ r \in Rollout /\ r.state = state
           /\ r.number = row.number /\ r.target = row.target /\ r.members = row.members
BY DEF Rollout

LEMMA MembersUpdate ==
  ASSUME NEW row \in Rollout, NEW i \in DOMAIN row.members, NEW m \in Member
  PROVE  /\ WithMember(row, i, m) \in Rollout
         /\ WithMember(row, i, m).number = row.number /\ WithMember(row, i, m).target = row.target
         /\ WithMember(row, i, m).state = row.state
         /\ DOMAIN WithMember(row, i, m).members = DOMAIN row.members
         /\ WithMember(row, i, m).members[i] = m
         /\ \A j \in DOMAIN row.members : j # i => WithMember(row, i, m).members[j] = row.members[j]
<1> DEFINE ms == [row.members EXCEPT ![i] = m]
<1>1. ms \in Seq(Member) /\ DOMAIN ms = DOMAIN row.members
  BY RolloutRow, ExceptSeq, LenProperties
<1>2. ms[i] = m /\ \A j \in DOMAIN row.members : j # i => ms[j] = row.members[j]
  BY RolloutRow
<1> HIDE DEF ms
<1>3. [row EXCEPT !.members = ms] \in Rollout
  BY <1>1 DEF Rollout
<1>4. LET r == [row EXCEPT !.members = ms] IN
      r.members = ms /\ r.number = row.number /\ r.target = row.target /\ r.state = row.state
  BY DEF Rollout
<1>5. WithMember(row, i, m) = [row EXCEPT !.members = ms]
  BY DEF WithMember, ms
<1> QED BY <1>1, <1>2, <1>3, <1>4, <1>5

-----------------------------------------------------------------------------
(* The rollout.                                                            *)

\* The members that have been begun and are neither upgraded nor given up.
Begun(members) ==
  {i \in DOMAIN members :
     \/ members[i].state \in {"upgrading", "verifying", "failed"}
     \/ members[i].state = "pending" /\ members[i].task # NoUpgradeTask}

\* The shape of a row: every node once, begun in order, and at most MaxParallel at
\* a time; with a failed member the rollout does not run; one that is over has
\* nothing left to begin.
RowSound(row) ==
  /\ DOMAIN row.members \subseteq DOMAIN NodeOrder
  /\ \A i, j \in DOMAIN row.members : row.members[i].node = row.members[j].node => i = j
  /\ row.state \in {"running", "paused"} =>
       /\ \A i \in DOMAIN row.members :
            /\ row.members[i].task = NoUpgradeTask => row.members[i].state = "pending"
            /\ row.members[i].state # "skipped"
       /\ \A i, j \in DOMAIN row.members :
            i < j /\ row.members[j].task # NoUpgradeTask => row.members[i].task # NoUpgradeTask
       /\ Cardinality(Begun(row.members)) <= MaxParallel
       /\ row.state = "running" => \A i \in DOMAIN row.members : row.members[i].state # "failed"
  /\ row.state \notin {"running", "paused"} =>
       \A i \in DOMAIN row.members : row.members[i].state \notin {"pending", "failed"}

\* The copy that the loop works on differs only in what became of the members in
\* flight, and it stops when one of them failed.
Observed(row, work) ==
  /\ work.number = row.number /\ work.target = row.target /\ DOMAIN work.members = DOMAIN row.members
  /\ \A i \in DOMAIN row.members :
       LET m == row.members[i]  w == work.members[i] IN
       /\ w.node = m.node /\ w.task = m.task
       /\ IF i \in InFlight(row.members) THEN w.state \in {"upgrading", "verifying", "succeeded", "failed"}
          ELSE w.state = m.state
  /\ work.state = IF \E i \in InFlight(row.members) : work.members[i].state = "failed"
                  THEN "paused" ELSE row.state

DriverSound ==
  /\ driver.pc = "dispatch first" =>
       rollout.state = "running" /\ 1 \in DOMAIN rollout.members
       /\ \A i \in DOMAIN rollout.members : rollout.members[i] = NewMember(rollout.members[i].node)
  /\ driver.pc = "dispatch" => rollout.state = "running"
  /\ driver.pc \in {"observe", "save"} => ActiveRollout /\ Observed(rollout, driver.work)
  /\ driver.pc = "observe" => driver.at \in InFlight(driver.work.members)

RolloutInv == RowSound(rollout) /\ DriverSound

-----------------------------------------------------------------------------
(* Tasks and edges.                                                        *)

\* There is room for the tasks that members still need.
TasksFit == Room(0)

\* Only the latest task of a node is open, and an edge works on a task of its own.
OpenIsLatest == \A t \in DOMAIN upgradeTasks : upgradeTasks[t].status \in Open => IsLatest(t)

EdgeSound(n) ==
  LET e == edges[n] IN
  /\ IF e.task = NoUpgradeTask THEN e.stage = "none" /\ e.installer = "off" /\ e.result = "none"
     ELSE e.task \in TasksOf(n)
  /\ e.runs \in hasRun[n] /\ e.backup \in hasRun[n] /\ heard[n].version \in hasRun[n]

\* The last heartbeat tells the truth if it came after the latest task succeeded:
\* every success makes it count for old.
HeardTruth(n) ==
  heard[n].fresh /\ heard[n].active = NoUpgradeTask =>
    \A t \in TasksOf(n) : IsLatest(t) /\ upgradeTasks[t].status = "succeeded" =>
      edges[n].task = NoUpgradeTask /\ edges[n].runs = heard[n].version

\* The task of a member is for its node and for the target, and no other is newer;
\* a member that counts as upgraded is at rest.
MemberSound(m, target) ==
  /\ m.task # NoUpgradeTask =>
       m.task \in TasksOf(m.node) /\ IsLatest(m.task) /\ upgradeTasks[m.task].target = target
  /\ m.state = "succeeded" =>
       /\ m.task # NoUpgradeTask /\ upgradeTasks[m.task].status = "succeeded"
       /\ edges[m.node].task = NoUpgradeTask /\ edges[m.node].runs = target

MembersSound(row) == \A i \in DOMAIN row.members : MemberSound(row.members[i], row.target)

SucceededHasRun ==
  \A t \in DOMAIN upgradeTasks :
    upgradeTasks[t].status = "succeeded" => upgradeTasks[t].target \in hasRun[upgradeTasks[t].node]

EdgeRow ==
  [runs : Versions, backup : Versions, task : TaskIDs,
   stage : {"none", "staging", "prepared", "launching", "launched"},
   ready : BOOLEAN, doubt : BOOLEAN, result : {"none", "succeeded", "failed", "interrupted"},
   installer : {"off", "begin", "wait", "report"}]

HeardRow == [version : Versions, active : TaskIDs, fresh : BOOLEAN]

EdgesTyped ==
  /\ heard \in [EdgeNodes -> HeardRow] /\ edges \in [EdgeNodes -> EdgeRow]
  /\ hasRun \in [EdgeNodes -> SUBSET Versions] /\ disturbances \in 0..MaxDisturbances

NodesSound ==
  /\ OpenIsLatest /\ SucceededHasRun
  /\ \A n \in EdgeNodes : EdgeSound(n) /\ HeardTruth(n)

CopiesSound ==
  /\ ActiveRollout => MembersSound(rollout)
  /\ driver.pc \in {"observe", "save"} => MembersSound(driver.work)


-----------------------------------------------------------------------------
(* What the rows of the rollout and the driver have in common.             *)

\* The members that still need a task.
WaitingMembers(row) ==
  {i \in DOMAIN row.members : row.state \in {"running", "paused"} /\ row.members[i].state = "pending"}

Drivers == [pc : {"idle", "dispatch first", "observe", "save", "dispatch"},
            at : 0..Len(NodeOrder), work : Rollout]

\* What the steps of the rollout keep.
RolloutHolds ==
  /\ rollout \in Rollout /\ driver \in Drivers /\ artifact \in Versions
  /\ upgradeTasks \in Seq(UpgradeTask) /\ TasksFit
  /\ RowSound(rollout) /\ DriverSound

\* The whole invariant.
UpgradesInv == RolloutHolds /\ EdgesTyped /\ NodesSound /\ CopiesSound

LEMMA MemberSets ==
  ASSUME NEW row \in Rollout
  PROVE  /\ IsFiniteSet(DOMAIN row.members) /\ DOMAIN row.members \subseteq Nat
         /\ \A S \in SUBSET (DOMAIN row.members) : IsFiniteSet(S) /\ Cardinality(S) \in Nat
         /\ WaitingMembers(row) \subseteq DOMAIN row.members
         /\ Begun(row.members) \subseteq DOMAIN row.members
         /\ InFlight(row.members) \subseteq DOMAIN row.members
<1>1. DOMAIN row.members = 1..Len(row.members) /\ Len(row.members) \in Nat
  BY RolloutRow
<1>2. IsFiniteSet(DOMAIN row.members)
  <2> DEFINE n == Len(row.members)
  <2>1. n \in Int /\ DOMAIN row.members = 1..n
    BY <1>1
  <2> HIDE DEF n
  <2>2. IsFiniteSet(1..n)
    BY <2>1, FS_Interval
  <2> QED BY <2>1, <2>2
<1>3. \A S \in SUBSET (DOMAIN row.members) : IsFiniteSet(S) /\ Cardinality(S) \in Nat
  BY <1>2, FS_Subset, FS_CardinalityType
<1> QED BY <1>1, <1>2, <1>3 DEF WaitingMembers, Begun, InFlight

LEMMA SmallerSet ==
  ASSUME NEW row \in Rollout, NEW S \in SUBSET (DOMAIN row.members), NEW T \in SUBSET S
  PROVE  Cardinality(T) <= Cardinality(S)
BY MemberSets, FS_Subset

LEMMA RoomNumbers ==
  ASSUME rollout \in Rollout, NEW k \in Nat
  PROVE  /\ Room(k) <=> k + Len(upgradeTasks) + Cardinality(WaitingMembers(rollout)) <= MaxUpgradeTasks
         /\ Cardinality(WaitingMembers(rollout)) \in Nat
<1>1. Cardinality(WaitingMembers(rollout)) \in Nat
  BY MemberSets
<1> QED BY <1>1 DEF Room, ActiveRollout, WaitingMembers

\* The room that is left does not shrink.
LEMMA RoomKept ==
  ASSUME rollout \in Rollout, rollout' \in Rollout, TasksFit,
         upgradeTasks \in Seq(UpgradeTask), upgradeTasks' \in Seq(UpgradeTask),
         Len(upgradeTasks') + Cardinality(WaitingMembers(rollout'))
           <= Len(upgradeTasks) + Cardinality(WaitingMembers(rollout))
  PROVE  TasksFit'
<1>1. /\ Len(upgradeTasks) \in Nat /\ Len(upgradeTasks') \in Nat
      /\ Cardinality(WaitingMembers(rollout)) \in Nat /\ Cardinality(WaitingMembers(rollout')) \in Nat
  BY MemberSets, LenProperties
<1>2. 0 + Len(upgradeTasks) + Cardinality(WaitingMembers(rollout)) <= MaxUpgradeTasks
  BY RoomNumbers DEF TasksFit
<1>3. 0 + Len(upgradeTasks') + Cardinality(WaitingMembers(rollout')) <= MaxUpgradeTasks
  BY <1>1, <1>2, UpgradeAssumption
<1> QED BY <1>3 DEF TasksFit, Room, ActiveRollout, WaitingMembers

LEMMA DriverFields ==
  ASSUME driver \in Drivers
  PROVE  /\ driver.work \in Rollout /\ driver.at \in 0..Len(NodeOrder)
         /\ driver.pc \in {"idle", "dispatch first", "observe", "save", "dispatch"}
BY DEF Drivers

LEMMA IdleDriverType ==
  /\ NoRollout \in Rollout /\ IdleDriver \in Drivers /\ IdleDriver.pc = "idle"
  /\ \A pc \in {"dispatch first", "dispatch"} :
       [IdleDriver EXCEPT !.pc = pc] \in Drivers /\ [IdleDriver EXCEPT !.pc = pc].pc = pc
<1>1. NoRollout \in Rollout
  BY EmptySeq, UpgradeAssumption DEF NoRollout, Rollout, Versions
<1>2. Len(NodeOrder) \in Nat
  BY UpgradeAssumption, LenProperties
<1>3. IdleDriver \in Drivers /\ IdleDriver.pc = "idle"
  BY <1>1, <1>2 DEF IdleDriver, Drivers
<1>4. \A pc \in {"dispatch first", "dispatch"} :
        [IdleDriver EXCEPT !.pc = pc] \in Drivers /\ [IdleDriver EXCEPT !.pc = pc].pc = pc
  BY <1>3 DEF Drivers
<1> QED BY <1>1, <1>3, <1>4

\* An idle driver, or one that is about to dispatch, has no copy to watch.
LEMMA DriverAtRest ==
  ASSUME driver' \in {IdleDriver, [IdleDriver EXCEPT !.pc = "dispatch"]},
         driver'.pc = "dispatch" => rollout'.state = "running"
  PROVE  DriverSound' /\ driver' \in Drivers
<1>1. driver' \in Drivers /\ driver'.pc \in {"idle", "dispatch"}
  BY IdleDriverType
<1> QED BY <1>1 DEF DriverSound

-----------------------------------------------------------------------------
(* Requests about the rollout.                                             *)

\* A row with the same members: what changes is at most its state.
LEMMA SameMembers ==
  ASSUME RolloutHolds, rollout' \in Rollout, rollout'.members = rollout.members,
         rollout.state \in {"running", "paused"}, rollout'.state \in {"paused", "running", "succeeded"},
         rollout'.state # "paused" =>
           \A i \in DOMAIN rollout.members : rollout.members[i].state # "failed",
         rollout'.state = "succeeded" =>
           \A i \in DOMAIN rollout.members : rollout.members[i].state = "succeeded",
         UNCHANGED upgradeTasks
  PROVE  RowSound(rollout') /\ TasksFit'
<1>1. RowSound(rollout')
  BY DEF RolloutHolds, RowSound
<1>2. WaitingMembers(rollout') \subseteq WaitingMembers(rollout)
  BY DEF WaitingMembers
<1>3. Cardinality(WaitingMembers(rollout')) <= Cardinality(WaitingMembers(rollout))
  <2>1. rollout \in Rollout
    BY DEF RolloutHolds
  <2>2. WaitingMembers(rollout) \in SUBSET (DOMAIN rollout.members)
    BY <2>1, MemberSets
  <2> QED BY <2>1, <2>2, <1>2, SmallerSet
<1>4. TasksFit'
  <2>1. /\ rollout \in Rollout /\ upgradeTasks \in Seq(UpgradeTask) /\ TasksFit
        /\ upgradeTasks' = upgradeTasks
    BY DEF RolloutHolds
  <2>2. /\ Len(upgradeTasks) \in Nat /\ Cardinality(WaitingMembers(rollout)) \in Nat
        /\ Cardinality(WaitingMembers(rollout')) \in Nat
    BY <2>1, MemberSets, LenProperties
  <2> QED BY <1>3, <2>1, <2>2, RoomKept
<1> QED BY <1>1, <1>4

\* The rollout pauses, on request or because the loop can go no further.
LEMMA PauseHolds ==
  ASSUME RolloutHolds, rollout.state = "running", SetRollout([rollout EXCEPT !.state = "paused"]),
         UNCHANGED <<artifact, upgradeTasks>>
  PROVE  RolloutHolds'
<1>1. rollout \in Rollout
  BY DEF RolloutHolds
<1>2. rollout' \in Rollout /\ rollout'.state = "paused" /\ rollout'.members = rollout.members
  BY <1>1, RowUpdates DEF SetRollout
<1>3. RowSound(rollout') /\ TasksFit'
  BY <1>2, SameMembers
<1>4. DriverSound' /\ driver' \in Drivers
  BY DriverAtRest, IdleDriverType DEF SetRollout
<1> QED BY <1>2, <1>3, <1>4 DEF RolloutHolds

LEMMA EndHolds ==
  ASSUME RolloutHolds, EndReconcileRollout
  PROVE  RolloutHolds'
<1> DEFINE done == \A i \in DOMAIN rollout.members : rollout.members[i].state = "succeeded"
<1>1. /\ rollout \in Rollout /\ rollout.state = "running" /\ RowSound(rollout)
      /\ upgradeTasks \in Seq(UpgradeTask) /\ TasksFit /\ artifact \in Versions
      /\ artifact' = artifact /\ upgradeTasks' = upgradeTasks /\ driver' = IdleDriver
  BY DEF RolloutHolds, DriverSound, EndReconcileRollout, SetRollout
<1>4. DriverSound' /\ driver' \in Drivers
  BY <1>1, DriverAtRest, IdleDriverType
<1>2. CASE done
  <2>1. rollout' = [rollout EXCEPT !.state = "succeeded"]
    BY <1>2 DEF EndReconcileRollout, SetRollout
  <2>2. rollout' \in Rollout /\ rollout'.state = "succeeded" /\ rollout'.members = rollout.members
    BY <1>1, <2>1, RowUpdates
  <2>3. RowSound(rollout') /\ TasksFit'
    BY <1>1, <1>2, <2>2, SameMembers
  <2> QED BY <1>1, <1>4, <2>2, <2>3 DEF RolloutHolds
<1>3. CASE ~done
  <2>1. UNCHANGED <<rollout, upgradeTasks>>
    BY <1>3 DEF EndReconcileRollout, SetRollout
  <2>2. TasksFit'
    BY <1>1, <2>1 DEF TasksFit, Room, ActiveRollout
  <2> QED BY <1>1, <1>4, <2>1, <2>2 DEF RolloutHolds
<1> QED BY <1>2, <1>3

LEMMA RestartHolds ==
  ASSUME RolloutHolds, RestartController
  PROVE  RolloutHolds'
<1>1. UNCHANGED <<artifact, rollout, upgradeTasks>> /\ driver' = IdleDriver
  BY DEF RestartController
<1>2. DriverSound' /\ driver' \in Drivers
  BY <1>1, DriverAtRest, IdleDriverType
<1> QED BY <1>1, <1>2 DEF RolloutHolds, TasksFit, Room, ActiveRollout

\* A row with other members for the same positions.
LEMMA NewMembers ==
  ASSUME NEW row \in Rollout, NEW state \in {"running", "cancelled"},
         NEW ms \in [DOMAIN row.members -> Member]
  PROVE  LET r == [row EXCEPT !.state = state, !.members = ms] IN
         /\ r \in Rollout /\ r.number = row.number /\ r.target = row.target /\ r.state = state
         /\ r.members = ms /\ DOMAIN r.members = DOMAIN row.members
<1>1. ms \in Seq(Member) /\ DOMAIN ms = DOMAIN row.members
  <2>1. DOMAIN row.members = 1..Len(row.members) /\ Len(row.members) \in Nat
    BY RolloutRow
  <2>2. ms \in [1..Len(row.members) -> Member]
    BY <2>1
  <2> QED BY <2>1, <2>2, SeqDef
<1>2. LET r == [row EXCEPT !.state = state, !.members = ms] IN
      /\ r \in Rollout /\ r.number = row.number /\ r.target = row.target /\ r.state = state
      /\ r.members = ms
  BY <1>1 DEF Rollout
<1> QED BY <1>1, <1>2

LEMMA RetrySkip ==
  ASSUME NEW m \in Member
  PROVE  /\ Retry(m) \in Member /\ Retry(m).node = m.node /\ Retry(m).task = m.task
         /\ Retry(m).state = IF m.state = "failed" THEN "pending" ELSE m.state
         /\ SkipMember(m) \in Member /\ SkipMember(m).node = m.node /\ SkipMember(m).task = m.task
         /\ SkipMember(m).state = IF m.state \in {"pending", "failed"} THEN "skipped" ELSE m.state
BY DEF Retry, SkipMember, Member

\* What became of the row in a request to resume.
LEMMA ResumedRow ==
  ASSUME rollout \in Rollout, ResumeRollout
  PROVE  /\ rollout' \in Rollout /\ rollout'.state = "running" /\ rollout.state = "paused"
         /\ rollout'.number = rollout.number /\ rollout'.target = rollout.target
         /\ DOMAIN rollout'.members = DOMAIN rollout.members
         /\ \A i \in DOMAIN rollout.members :
              LET m == rollout.members[i]  new == rollout'.members[i] IN
              /\ new.node = m.node /\ new.task = m.task
              /\ new.state = IF m.state = "failed" THEN "pending" ELSE m.state
<1> DEFINE ms == [i \in DOMAIN rollout.members |-> Retry(rollout.members[i])]
<1>1. rollout' = [rollout EXCEPT !.state = "running", !.members = ms] /\ rollout.state = "paused"
  BY DEF ResumeRollout, SetRollout
<1>2. \A i \in DOMAIN rollout.members : rollout.members[i] \in Member
  BY RolloutRow
<1>3. ms \in [DOMAIN rollout.members -> Member]
  BY <1>2, RetrySkip
<1>4. \A i \in DOMAIN rollout.members :
        LET m == rollout.members[i] IN
        /\ ms[i].node = m.node /\ ms[i].task = m.task
        /\ ms[i].state = IF m.state = "failed" THEN "pending" ELSE m.state
  BY <1>2, RetrySkip
<1> HIDE DEF ms
<1>5. /\ rollout' \in Rollout /\ rollout'.number = rollout.number
      /\ rollout'.target = rollout.target /\ rollout'.state = "running"
      /\ rollout'.members = ms /\ DOMAIN rollout'.members = DOMAIN rollout.members
  <2>1. LET r == [rollout EXCEPT !.state = "running", !.members = ms] IN
        /\ r \in Rollout /\ r.number = rollout.number /\ r.target = rollout.target
        /\ r.state = "running" /\ r.members = ms /\ DOMAIN r.members = DOMAIN rollout.members
    BY <1>3, NewMembers
  <2> QED BY <1>1, <2>1
<1> QED BY <1>1, <1>4, <1>5

LEMMA CancelledRow ==
  ASSUME rollout \in Rollout, CancelRollout
  PROVE  /\ rollout' \in Rollout /\ rollout'.state = "cancelled" /\ ActiveRollout
         /\ rollout'.number = rollout.number /\ rollout'.target = rollout.target
         /\ DOMAIN rollout'.members = DOMAIN rollout.members
         /\ \A i \in DOMAIN rollout.members :
              LET m == rollout.members[i]  new == rollout'.members[i] IN
              /\ new.node = m.node /\ new.task = m.task
              /\ new.state = IF m.state \in {"pending", "failed"} THEN "skipped" ELSE m.state
<1> DEFINE ms == [i \in DOMAIN rollout.members |-> SkipMember(rollout.members[i])]
<1>1. rollout' = [rollout EXCEPT !.state = "cancelled", !.members = ms] /\ ActiveRollout
  BY DEF CancelRollout, SetRollout
<1>2. \A i \in DOMAIN rollout.members : rollout.members[i] \in Member
  BY RolloutRow
<1>3. ms \in [DOMAIN rollout.members -> Member]
  BY <1>2, RetrySkip
<1>4. \A i \in DOMAIN rollout.members :
        LET m == rollout.members[i] IN
        /\ ms[i].node = m.node /\ ms[i].task = m.task
        /\ ms[i].state = IF m.state \in {"pending", "failed"} THEN "skipped" ELSE m.state
  BY <1>2, RetrySkip
<1> HIDE DEF ms
<1>5. /\ rollout' \in Rollout /\ rollout'.number = rollout.number
      /\ rollout'.target = rollout.target /\ rollout'.state = "cancelled"
      /\ rollout'.members = ms /\ DOMAIN rollout'.members = DOMAIN rollout.members
  <2>1. LET r == [rollout EXCEPT !.state = "cancelled", !.members = ms] IN
        /\ r \in Rollout /\ r.number = rollout.number /\ r.target = rollout.target
        /\ r.state = "cancelled" /\ r.members = ms /\ DOMAIN r.members = DOMAIN rollout.members
    BY <1>3, NewMembers
  <2> QED BY <1>1, <2>1
<1> QED BY <1>1, <1>4, <1>5

LEMMA ResumeHolds ==
  ASSUME RolloutHolds, ResumeRollout
  PROVE  RolloutHolds'
<1> DEFINE failed == {i \in DOMAIN rollout.members : rollout.members[i].state = "failed"}
<1>0. rollout \in Rollout /\ RowSound(rollout) /\ Room(Cardinality(failed))
  BY DEF RolloutHolds, ResumeRollout
<1>1. /\ rollout' \in Rollout /\ rollout'.state = "running" /\ rollout.state = "paused"
      /\ DOMAIN rollout'.members = DOMAIN rollout.members
      /\ \A i \in DOMAIN rollout.members :
           LET m == rollout.members[i]  new == rollout'.members[i] IN
           /\ new.node = m.node /\ new.task = m.task
           /\ new.state = IF m.state = "failed" THEN "pending" ELSE m.state
  BY <1>0, ResumedRow
<1>2. Begun(rollout'.members) = Begun(rollout.members)
  BY <1>0, <1>1 DEF RowSound, Begun
<1>3. RowSound(rollout')
  BY <1>0, <1>1, <1>2 DEF RowSound
<1>4. WaitingMembers(rollout') = WaitingMembers(rollout) \union failed
  BY <1>1 DEF WaitingMembers
<1>5. TasksFit'
  <2>1. /\ failed \in SUBSET (DOMAIN rollout.members)
        /\ WaitingMembers(rollout) \in SUBSET (DOMAIN rollout.members)
    BY <1>0, MemberSets
  <2>2. /\ IsFiniteSet(failed) /\ IsFiniteSet(WaitingMembers(rollout))
        /\ Cardinality(failed) \in Nat /\ Cardinality(WaitingMembers(rollout)) \in Nat
    BY <1>0, <2>1, MemberSets
  <2> HIDE DEF failed
  <2>3. WaitingMembers(rollout) \intersect failed \in SUBSET (DOMAIN rollout.members)
    BY <2>1
  <2>4. Cardinality(WaitingMembers(rollout) \intersect failed) \in Nat
    BY <1>0, <2>3, MemberSets
  <2>5. Cardinality(WaitingMembers(rollout')) <= Cardinality(WaitingMembers(rollout)) + Cardinality(failed)
    <3>1. Cardinality(WaitingMembers(rollout) \union failed)
            = Cardinality(WaitingMembers(rollout)) + Cardinality(failed)
                - Cardinality(WaitingMembers(rollout) \intersect failed)
      BY <2>2, FS_Union
    <3> QED BY <1>4, <2>2, <2>4, <3>1
  <2>6. Cardinality(failed) + Len(upgradeTasks) + Cardinality(WaitingMembers(rollout)) <= MaxUpgradeTasks
    BY <1>0, <2>2, RoomNumbers
  <2>7. Len(upgradeTasks') = Len(upgradeTasks) /\ Len(upgradeTasks) \in Nat
    BY LenProperties DEF ResumeRollout, RolloutHolds
  <2>8. Cardinality(WaitingMembers(rollout')) \in Nat
    BY <1>1, MemberSets
  <2>9. 0 + Len(upgradeTasks') + Cardinality(WaitingMembers(rollout')) <= MaxUpgradeTasks
    BY <2>2, <2>5, <2>6, <2>7, <2>8, UpgradeAssumption
  <2> QED BY <2>9 DEF TasksFit, Room, ActiveRollout, WaitingMembers
<1>6. DriverSound' /\ driver' \in Drivers
  BY DriverAtRest, IdleDriverType DEF ResumeRollout, SetRollout
<1> QED BY <1>1, <1>3, <1>5, <1>6 DEF RolloutHolds, ResumeRollout

LEMMA CancelHolds ==
  ASSUME RolloutHolds, CancelRollout
  PROVE  RolloutHolds'
<1>0. rollout \in Rollout /\ RowSound(rollout)
  BY DEF RolloutHolds
<1>1. /\ rollout' \in Rollout /\ rollout'.state = "cancelled"
      /\ DOMAIN rollout'.members = DOMAIN rollout.members
      /\ \A i \in DOMAIN rollout.members :
           LET m == rollout.members[i]  new == rollout'.members[i] IN
           /\ new.node = m.node
           /\ new.state = IF m.state \in {"pending", "failed"} THEN "skipped" ELSE m.state
  BY <1>0, CancelledRow
<1>2. RowSound(rollout')
  BY <1>0, <1>1 DEF RowSound
<1>3. WaitingMembers(rollout') = {}
  BY <1>1 DEF WaitingMembers
<1>4. TasksFit'
  <2>1. /\ upgradeTasks \in Seq(UpgradeTask) /\ upgradeTasks' = upgradeTasks /\ TasksFit
    BY DEF RolloutHolds, CancelRollout
  <2>2. /\ Len(upgradeTasks) \in Nat /\ Cardinality(WaitingMembers(rollout)) \in Nat
        /\ Cardinality(WaitingMembers(rollout')) = 0
    BY <1>0, <1>3, <2>1, MemberSets, LenProperties, FS_EmptySet
  <2> QED BY <1>0, <1>1, <2>1, <2>2, RoomKept
<1>5. DriverSound' /\ driver' \in Drivers
  BY DriverAtRest, IdleDriverType DEF CancelRollout, SetRollout
<1> QED BY <1>1, <1>2, <1>4, <1>5 DEF RolloutHolds, CancelRollout

\* The places of the eligible nodes, in order: every one once.
LEMMA PlacesInOrder ==
  ASSUME NEW k \in Nat, NEW places \in [1..k -> Nat], InOrder(places)
  PROVE  \A i, j \in 1..k : places[i] = places[j] => i = j
<1> SUFFICES ASSUME NEW i \in 1..k, NEW j \in 1..k, places[i] = places[j] PROVE i = j
  OBVIOUS
<1>1. ~(i < j) /\ ~(j < i)
  BY DEF InOrder
<1> QED BY <1>1

LEMMA NewMemberFields ==
  \A n : NewMember(n).node = n /\ NewMember(n).task = NoUpgradeTask /\ NewMember(n).state = "pending"
BY DEF NewMember

LEMMA EligibleCount ==
  /\ Eligible \subseteq DOMAIN NodeOrder /\ DOMAIN NodeOrder = 1..Len(NodeOrder) /\ Len(NodeOrder) \in Nat
  /\ Cardinality(Eligible) \in 0..Len(NodeOrder)
<1>1. DOMAIN NodeOrder = 1..Len(NodeOrder) /\ Len(NodeOrder) \in Nat
  BY UpgradeAssumption, LenProperties
<1>2. IsFiniteSet(1..Len(NodeOrder)) /\ Cardinality(1..Len(NodeOrder)) = Len(NodeOrder)
  <2> DEFINE n == Len(NodeOrder)
  <2>1. 1 \in Int /\ n \in Int /\ n \in Nat
    BY <1>1
  <2> HIDE DEF n
  <2>2. IsFiniteSet(1..n) /\ Cardinality(1..n) = n
    BY <2>1, FS_Interval
  <2> QED BY <2>2 DEF n
<1>3. Eligible \subseteq 1..Len(NodeOrder)
  BY <1>1 DEF Eligible
<1>4. Cardinality(Eligible) <= Len(NodeOrder) /\ Cardinality(Eligible) \in Nat
  BY <1>2, <1>3, FS_Subset, FS_CardinalityType
<1> QED BY <1>1, <1>3, <1>4

\* The canary changes places with the first: nodes stay different.
LEMMA CanaryExchanged ==
  ASSUME NEW k \in Nat, NEW ms \in [1..k -> Member], NEW c \in 1..k
  PROVE  LET new == CanaryFirst(ms, c) IN
         /\ new \in Seq(Member) /\ DOMAIN new = 1..k
         /\ new[1] = ms[c]
         /\ \A i \in 1..k : new[i] = ms[IF i = 1 THEN c ELSE IF i = c THEN 1 ELSE i]
<1> DEFINE new == CanaryFirst(ms, c)
<1>1. 1 \in 1..k
  OBVIOUS
<1>2. new \in [1..k -> Member]
  BY <1>1 DEF CanaryFirst
<1>3. \A i \in 1..k : new[i] = ms[IF i = 1 THEN c ELSE IF i = c THEN 1 ELSE i]
  BY <1>1 DEF CanaryFirst
<1>4. new \in Seq(Member)
  BY <1>2, SeqDef
<1> QED BY <1>1, <1>2, <1>3, <1>4

\* The row that a request for all nodes makes.
LEMMA StartedRow ==
  ASSUME rollout \in Rollout, artifact \in Versions, StartAllUpgrades
  PROVE  /\ rollout' \in Rollout /\ rollout'.state = "running" /\ rollout'.target = artifact
         /\ DOMAIN rollout'.members = 1..Cardinality(Eligible)
         /\ Cardinality(Eligible) \in 1..Len(NodeOrder)
         /\ \A i \in DOMAIN rollout'.members :
              rollout'.members[i] = NewMember(rollout'.members[i].node)
         /\ \A i, j \in DOMAIN rollout'.members :
              rollout'.members[i].node = rollout'.members[j].node => i = j
<1> DEFINE k == Cardinality(Eligible)
<1>0. k \in Nat /\ k <= Len(NodeOrder) /\ Len(NodeOrder) \in Nat /\ Eligible \subseteq Nat
      /\ Eligible \subseteq DOMAIN NodeOrder
  BY EligibleCount
<1>1. PICK places \in [1..k -> Eligible], c \in 1..k :
        /\ InOrder(places)
        /\ rollout' = [number |-> rollout.number + 1, state |-> "running", target |-> artifact,
                       members |-> CanaryFirst([i \in DOMAIN places |-> NewMember(NodeOrder[places[i]])], c)]
  BY DEF StartAllUpgrades
<1> HIDE DEF k
<1> DEFINE ms == [i \in 1..k |-> NewMember(NodeOrder[places[i]])]
           new == CanaryFirst(ms, c)
<1>2. \A i \in 1..k : NewMember(NodeOrder[places[i]]) \in Member
  <2> TAKE i \in 1..k
  <2>1. NodeOrder[places[i]] \in EdgeNodes
    BY <1>0 DEF EdgeNodes
  <2>2. NoUpgradeTask \in TaskIDs
    BY UpgradeAssumption DEF TaskIDs, NoUpgradeTask
  <2> QED BY <2>1, <2>2 DEF NewMember, Member
<1>3. \A i, j \in 1..k : NewMember(NodeOrder[places[i]]).node = NewMember(NodeOrder[places[j]]).node => i = j
  <2>1. \A i, j \in 1..k : places[i] = places[j] => i = j
    <3>1. places \in [1..k -> Nat]
      BY <1>0
    <3> QED BY <1>0, <1>1, <3>1, PlacesInOrder
  <2>2. \A i, j \in 1..k : NodeOrder[places[i]] = NodeOrder[places[j]] => places[i] = places[j]
    BY <1>0, UpgradeAssumption
  <2> QED BY <2>1, <2>2 DEF NewMember
<1>4. ms \in [1..k -> Member]
  BY <1>2
<1>5. /\ \A i, j \in 1..k : ms[i].node = ms[j].node => i = j
      /\ \A i \in 1..k : ms[i] = NewMember(ms[i].node)
  <2>1. \A i \in 1..k : ms[i] = NewMember(NodeOrder[places[i]])
    OBVIOUS
  <2> HIDE DEF ms
  <2>2. \A i \in 1..k : ms[i] = NewMember(ms[i].node)
    <3> TAKE i \in 1..k
    <3>1. ms[i].node = NodeOrder[places[i]]
      BY <2>1, NewMemberFields
    <3> QED BY <2>1, <3>1
  <2> QED BY <1>3, <2>1, <2>2
<1>6. DOMAIN places = 1..k
  OBVIOUS
<1>7. rollout' = [number |-> rollout.number + 1, state |-> "running", target |-> artifact, members |-> new]
  BY <1>1, <1>6
<1> HIDE DEF ms
<1>8. /\ new \in Seq(Member) /\ DOMAIN new = 1..k
      /\ \A i \in 1..k : new[i] = ms[IF i = 1 THEN c ELSE IF i = c THEN 1 ELSE i]
  BY <1>0, <1>4, CanaryExchanged
<1> HIDE DEF new
<1>9. /\ \A i \in 1..k : new[i] = NewMember(new[i].node)
      /\ \A i, j \in 1..k : new[i].node = new[j].node => i = j
  <2> DEFINE at(i) == IF i = 1 THEN c ELSE IF i = c THEN 1 ELSE i
  <2>1. \A i \in 1..k : at(i) \in 1..k
    BY <1>0
  <2>2. \A i, j \in 1..k : at(i) = at(j) => i = j
    BY <1>0
  <2>3. \A i \in 1..k : new[i] = ms[at(i)]
    BY <1>8
  <2> HIDE DEF at
  <2>4. \A i \in 1..k : new[i] = NewMember(new[i].node)
    BY <1>5, <2>1, <2>3
  <2>5. \A i, j \in 1..k : new[i].node = new[j].node => i = j
    BY <1>5, <2>1, <2>2, <2>3
  <2> QED BY <2>4, <2>5
<1>10. rollout.number + 1 \in 0..MaxRollouts
  <2>1. rollout.number \in 0..MaxRollouts /\ rollout.number < MaxRollouts
    BY RolloutRow DEF StartAllUpgrades
  <2> QED BY <2>1, UpgradeAssumption
<1>11. rollout' \in Rollout
  BY <1>7, <1>8, <1>10 DEF Rollout
<1>12. k >= 1
  BY <1>0
<1>13. rollout'.members = new /\ rollout'.state = "running" /\ rollout'.target = artifact
  BY <1>7
<1>14. DOMAIN rollout'.members = 1..k /\ k \in 1..Len(NodeOrder)
  BY <1>0, <1>8, <1>12, <1>13
<1>15. /\ \A i \in DOMAIN rollout'.members : rollout'.members[i] = NewMember(rollout'.members[i].node)
       /\ \A i, j \in DOMAIN rollout'.members :
            rollout'.members[i].node = rollout'.members[j].node => i = j
  BY <1>8, <1>9, <1>13
<1> QED BY <1>11, <1>13, <1>14, <1>15 DEF k

LEMMA StartAllHolds ==
  ASSUME RolloutHolds, StartAllUpgrades
  PROVE  RolloutHolds'
<1>0. /\ rollout \in Rollout /\ artifact \in Versions /\ RowSound(rollout) /\ ~ActiveRollout
      /\ Room(Cardinality(Eligible)) /\ upgradeTasks \in Seq(UpgradeTask)
      /\ UNCHANGED <<upgradeTasks, artifact>> /\ driver' = [IdleDriver EXCEPT !.pc = "dispatch first"]
  BY DEF RolloutHolds, StartAllUpgrades
<1> DEFINE k == Cardinality(Eligible)
<1>1. /\ rollout' \in Rollout /\ rollout'.state = "running"
      /\ DOMAIN rollout'.members = 1..k /\ k \in 1..Len(NodeOrder)
      /\ \A i \in DOMAIN rollout'.members :
           rollout'.members[i] = NewMember(rollout'.members[i].node)
      /\ \A i, j \in DOMAIN rollout'.members :
           rollout'.members[i].node = rollout'.members[j].node => i = j
  BY <1>0, StartedRow
<1>2. Len(NodeOrder) \in Nat /\ DOMAIN NodeOrder = 1..Len(NodeOrder)
  BY EligibleCount
<1> HIDE DEF k
<1>3. k \in Nat /\ 1 \in DOMAIN rollout'.members /\ DOMAIN rollout'.members \subseteq DOMAIN NodeOrder
  BY <1>1, <1>2
<1>4. \A i \in DOMAIN rollout'.members :
        rollout'.members[i].state = "pending" /\ rollout'.members[i].task = NoUpgradeTask
  BY <1>1, NewMemberFields
<1>5. RowSound(rollout')
  <2>1. Begun(rollout'.members) = {}
    BY <1>4 DEF Begun
  <2>2. Cardinality(Begun(rollout'.members)) <= MaxParallel
    BY <2>1, FS_EmptySet, UpgradeAssumption
  <2> QED BY <1>1, <1>3, <1>4, <2>2 DEF RowSound
<1>6. TasksFit'
  <2>1. WaitingMembers(rollout) = {} /\ WaitingMembers(rollout') = 1..k
    BY <1>0, <1>1, <1>4 DEF WaitingMembers, ActiveRollout
  <2>2. Cardinality(WaitingMembers(rollout)) = 0 /\ Cardinality(WaitingMembers(rollout')) = k
    BY <1>3, <2>1, FS_EmptySet, FS_Interval
  <2>3. k + Len(upgradeTasks) + Cardinality(WaitingMembers(rollout)) <= MaxUpgradeTasks
    BY <1>0, <1>3, RoomNumbers DEF k
  <2>4. Len(upgradeTasks) \in Nat /\ Len(upgradeTasks') = Len(upgradeTasks)
    BY <1>0, LenProperties
  <2>5. 0 + Len(upgradeTasks') + Cardinality(WaitingMembers(rollout')) <= MaxUpgradeTasks
    BY <1>3, <2>2, <2>3, <2>4, UpgradeAssumption
  <2> QED BY <2>5 DEF TasksFit, Room, ActiveRollout, WaitingMembers
<1>7. driver' \in Drivers /\ driver'.pc = "dispatch first"
  BY <1>0, IdleDriverType
<1>8. DriverSound'
  BY <1>1, <1>3, <1>7 DEF DriverSound
<1> QED BY <1>0, <1>1, <1>5, <1>6, <1>7, <1>8 DEF RolloutHolds

-----------------------------------------------------------------------------
(* The round: a copy is taken, watched member by member, and saved.        *)

LEMMA OnwardSound ==
  ASSUME NEW work \in Rollout, DOMAIN work.members \subseteq DOMAIN NodeOrder, NEW i \in Nat
  PROVE  /\ Onward(work, i) \in Drivers
         /\ Onward(work, i).work = work /\ Onward(work, i).pc \in {"observe", "save"}
         /\ Onward(work, i).pc = "observe" => Onward(work, i).at \in InFlight(work.members)
<1> DEFINE later == {j \in InFlight(work.members) : j > i}
<1>1. /\ later \subseteq InFlight(work.members) /\ InFlight(work.members) \subseteq 1..Len(NodeOrder)
      /\ Len(NodeOrder) \in Nat
  BY EligibleCount DEF InFlight
<1>2. CASE later # {}
  <2>1. FirstOf(later) \in later
    BY <1>1, <1>2, FirstOfSet
  <2>2. Onward(work, i) = [pc |-> "observe", at |-> FirstOf(later), work |-> work]
    BY <1>2 DEF Onward
  <2>3. FirstOf(later) \in InFlight(work.members) /\ FirstOf(later) \in 0..Len(NodeOrder)
    BY <1>1, <2>1
  <2> HIDE DEF later
  <2> QED BY <2>2, <2>3 DEF Drivers
<1>3. CASE later = {}
  <2>1. Onward(work, i) = [pc |-> "save", at |-> 0, work |-> work]
    BY <1>3 DEF Onward
  <2> QED BY <1>1, <2>1 DEF Drivers
<1> QED BY <1>2, <1>3

\* The row after the member i was looked at.
Concluded(work, i, state, healthy) ==
  [work EXCEPT !.members[i].state = state, !.members[i].healthy = healthy,
               !.state = IF state = "failed" THEN "paused" ELSE @]

\* ... differs in that member, and is paused when it failed.
ConcludedIs(new, work, i, state, healthy) ==
  /\ new \in Rollout /\ new.number = work.number /\ new.target = work.target
  /\ DOMAIN new.members = DOMAIN work.members
  /\ new.members[i] = [work.members[i] EXCEPT !.state = state, !.healthy = healthy]
  /\ \A j \in DOMAIN work.members : j # i => new.members[j] = work.members[j]
  /\ new.state = IF state = "failed" THEN "paused" ELSE work.state

LEMMA ConcludedRow ==
  ASSUME NEW work \in Rollout, NEW i \in DOMAIN work.members, NEW state \in MemberStates,
         NEW healthy \in BOOLEAN
  PROVE  ConcludedIs(Concluded(work, i, state, healthy), work, i, state, healthy)
<1> DEFINE m == [work.members[i] EXCEPT !.state = state, !.healthy = healthy]
           row == WithMember(work, i, m)
           next == IF state = "failed" THEN "paused" ELSE work.state
<1>1. m \in Member
  BY RolloutRow, MemberUpdates
<1>2. Concluded(work, i, state, healthy) = [row EXCEPT !.state = next]
  BY DEF Concluded, WithMember, Rollout
<1> HIDE DEF m
<1>3. /\ row \in Rollout /\ row.number = work.number /\ row.target = work.target
      /\ row.state = work.state /\ DOMAIN row.members = DOMAIN work.members
      /\ row.members[i] = m /\ \A j \in DOMAIN work.members : j # i => row.members[j] = work.members[j]
  BY <1>1, MembersUpdate
<1> HIDE DEF row
<1>4. next \in {"none", "running", "paused", "cancelled", "succeeded"}
  BY RolloutRow
<1> HIDE DEF next
<1>5. LET r == [row EXCEPT !.state = next] IN
      r \in Rollout /\ r.state = next /\ r.number = row.number /\ r.target = row.target
      /\ r.members = row.members
  BY <1>3, <1>4 DEF Rollout
<1> QED BY <1>2, <1>3, <1>5 DEF m, next, ConcludedIs

LEMMA BeginHolds ==
  ASSUME RolloutHolds, BeginReconcileRollout
  PROVE  RolloutHolds'
<1>1. /\ rollout \in Rollout /\ RowSound(rollout) /\ ActiveRollout
      /\ driver' = Onward(rollout, 0) /\ UNCHANGED <<artifact, upgradeTasks, rollout>>
  BY DEF RolloutHolds, BeginReconcileRollout
<1>2. /\ driver' \in Drivers /\ driver'.work = rollout /\ driver'.pc \in {"observe", "save"}
      /\ driver'.pc = "observe" => driver'.at \in InFlight(driver'.work.members)
  BY <1>1, OnwardSound DEF RowSound
<1>3. Observed(rollout, rollout)
  BY DEF Observed, InFlight
<1>4. DriverSound'
  BY <1>1, <1>2, <1>3 DEF DriverSound, ActiveRollout
<1> QED BY <1>1, <1>2, <1>4 DEF RolloutHolds, TasksFit, Room, ActiveRollout

\* A member that is looked at is in flight, in the row and in the copy.
LEMMA ObservingMember ==
  ASSUME RolloutHolds, driver.pc = "observe"
  PROVE  /\ driver.work \in Rollout /\ rollout \in Rollout /\ Observed(rollout, driver.work)
         /\ driver.at \in InFlight(driver.work.members) /\ driver.at \in InFlight(rollout.members)
         /\ driver.at \in DOMAIN driver.work.members /\ DOMAIN driver.work.members = DOMAIN rollout.members
         /\ driver.work.members[driver.at] \in Member
         /\ ActiveRollout
<1>1. /\ driver.work \in Rollout /\ rollout \in Rollout /\ Observed(rollout, driver.work)
      /\ driver.at \in InFlight(driver.work.members) /\ ActiveRollout
  BY DriverFields DEF RolloutHolds, DriverSound
<1>2. /\ driver.at \in DOMAIN driver.work.members /\ DOMAIN driver.work.members = DOMAIN rollout.members
      /\ driver.at \in InFlight(rollout.members)
  BY <1>1 DEF Observed, InFlight
<1> QED BY <1>1, <1>2, RolloutRow

LEMMA ConcludeHolds ==
  ASSUME RolloutHolds, NEW i, Observing(i), NEW healthy \in BOOLEAN,
         NEW state \in {"upgrading", "verifying", "succeeded", "failed"},
         Conclude(i, state, healthy)
  PROVE  RolloutHolds'
<1> DEFINE new == Concluded(driver.work, i, state, healthy)
<1>1. driver.pc = "observe" /\ driver.at = i
  BY DEF Observing
<1>2. /\ driver.work \in Rollout /\ rollout \in Rollout /\ Observed(rollout, driver.work)
      /\ i \in InFlight(driver.work.members) /\ i \in InFlight(rollout.members)
      /\ i \in DOMAIN driver.work.members /\ DOMAIN driver.work.members = DOMAIN rollout.members
      /\ ActiveRollout
  BY <1>1, ObservingMember
<1>3. /\ driver' = Onward(new, i) /\ UNCHANGED <<artifact, upgradeTasks, rollout>>
  BY DEF Conclude, Concluded
<1>4. /\ new \in Rollout /\ new.number = driver.work.number /\ new.target = driver.work.target
      /\ DOMAIN new.members = DOMAIN driver.work.members
      /\ new.members[i] = [driver.work.members[i] EXCEPT !.state = state, !.healthy = healthy]
      /\ \A j \in DOMAIN driver.work.members : j # i => new.members[j] = driver.work.members[j]
      /\ new.state = IF state = "failed" THEN "paused" ELSE driver.work.state
  <2>1. state \in MemberStates
    BY DEF MemberStates
  <2>2. ConcludedIs(new, driver.work, i, state, healthy)
    BY <1>2, <2>1, ConcludedRow
  <2> HIDE DEF new
  <2> QED BY <2>2 DEF ConcludedIs
<1> HIDE DEF new
<1>5. driver.work.members[i] \in Member
  BY <1>2, RolloutRow
<1>6. /\ new.members[i].node = driver.work.members[i].node
      /\ new.members[i].task = driver.work.members[i].task /\ new.members[i].state = state
  BY <1>4, <1>5 DEF Member
<1>7. Observed(rollout, new)
  <2>1. \A j \in DOMAIN rollout.members :
          /\ new.members[j].node = rollout.members[j].node
          /\ new.members[j].task = rollout.members[j].task
          /\ IF j \in InFlight(rollout.members)
             THEN new.members[j].state \in {"upgrading", "verifying", "succeeded", "failed"}
             ELSE new.members[j].state = rollout.members[j].state
    <3> TAKE j \in DOMAIN rollout.members
    <3>1. CASE j = i
      BY <1>2, <1>6, <3>1 DEF Observed
    <3>2. CASE j # i
      BY <1>2, <1>4, <3>2 DEF Observed
    <3> QED BY <3>1, <3>2
  <2>2. new.state = IF \E j \in InFlight(rollout.members) : new.members[j].state = "failed"
                    THEN "paused" ELSE rollout.state
    <3>1. CASE state = "failed"
      BY <1>2, <1>4, <1>6, <3>1
    <3>2. CASE state # "failed"
      <4>1. driver.work.members[i].state # "failed"
        BY <1>2 DEF InFlight
      <4>2. \A j \in InFlight(rollout.members) :
              new.members[j].state = "failed" <=> driver.work.members[j].state = "failed"
        BY <1>2, <1>4, <1>6, <3>2, <4>1 DEF InFlight
      <4> QED BY <1>2, <1>4, <3>2, <4>2 DEF Observed
    <3> QED BY <3>1, <3>2
  <2>3. new.number = rollout.number /\ new.target = rollout.target /\ DOMAIN new.members = DOMAIN rollout.members
    BY <1>2, <1>4 DEF Observed
  <2> QED BY <2>1, <2>2, <2>3 DEF Observed
<1>8. i \in Nat /\ DOMAIN new.members \subseteq DOMAIN NodeOrder
  BY <1>2, <1>4, MemberSets DEF RolloutHolds, RowSound
<1>9. /\ driver' \in Drivers /\ driver'.work = new /\ driver'.pc \in {"observe", "save"}
      /\ driver'.pc = "observe" => driver'.at \in InFlight(driver'.work.members)
  BY <1>3, <1>4, <1>8, OnwardSound
<1>10. DriverSound'
  BY <1>2, <1>3, <1>7, <1>9 DEF DriverSound, ActiveRollout
<1> QED BY <1>3, <1>9, <1>10 DEF RolloutHolds, TasksFit, Room, ActiveRollout

\* The copy makes a sound row.
LEMMA ObservedRow ==
  ASSUME NEW row \in Rollout, NEW work \in Rollout, RowSound(row), Observed(row, work),
         row.state \in {"running", "paused"}
  PROVE  /\ RowSound(work) /\ work.state \in {"running", "paused"}
         /\ Begun(work.members) \subseteq Begun(row.members)
         /\ WaitingMembers(work) = WaitingMembers(row)
<1>1. /\ DOMAIN work.members = DOMAIN row.members
      /\ \A i \in DOMAIN row.members :
           /\ work.members[i].node = row.members[i].node /\ work.members[i].task = row.members[i].task
           /\ row.members[i].state \in {"upgrading", "verifying"} =>
                work.members[i].state \in {"upgrading", "verifying", "succeeded", "failed"}
           /\ row.members[i].state \notin {"upgrading", "verifying"} =>
                work.members[i].state = row.members[i].state
  BY DEF Observed, InFlight
<1>2. work.state \in {"running", "paused"}
  BY DEF Observed
<1>3. Begun(work.members) \subseteq Begun(row.members)
  BY <1>1 DEF Begun
<1>4. WaitingMembers(work) = WaitingMembers(row)
  BY <1>1, <1>2 DEF WaitingMembers
<1>5. Cardinality(Begun(work.members)) <= MaxParallel
  <2>1. Begun(row.members) \in SUBSET (DOMAIN row.members)
    BY MemberSets
  <2>2. Cardinality(Begun(work.members)) <= Cardinality(Begun(row.members))
    BY <1>3, <2>1, SmallerSet
  <2>3. Cardinality(Begun(row.members)) <= MaxParallel
    BY DEF RowSound
  <2>4. Begun(work.members) \in SUBSET (DOMAIN work.members)
    BY MemberSets
  <2>5. Cardinality(Begun(work.members)) \in Nat /\ Cardinality(Begun(row.members)) \in Nat
    BY <2>1, <2>4, MemberSets
  <2> QED BY <2>2, <2>3, <2>5, UpgradeAssumption
<1>6. work.state = "running" => \A i \in DOMAIN work.members : work.members[i].state # "failed"
  <2> SUFFICES ASSUME work.state = "running", NEW i \in DOMAIN work.members,
                      work.members[i].state = "failed"
               PROVE  FALSE
    OBVIOUS
  <2>1. i \notin InFlight(row.members)
    BY DEF Observed
  <2>2. row.state = "running"
    BY DEF Observed
  <2>3. row.members[i].state = "failed"
    BY <1>1, <2>1 DEF InFlight
  <2> QED BY <1>1, <2>2, <2>3 DEF RowSound
<1>7. RowSound(work)
  BY <1>1, <1>2, <1>5, <1>6 DEF RowSound
<1> QED BY <1>2, <1>3, <1>4, <1>7

LEMMA SaveHolds ==
  ASSUME RolloutHolds, SaveObserved
  PROVE  RolloutHolds'
<1>1. /\ rollout \in Rollout /\ driver.work \in Rollout /\ RowSound(rollout)
      /\ Observed(rollout, driver.work) /\ rollout.state \in {"running", "paused"}
      /\ upgradeTasks \in Seq(UpgradeTask) /\ TasksFit /\ artifact \in Versions
      /\ rollout' = driver.work /\ UNCHANGED <<artifact, upgradeTasks>>
  BY DriverFields DEF RolloutHolds, DriverSound, SaveObserved, ActiveRollout
<1>2. /\ RowSound(rollout') /\ rollout'.state \in {"running", "paused"}
      /\ WaitingMembers(rollout') = WaitingMembers(rollout)
  BY <1>1, ObservedRow
<1>3. TasksFit'
  <2>1. Len(upgradeTasks) \in Nat /\ Cardinality(WaitingMembers(rollout)) \in Nat
    BY <1>1, MemberSets, LenProperties
  <2> QED BY <1>1, <1>2, <2>1, RoomKept
<1>4. driver' \in {IdleDriver, [IdleDriver EXCEPT !.pc = "dispatch"]}
      /\ (driver'.pc = "dispatch" => rollout'.state = "running")
  BY <1>1, <1>2, IdleDriverType DEF SaveObserved
<1>5. DriverSound' /\ driver' \in Drivers
  BY <1>4, DriverAtRest
<1> QED BY <1>1, <1>2, <1>3, <1>5 DEF RolloutHolds

-----------------------------------------------------------------------------
(* A member is dispatched.                                                 *)

\* What both kinds of dispatching do to the row: the member is in flight.
LEMMA DispatchedRow ==
  ASSUME rollout \in Rollout, upgradeTasks \in Seq(UpgradeTask), NEW i, Dispatch(i), TasksFit
  PROVE  /\ i \in DOMAIN rollout.members /\ rollout.members[i].state = "pending"
         /\ rollout.state = "running"
         /\ rollout' \in Rollout /\ rollout'.number = rollout.number
         /\ rollout'.target = rollout.target /\ rollout'.state = rollout.state
         /\ DOMAIN rollout'.members = DOMAIN rollout.members
         /\ rollout'.members[i].node = rollout.members[i].node
         /\ \A j \in DOMAIN rollout.members : j # i => rollout'.members[j] = rollout.members[j]
         /\ \/ /\ AlreadyInstalled(rollout.members[i])
               /\ rollout'.members[i].state = "verifying"
               /\ rollout'.members[i].task = rollout.members[i].task
               /\ upgradeTasks' = upgradeTasks
            \/ /\ ~AlreadyInstalled(rollout.members[i])
               /\ ~HasOpenTask(rollout.members[i].node)
               /\ heard[rollout.members[i].node].active = NoUpgradeTask
               /\ rollout'.members[i].state = "upgrading"
               /\ rollout'.members[i].task = Len(upgradeTasks) + 1
               /\ upgradeTasks' = Append(upgradeTasks, QueuedTask(rollout.members[i].node, rollout.target))
               /\ upgradeTasks' \in Seq(UpgradeTask) /\ Len(upgradeTasks') = Len(upgradeTasks) + 1
<1> DEFINE m == rollout.members[i]
<1>1. i \in DOMAIN rollout.members /\ m.state = "pending" /\ rollout.state = "running"
  BY DEF Dispatch, Pending
<1>2. m \in Member /\ m.node \in EdgeNodes /\ rollout.target \in Versions
  BY <1>1, RolloutRow
<1>3. Len(upgradeTasks) \in Nat
  BY LenProperties
<1>4. CASE AlreadyInstalled(m) /\ rollout' = [rollout EXCEPT !.members[i].state = "verifying"]
           /\ UNCHANGED upgradeTasks
  <2> DEFINE new == [m EXCEPT !.state = "verifying"]
  <2>1. new \in Member /\ new.node = m.node /\ new.task = m.task /\ new.state = "verifying"
    BY <1>2 DEF Member
  <2>2. rollout' = WithMember(rollout, i, new)
    BY <1>4 DEF WithMember
  <2> HIDE DEF new
  <2>3. /\ rollout' \in Rollout /\ rollout'.number = rollout.number
        /\ rollout'.target = rollout.target /\ rollout'.state = rollout.state
        /\ DOMAIN rollout'.members = DOMAIN rollout.members /\ rollout'.members[i] = new
        /\ \A j \in DOMAIN rollout.members : j # i => rollout'.members[j] = rollout.members[j]
    BY <1>1, <2>1, <2>2, MembersUpdate
  <2> QED BY <1>1, <1>4, <2>1, <2>3
<1>5. CASE /\ ~AlreadyInstalled(m)
           /\ ~HasOpenTask(m.node) /\ heard[m.node].active = NoUpgradeTask
           /\ upgradeTasks' = Append(upgradeTasks, QueuedTask(m.node, rollout.target))
           /\ rollout' = [rollout EXCEPT !.members[i].state = "upgrading",
                                         !.members[i].task = Len(upgradeTasks')]
  <2>1. QueuedTask(m.node, rollout.target) \in UpgradeTask
    BY <1>2 DEF QueuedTask, UpgradeTask, Open
  <2>2. upgradeTasks' \in Seq(UpgradeTask) /\ Len(upgradeTasks') = Len(upgradeTasks) + 1
    BY <1>5, <2>1, AppendProperties
  <2> DEFINE t == Len(upgradeTasks')
             new == [m EXCEPT !.state = "upgrading", !.task = t]
  <2>3. t \in TaskIDs
    <3>1. i \in WaitingMembers(rollout)
      BY <1>1 DEF WaitingMembers
    <3>2. WaitingMembers(rollout) # {} /\ IsFiniteSet(WaitingMembers(rollout))
      BY <3>1, MemberSets
    <3>3. Cardinality(WaitingMembers(rollout)) # 0 /\ Cardinality(WaitingMembers(rollout)) \in Nat
      BY <3>2, FS_EmptySet, FS_CardinalityType
    <3>4. 0 + Len(upgradeTasks) + Cardinality(WaitingMembers(rollout)) <= MaxUpgradeTasks
      BY RoomNumbers DEF TasksFit
    <3> QED BY <1>3, <2>2, <3>3, <3>4, UpgradeAssumption DEF TaskIDs
  <2> HIDE DEF t
  <2>4. new \in Member /\ new.node = m.node /\ new.task = t /\ new.state = "upgrading"
    BY <1>2, <2>3 DEF Member
  <2>5. rollout' = WithMember(rollout, i, new)
    BY <1>5 DEF WithMember, t
  <2> HIDE DEF new
  <2>6. /\ rollout' \in Rollout /\ rollout'.number = rollout.number
        /\ rollout'.target = rollout.target /\ rollout'.state = rollout.state
        /\ DOMAIN rollout'.members = DOMAIN rollout.members /\ rollout'.members[i] = new
        /\ \A j \in DOMAIN rollout.members : j # i => rollout'.members[j] = rollout.members[j]
    BY <1>1, <2>4, <2>5, MembersUpdate
  <2> QED BY <1>1, <1>5, <2>2, <2>4, <2>6 DEF t
<1> QED BY <1>4, <1>5 DEF Dispatch

\* The room that the loop leaves, and the order it keeps to.
FirstPending(i) ==
  /\ \A j \in Pending(rollout.members) : i <= j
  /\ Cardinality(InFlight(rollout.members)) < MaxParallel

\* When the first member that is pending has never been begun, the members that
\* were begun and are not done are those in flight.
LEMMA BegunInFlight ==
  ASSUME rollout \in Rollout, RowSound(rollout), rollout.state = "running",
         NEW i \in Pending(rollout.members), rollout.members[i].task = NoUpgradeTask, FirstPending(i)
  PROVE  Begun(rollout.members) \subseteq InFlight(rollout.members)
<1> SUFFICES ASSUME NEW j \in Begun(rollout.members) PROVE j \in InFlight(rollout.members)
  OBVIOUS
<1>1. /\ i \in DOMAIN rollout.members /\ j \in DOMAIN rollout.members
      /\ i \in Nat /\ j \in Nat
  BY MemberSets DEF Begun, Pending
<1>2. rollout.members[j].state # "failed"
  BY <1>1 DEF RowSound
<1>3. CASE rollout.members[j].state = "pending" /\ rollout.members[j].task # NoUpgradeTask
  <2>1. i <= j /\ i # j
    BY <1>1, <1>3 DEF FirstPending, Pending
  <2>2. rollout.members[i].task # NoUpgradeTask
    BY <1>1, <1>3, <2>1 DEF RowSound
  <2> QED BY <2>2
<1> QED BY <1>1, <1>2, <1>3 DEF Begun, InFlight

LEMMA DispatchedSound ==
  ASSUME RolloutHolds, NEW i, Dispatch(i), FirstPending(i)
  PROVE  RowSound(rollout') /\ rollout' \in Rollout /\ rollout'.state = "running"
<1> DEFINE ms == rollout.members  new == rollout'.members
<1>0. rollout \in Rollout /\ RowSound(rollout) /\ upgradeTasks \in Seq(UpgradeTask) /\ TasksFit
  BY DEF RolloutHolds
<1>1. /\ i \in DOMAIN ms /\ ms[i].state = "pending" /\ rollout.state = "running"
      /\ rollout' \in Rollout /\ rollout'.state = rollout.state
      /\ DOMAIN new = DOMAIN ms /\ new[i].node = ms[i].node
      /\ \A j \in DOMAIN ms : j # i => new[j] = ms[j]
      /\ new[i].state \in {"verifying", "upgrading"}
      /\ \/ new[i].task = ms[i].task /\ ms[i].task # NoUpgradeTask
         \/ new[i].task = Len(upgradeTasks) + 1
  BY <1>0, DispatchedRow DEF AlreadyInstalled
<1>2. new[i].task # NoUpgradeTask
  BY <1>0, <1>1, LenProperties DEF NoUpgradeTask
<1>3. DOMAIN ms \subseteq Nat /\ \A j \in DOMAIN ms : ms[j].state = "pending" => i <= j
  BY <1>0, MemberSets DEF FirstPending, Pending
<1> HIDE DEF ms, new
<1>4. \A j, k \in DOMAIN new : new[j].node = new[k].node => j = k
  <2>1. \A j, k \in DOMAIN ms : ms[j].node = ms[k].node => j = k
    BY <1>0 DEF RowSound, ms
  <2>2. \A j \in DOMAIN ms : new[j].node = ms[j].node
    BY <1>1
  <2> QED BY <1>1, <2>1, <2>2
<1>5. \A j \in DOMAIN ms : ms[j].task = NoUpgradeTask => ms[j].state = "pending"
  BY <1>0, <1>1 DEF RowSound, ms
<1>6. \A j, k \in DOMAIN ms : j < k /\ ms[k].task # NoUpgradeTask => ms[j].task # NoUpgradeTask
  BY <1>0, <1>1 DEF RowSound, ms
<1>7. \A j \in DOMAIN new : new[j].task = NoUpgradeTask => new[j].state = "pending"
  BY <1>1, <1>2, <1>5
<1>8. \A j, k \in DOMAIN new : j < k /\ new[k].task # NoUpgradeTask => new[j].task # NoUpgradeTask
  <2> SUFFICES ASSUME NEW j \in DOMAIN ms, NEW k \in DOMAIN ms, j < k, new[k].task # NoUpgradeTask
               PROVE  new[j].task # NoUpgradeTask
    BY <1>1
  <2>1. CASE j = i
    BY <1>2, <2>1
  <2>2. CASE j # i /\ k = i
    BY <1>1, <1>3, <1>5, <2>2
  <2>3. CASE j # i /\ k # i
    BY <1>1, <1>6, <2>3
  <2> QED BY <2>1, <2>2, <2>3
<1>9. Cardinality(Begun(new)) <= MaxParallel
  <2>1. /\ Begun(new) \in SUBSET (DOMAIN rollout'.members)
        /\ Begun(ms) \in SUBSET (DOMAIN rollout.members)
        /\ InFlight(ms) \in SUBSET (DOMAIN rollout.members)
    BY <1>0, <1>1, MemberSets DEF ms, new
  <2>2. /\ IsFiniteSet(Begun(new)) /\ Cardinality(Begun(new)) \in Nat
        /\ IsFiniteSet(Begun(ms)) /\ Cardinality(Begun(ms)) \in Nat
        /\ IsFiniteSet(InFlight(ms)) /\ Cardinality(InFlight(ms)) \in Nat
    BY <1>0, <1>1, <2>1, MemberSets
  <2>3. \A j \in Begun(new) : j = i \/ j \in Begun(ms)
    BY <1>1 DEF Begun
  <2>4. CASE ms[i].task # NoUpgradeTask
    <3>1. Begun(new) \subseteq Begun(ms)
      BY <1>1, <2>3, <2>4 DEF Begun
    <3>2. Cardinality(Begun(new)) <= Cardinality(Begun(ms))
      BY <2>2, <3>1, FS_Subset
    <3>3. Cardinality(Begun(ms)) <= MaxParallel
      BY <1>0, <1>1 DEF RowSound, ms
    <3> QED BY <2>2, <3>2, <3>3, UpgradeAssumption
  <2>5. CASE ms[i].task = NoUpgradeTask
    <3>1. Begun(ms) \subseteq InFlight(ms)
      BY <1>0, <1>1, <2>5, BegunInFlight DEF ms, Pending
    <3>2. Begun(new) \subseteq InFlight(ms) \union {i}
      BY <2>3, <3>1
    <3>3. IsFiniteSet(InFlight(ms) \union {i}) /\ Cardinality(InFlight(ms) \union {i}) <= Cardinality(InFlight(ms)) + 1
      BY <2>2, FS_AddElement
    <3>4. Cardinality(Begun(new)) <= Cardinality(InFlight(ms) \union {i})
      BY <3>2, <3>3, FS_Subset
    <3>5. Cardinality(InFlight(ms)) < MaxParallel
      BY DEF FirstPending, ms
    <3>6. Cardinality(InFlight(ms) \union {i}) \in Nat
      BY <3>3, FS_CardinalityType
    <3> QED BY <2>2, <3>3, <3>4, <3>5, <3>6, UpgradeAssumption
  <2> QED BY <2>4, <2>5
<1>10. DOMAIN new \subseteq DOMAIN NodeOrder
  BY <1>0, <1>1 DEF RowSound, ms
<1>11. \A j \in DOMAIN new : new[j].state # "failed"
  <2>1. \A j \in DOMAIN ms : ms[j].state # "failed"
    BY <1>0, <1>1 DEF RowSound, ms
  <2> QED BY <1>1, <2>1
<1>12. \A j \in DOMAIN new : new[j].state # "skipped"
  <2>1. \A j \in DOMAIN ms : ms[j].state # "skipped"
    BY <1>0, <1>1 DEF RowSound, ms
  <2> QED BY <1>1, <2>1
<1> QED BY <1>1, <1>4, <1>7, <1>8, <1>9, <1>10, <1>11, <1>12 DEF RowSound, new

LEMMA DispatchHolds ==
  ASSUME RolloutHolds, NEW i, Dispatch(i), FirstPending(i), artifact' = artifact,
         driver' = IdleDriver \/ (driver.pc = "dispatch" /\ driver' = driver)
  PROVE  RolloutHolds'
<1>0. /\ rollout \in Rollout /\ upgradeTasks \in Seq(UpgradeTask) /\ TasksFit
      /\ driver \in Drivers /\ artifact \in Versions
  BY DEF RolloutHolds
<1>1. RowSound(rollout') /\ rollout' \in Rollout /\ rollout'.state = "running"
  BY DispatchedSound
<1>2. /\ i \in DOMAIN rollout.members /\ rollout.members[i].state = "pending" /\ rollout.state = "running"
      /\ DOMAIN rollout'.members = DOMAIN rollout.members
      /\ \A j \in DOMAIN rollout.members : j # i => rollout'.members[j] = rollout.members[j]
      /\ rollout'.members[i].state \in {"verifying", "upgrading"}
      /\ \/ upgradeTasks' = upgradeTasks
         \/ upgradeTasks' \in Seq(UpgradeTask) /\ Len(upgradeTasks') = Len(upgradeTasks) + 1
  BY <1>0, DispatchedRow
<1>3. upgradeTasks' \in Seq(UpgradeTask)
  BY <1>0, <1>2
<1>4. TasksFit'
  <2>1. WaitingMembers(rollout') = WaitingMembers(rollout) \ {i} /\ i \in WaitingMembers(rollout)
    BY <1>1, <1>2 DEF WaitingMembers
  <2>2. /\ IsFiniteSet(WaitingMembers(rollout)) /\ Cardinality(WaitingMembers(rollout)) \in Nat
        /\ Cardinality(WaitingMembers(rollout')) \in Nat
    BY <1>0, <1>1, MemberSets
  <2>3. Cardinality(WaitingMembers(rollout')) = Cardinality(WaitingMembers(rollout)) - 1
    BY <2>1, <2>2, FS_RemoveElement
  <2>4. Len(upgradeTasks) \in Nat /\ Len(upgradeTasks') <= Len(upgradeTasks) + 1 /\ Len(upgradeTasks') \in Nat
    BY <1>0, <1>2, <1>3, LenProperties
  <2> QED BY <1>0, <1>1, <1>3, <2>2, <2>3, <2>4, RoomKept
<1>5. DriverSound' /\ driver' \in Drivers
  <2>1. CASE driver' = IdleDriver
    BY <2>1, DriverAtRest, IdleDriverType
  <2>2. CASE driver.pc = "dispatch" /\ driver' = driver
    BY <1>0, <1>1, <2>2 DEF DriverSound
  <2> QED BY <2>1, <2>2
<1> QED BY <1>0, <1>1, <1>3, <1>4, <1>5 DEF RolloutHolds

LEMMA DispatchFirstHolds ==
  ASSUME RolloutHolds, DispatchFirst
  PROVE  RolloutHolds'
<1>1. /\ rollout \in Rollout /\ rollout.state = "running" /\ 1 \in DOMAIN rollout.members
      /\ \A i \in DOMAIN rollout.members : rollout.members[i] = NewMember(rollout.members[i].node)
      /\ driver' = IdleDriver /\ artifact' = artifact
  BY DEF RolloutHolds, DriverSound, DispatchFirst
<1>2. CASE Dispatch(1)
  <2>1. \A i \in DOMAIN rollout.members : rollout.members[i].state = "pending"
    BY <1>1, NewMemberFields
  <2>2. InFlight(rollout.members) = {}
    BY <2>1 DEF InFlight
  <2>3. Cardinality(InFlight(rollout.members)) < MaxParallel
    BY <2>2, FS_EmptySet, UpgradeAssumption
  <2>4. \A j \in Pending(rollout.members) : 1 <= j
    BY <1>1, RolloutRow DEF Pending
  <2>5. FirstPending(1)
    BY <2>3, <2>4 DEF FirstPending
  <2>6. driver' = IdleDriver /\ artifact' = artifact
    BY <1>1
  <2> QED BY <1>2, <2>5, <2>6, DispatchHolds, ZenonT(30)
<1>3. CASE rollout' = [rollout EXCEPT !.state = "paused"] /\ UNCHANGED upgradeTasks
  <2>1. SetRollout([rollout EXCEPT !.state = "paused"]) /\ UNCHANGED <<artifact, upgradeTasks>>
    BY <1>1, <1>3 DEF SetRollout
  <2> QED BY <1>1, <2>1, PauseHolds
<1> QED BY <1>2, <1>3 DEF DispatchFirst

LEMMA DispatchNextHolds ==
  ASSUME RolloutHolds, DispatchNext
  PROVE  RolloutHolds'
<1>1. rollout.state = "running" /\ driver.pc = "dispatch" /\ artifact' = artifact
  BY DEF RolloutHolds, DriverSound, DispatchNext
<1>2. PICK i \in NextToDispatch :
        \/ Dispatch(i) /\ UNCHANGED driver
        \/ SetRollout([rollout EXCEPT !.state = "paused"]) /\ UNCHANGED upgradeTasks
  BY DEF DispatchNext
<1>3. FirstPending(i)
  BY DEF FirstPending, NextToDispatch
<1>4. CASE Dispatch(i) /\ UNCHANGED driver
  BY <1>1, <1>3, <1>4, DispatchHolds
<1>5. CASE SetRollout([rollout EXCEPT !.state = "paused"]) /\ UNCHANGED upgradeTasks
  BY <1>1, <1>5, PauseHolds
<1> QED BY <1>2, <1>4, <1>5

-----------------------------------------------------------------------------
(* Steps that have no part in the rollout.                                 *)

LEMMA ApartHolds ==
  ASSUME RolloutHolds, UNCHANGED <<rollout, driver>>, artifact' \in Versions,
         upgradeTasks' \in Seq(UpgradeTask), Len(upgradeTasks') = Len(upgradeTasks)
  PROVE  RolloutHolds'
<1>1. TasksFit' /\ RowSound(rollout')
  BY DEF RolloutHolds, TasksFit, Room, ActiveRollout
<1>2. DriverSound' /\ driver' \in Drivers
  BY DEF RolloutHolds, DriverSound, ActiveRollout
<1> QED BY <1>1, <1>2 DEF RolloutHolds

\* One task gets another status; a task that does not exist gets none.
LEMMA TaskUpdate ==
  ASSUME NEW tasks \in Seq(UpgradeTask), NEW t, NEW task,
         t \in DOMAIN tasks => task \in UpgradeTask
  PROVE  /\ [tasks EXCEPT ![t] = task] \in Seq(UpgradeTask)
         /\ Len([tasks EXCEPT ![t] = task]) = Len(tasks)
         /\ DOMAIN [tasks EXCEPT ![t] = task] = DOMAIN tasks
         /\ t \in DOMAIN tasks => [tasks EXCEPT ![t] = task][t] = task
         /\ \A u \in DOMAIN tasks : u # t => [tasks EXCEPT ![t] = task][u] = tasks[u]
<1>1. DOMAIN tasks = 1..Len(tasks) /\ Len(tasks) \in Nat
  BY LenProperties
<1>2. CASE t \in DOMAIN tasks
  BY <1>1, <1>2, ExceptSeq, LenProperties
<1>3. CASE t \notin DOMAIN tasks
  <2>1. [tasks EXCEPT ![t] = task] = tasks
    BY <1>1, <1>3, LenProperties
  <2> QED BY <1>3, <2>1
<1> QED BY <1>2, <1>3

LEMMA TaskStatus ==
  ASSUME NEW task \in UpgradeTask
  PROVE  /\ task.node \in EdgeNodes /\ task.target \in Versions
         /\ \A status \in Open \union Failed \union {"succeeded"} :
              LET new == [task EXCEPT !.status = status] IN
              /\ new \in UpgradeTask /\ new.status = status
              /\ new.node = task.node /\ new.target = task.target
BY DEF UpgradeTask

\* What a report makes of a task.
ResultOf(new, task, result, version) ==
  /\ new \in UpgradeTask /\ new.node = task.node /\ new.target = task.target
  /\ \/ new.status = "succeeded" /\ task.status = "succeeded"
     \/ new.status = "succeeded" /\ result = "succeeded"
     \/ new.status = "succeeded" /\ result = "interrupted" /\ version = task.target
     \/ new.status \in Failed /\ result # "succeeded" /\ task.status # "succeeded"

LEMMA TaskResult ==
  ASSUME NEW task \in UpgradeTask, NEW version,
         NEW result \in {"succeeded", "failed", "interrupted"}
  PROVE  ResultOf(ResultRecorded(task, result, version), task, result, version)
<1> DEFINE final == IF version = task.target THEN "succeeded" ELSE "interrupted"
<1>1. CASE result = "succeeded"
  BY <1>1, TaskStatus DEF ResultRecorded, ResultOf
<1>2. CASE result = "interrupted" /\ task.status # "succeeded"
  <2>1. ResultRecorded(task, result, version) = [task EXCEPT !.status = final]
    BY <1>2 DEF ResultRecorded
  <2>2. final \in Open \union Failed \union {"succeeded"}
    BY DEF Failed
  <2>3. (final = "succeeded" /\ version = task.target) \/ final \in Failed
    BY DEF Failed
  <2> HIDE DEF final
  <2>4. LET new == [task EXCEPT !.status = final] IN
        /\ new \in UpgradeTask /\ new.status = final
        /\ new.node = task.node /\ new.target = task.target
    BY <2>2, TaskStatus
  <2> DEFINE new == ResultRecorded(task, result, version)
  <2>5. new \in UpgradeTask /\ new.status = final /\ new.node = task.node /\ new.target = task.target
    BY <2>1, <2>4
  <2> HIDE DEF new
  <2>6. \/ new.status = "succeeded" /\ result = "interrupted" /\ version = task.target
        \/ new.status \in Failed /\ result # "succeeded" /\ task.status # "succeeded"
    BY <1>2, <2>3, <2>5
  <2> QED BY <2>5, <2>6 DEF new, ResultOf
<1>3. CASE result = "failed" /\ task.status # "succeeded"
  <2>1. ResultRecorded(task, result, version) = [task EXCEPT !.status = "failed"]
    BY <1>3 DEF ResultRecorded
  <2>2. "failed" \in Failed
    BY DEF Failed
  <2> DEFINE new == ResultRecorded(task, result, version)
  <2>3. new \in UpgradeTask /\ new.status = "failed" /\ new.node = task.node /\ new.target = task.target
    BY <2>1, <2>2, TaskStatus
  <2> HIDE DEF new
  <2> QED BY <1>3, <2>2, <2>3 DEF new, ResultOf
<1>4. CASE result # "succeeded" /\ task.status = "succeeded"
  <2>1. ResultRecorded(task, result, version) = task
    BY <1>4 DEF ResultRecorded
  <2> QED BY <1>4, <2>1 DEF UpgradeTask, ResultOf
<1> QED BY <1>1, <1>2, <1>3, <1>4

\* Whatever a report says, the task stays a task of its node for its version.
LEMMA TaskReported ==
  ASSUME NEW task \in UpgradeTask, NEW version, NEW result
  PROVE  ResultRecorded(task, result, version) \in UpgradeTask
<1>1. CASE result \in {"succeeded", "failed", "interrupted"}
  BY <1>1, TaskResult DEF ResultOf
<1>2. CASE result \notin {"succeeded", "failed", "interrupted"}
  BY <1>2 DEF ResultRecorded
<1> QED BY <1>1, <1>2

LEMMA EachTask ==
  ASSUME NEW tasks \in Seq(UpgradeTask)
  PROVE  \A t \in DOMAIN tasks : tasks[t] \in UpgradeTask /\ t \in Nat \ {0}
BY LenProperties, ElementOfSeq

\* A step that gives one task another status, or none.
TasksRewritten ==
  \/ upgradeTasks' = upgradeTasks
  \/ \E t, task : /\ upgradeTasks' = [upgradeTasks EXCEPT ![t] = task]
                  /\ t \in DOMAIN upgradeTasks => task \in UpgradeTask

LEMMA RewrittenHolds ==
  ASSUME RolloutHolds, UNCHANGED <<rollout, driver>>, artifact' \in Versions, TasksRewritten
  PROVE  RolloutHolds'
<1>1. upgradeTasks \in Seq(UpgradeTask)
  BY DEF RolloutHolds
<1>2. upgradeTasks' \in Seq(UpgradeTask) /\ Len(upgradeTasks') = Len(upgradeTasks)
  BY <1>1, TaskUpdate DEF TasksRewritten
<1> QED BY <1>2, ApartHolds

LEMMA ReconcileRewrites ==
  ASSUME upgradeTasks \in Seq(UpgradeTask), ReconcileUpgrades
  PROVE  TasksRewritten /\ UNCHANGED <<artifact, rollout, driver>>
<1>1. PICK t \in DOMAIN upgradeTasks : TimeoutUpgrade(t) \/ RepairInterrupted(t)
  BY DEF ReconcileUpgrades
<1>2. upgradeTasks[t] \in UpgradeTask
  BY <1>1, EachTask
<1>3. CASE TimeoutUpgrade(t)
  <2>1. upgradeTasks' = [upgradeTasks EXCEPT ![t] = [upgradeTasks[t] EXCEPT !.status = "failed"]]
    BY <1>3 DEF TimeoutUpgrade
  <2>2. [upgradeTasks[t] EXCEPT !.status = "failed"] \in UpgradeTask
    BY <1>2, TaskStatus DEF Failed
  <2> QED BY <1>3, <2>1, <2>2 DEF TasksRewritten, TimeoutUpgrade
<1>4. CASE RepairInterrupted(t)
  <2>1. upgradeTasks' = [upgradeTasks EXCEPT ![t] = [upgradeTasks[t] EXCEPT !.status = "succeeded"]]
    BY <1>4 DEF RepairInterrupted
  <2>2. [upgradeTasks[t] EXCEPT !.status = "succeeded"] \in UpgradeTask
    BY <1>2, TaskStatus
  <2> QED BY <1>4, <2>1, <2>2 DEF TasksRewritten, RepairInterrupted
<1> QED BY <1>1, <1>3, <1>4

LEMMA EdgeRewrites ==
  ASSUME upgradeTasks \in Seq(UpgradeTask), NEW n, EdgeHeartbeat(n) \/ EdgeWorks(n) \/ EdgeFails(n)
  PROVE  TasksRewritten /\ UNCHANGED <<artifact, rollout, driver>>
<1>1. CASE ReportCurrent(n)
  <2>1. PICK t \in InstructionFor(n) :
          upgradeTasks' = [upgradeTasks EXCEPT ![t] = ResultRecorded(upgradeTasks[t], "succeeded", edges[n].runs)]
    BY <1>1 DEF ReportCurrent
  <2>2. t \in DOMAIN upgradeTasks => ResultRecorded(upgradeTasks[t], "succeeded", edges[n].runs) \in UpgradeTask
    BY EachTask, TaskReported
  <2> QED BY <1>1, <2>1, <2>2 DEF TasksRewritten, ReportCurrent
<1>2. CASE ReportApplying(n)
  <2> DEFINE t == edges[n].task
             next == IF upgradeTasks[t].status \in Open THEN "applying" ELSE upgradeTasks[t].status
  <2>1. upgradeTasks' = [upgradeTasks EXCEPT ![t] = [upgradeTasks[t] EXCEPT !.status = next]]
    BY <1>2 DEF ReportApplying
  <2>2. t \in DOMAIN upgradeTasks => [upgradeTasks[t] EXCEPT !.status = next] \in UpgradeTask
    <3> SUFFICES ASSUME t \in DOMAIN upgradeTasks
                 PROVE  [upgradeTasks[t] EXCEPT !.status = next] \in UpgradeTask
      OBVIOUS
    <3>1. upgradeTasks[t] \in UpgradeTask
      BY EachTask
    <3>2. next \in Open \union Failed \union {"succeeded"}
      BY <3>1 DEF UpgradeTask, Open
    <3> HIDE DEF next
    <3> QED BY <3>1, <3>2, TaskStatus
  <2> QED BY <1>2, <2>1, <2>2 DEF TasksRewritten, ReportApplying
<1>3. CASE ReportResult(n)
  <2> DEFINE t == edges[n].task
  <2>1. upgradeTasks' = [upgradeTasks EXCEPT ![t] = ResultRecorded(upgradeTasks[t], edges[n].result, heard[n].version)]
    BY <1>3 DEF ReportResult
  <2>2. t \in DOMAIN upgradeTasks =>
          ResultRecorded(upgradeTasks[t], edges[n].result, heard[n].version) \in UpgradeTask
    BY EachTask, TaskReported
  <2> QED BY <1>3, <2>1, <2>2 DEF TasksRewritten, ReportResult
<1>4. CASE EdgeHeartbeat(n)
  BY <1>4 DEF EdgeHeartbeat, TasksRewritten
<1>5. CASE BeginStaging(n) \/ StartInstaller(n) \/ CommitInstall(n) \/ WriteFailure(n)
  BY <1>5 DEF BeginStaging, StartInstaller, CommitInstall, WriteFailure, TasksRewritten, OnlyEdge
<1>6. CASE Install(n) \/ ObserveInstaller(n)
  BY <1>6 DEF Install, ObserveInstaller, TasksRewritten, OnlyEdge
<1>7. CASE EdgeFails(n)
  BY <1>7 DEF EdgeFails, StagingFails, StagingCutOff, RollBack, InstallerDies, TasksRewritten, OnlyEdge
<1> QED BY <1>1, <1>2, <1>3, <1>4, <1>5, <1>6, <1>7 DEF EdgeWorks

LEMMA StartNodeHolds ==
  ASSUME RolloutHolds, NEW n \in EdgeNodes, StartNodeUpgrade(n)
  PROVE  RolloutHolds'
<1>1. /\ rollout \in Rollout /\ upgradeTasks \in Seq(UpgradeTask) /\ artifact \in Versions /\ Room(1)
      /\ upgradeTasks' = Append(upgradeTasks, QueuedTask(n, artifact))
      /\ UNCHANGED <<artifact, rollout, driver>>
  BY DEF RolloutHolds, StartNodeUpgrade
<1>2. QueuedTask(n, artifact) \in UpgradeTask
  BY <1>1 DEF QueuedTask, UpgradeTask, Open
<1>3. upgradeTasks' \in Seq(UpgradeTask) /\ Len(upgradeTasks') = Len(upgradeTasks) + 1
  BY <1>1, <1>2, AppendProperties
<1>4. TasksFit'
  <2>1. 1 + Len(upgradeTasks) + Cardinality(WaitingMembers(rollout)) <= MaxUpgradeTasks
        /\ Cardinality(WaitingMembers(rollout)) \in Nat
    BY <1>1, RoomNumbers
  <2>2. Len(upgradeTasks) \in Nat
    BY <1>1, LenProperties
  <2>3. WaitingMembers(rollout') = WaitingMembers(rollout)
    BY <1>1
  <2>4. 0 + Len(upgradeTasks') + Cardinality(WaitingMembers(rollout')) <= MaxUpgradeTasks
    BY <1>3, <2>1, <2>2, <2>3, UpgradeAssumption
  <2> QED BY <2>4 DEF TasksFit, Room, ActiveRollout, WaitingMembers
<1>5. RowSound(rollout') /\ DriverSound' /\ rollout' \in Rollout /\ driver' \in Drivers
  BY <1>1 DEF RolloutHolds, DriverSound, ActiveRollout
<1> QED BY <1>1, <1>3, <1>4, <1>5 DEF RolloutHolds

-----------------------------------------------------------------------------
(* The rollout keeps its shape.                                            *)

LEMMA RolloutHoldsInit == UpgradesInit => RolloutHolds
<1> SUFFICES ASSUME UpgradesInit PROVE RolloutHolds
  OBVIOUS
<1>1. /\ rollout = NoRollout /\ driver = IdleDriver /\ artifact = 1 /\ upgradeTasks = <<>>
  BY DEF UpgradesInit
<1>2. NoRollout \in Rollout /\ IdleDriver \in Drivers /\ IdleDriver.pc = "idle"
  BY IdleDriverType
<1>3. artifact \in Versions
  BY <1>1, UpgradeAssumption DEF Versions
<1>4. upgradeTasks \in Seq(UpgradeTask) /\ Len(upgradeTasks) = 0
  BY <1>1, EmptySeq
<1>5. rollout.members = <<>> /\ rollout.state = "none" /\ DOMAIN rollout.members = {}
  BY <1>1 DEF NoRollout
<1>6. RowSound(rollout)
  BY <1>5 DEF RowSound
<1>7. DriverSound
  BY <1>1, <1>2 DEF DriverSound
<1>8. TasksFit
  <2>1. WaitingMembers(rollout) = {}
    BY <1>5 DEF WaitingMembers
  <2>2. Cardinality(WaitingMembers(rollout)) = 0
    BY <2>1, FS_EmptySet
  <2>3. 0 + Len(upgradeTasks) + Cardinality(WaitingMembers(rollout)) <= MaxUpgradeTasks
    BY <1>4, <2>2, UpgradeAssumption
  <2> QED BY <2>3 DEF TasksFit, Room, ActiveRollout, WaitingMembers
<1> QED BY <1>1, <1>2, <1>3, <1>4, <1>6, <1>7, <1>8 DEF RolloutHolds

LEMMA ObserveHolds ==
  ASSUME RolloutHolds, NEW i, ObserveMember(i)
  PROVE  RolloutHolds'
<1>1. Observing(i)
  BY DEF ObserveMember, MemberTaskOpen, MemberTaskFailed, MemberNotReady, MemberUnhealthy,
         MemberHealthy, MemberVerified
<1>2. /\ driver.work.members[i].state \in {"upgrading", "verifying"}
      /\ driver.work.members[i].healthy \in BOOLEAN
  BY <1>1, ObservingMember DEF Observing, InFlight, Member
<1>3. \E state \in {"upgrading", "verifying", "succeeded", "failed"} :
        \E healthy \in BOOLEAN : Conclude(i, state, healthy)
  BY <1>2 DEF ObserveMember, MemberTaskOpen, MemberTaskFailed, MemberNotReady, MemberUnhealthy,
              MemberHealthy, MemberVerified
<1> QED BY <1>1, <1>3, ConcludeHolds

LEMMA RolloutHoldsNext ==
  ASSUME RolloutHolds, [UpgradesNext]_upgradeVars
  PROVE  RolloutHolds'
<1>0. upgradeTasks \in Seq(UpgradeTask) /\ artifact \in Versions
  BY DEF RolloutHolds
<1>1. CASE \E n \in Requested : StartNodeUpgrade(n)
  BY <1>1, StartNodeHolds, UpgradeAssumption
<1>2. CASE PromoteArtifact
  <2>1. artifact' \in Versions
    BY <1>0, <1>2, UpgradeAssumption DEF PromoteArtifact, Versions
  <2> QED BY <1>0, <1>2, <2>1, ApartHolds DEF PromoteArtifact
<1>3. CASE StartAllUpgrades
  BY <1>3, StartAllHolds
<1>4. CASE PauseRollout
  BY <1>4, PauseHolds DEF PauseRollout
<1>5. CASE ResumeRollout \/ CancelRollout
  BY <1>5, ResumeHolds, CancelHolds
<1>6. CASE ReconcileUpgrades
  BY <1>0, <1>6, ReconcileRewrites, RewrittenHolds
<1>7. CASE RolloutStep
  <2>1. CASE ArtifactChanged
    <3>1. rollout.state = "running"
      BY <2>1 DEF RolloutHolds, DriverSound, ArtifactChanged
    <3> QED BY <2>1, <3>1, PauseHolds DEF ArtifactChanged
  <2> QED BY <1>7, <2>1, BeginHolds, SaveHolds, DispatchFirstHolds, DispatchNextHolds, EndHolds, ObserveHolds
      DEF RolloutStep
<1>8. CASE RestartController
  BY <1>8, RestartHolds
<1>9. CASE \E n \in EdgeNodes : EdgeHeartbeat(n) \/ EdgeWorks(n) \/ EdgeFails(n)
  BY <1>0, <1>9, EdgeRewrites, RewrittenHolds
<1>10. CASE UNCHANGED upgradeVars
  BY <1>0, <1>10, ApartHolds DEF upgradeVars
<1> QED BY <1>1, <1>2, <1>3, <1>4, <1>5, <1>6, <1>7, <1>8, <1>9, <1>10 DEF UpgradesNext, UpgradeRequest

\* The rows of the rollout keep their shape.
THEOREM RolloutHoldsAlways == UpgradesSpec => []RolloutHolds
<1>1. UpgradesInit => RolloutHolds
  BY RolloutHoldsInit
<1>2. RolloutHolds /\ [UpgradesNext]_upgradeVars => RolloutHolds'
  BY RolloutHoldsNext
<1> QED BY <1>1, <1>2, PTL DEF UpgradesSpec

-----------------------------------------------------------------------------
(* A rollout is a staged rollout.                                          *)

WaitingPlaces(row) == {i \in DOMAIN row.members : row.members[i].state \in {"pending", "failed"}}

PassedPlaces(row) == {i \in DOMAIN row.members : row.members[i].state = "succeeded"}

LEMMA StutterMaps ==
  ASSUME UNCHANGED rollout
  PROVE  UNCHANGED RolloutPlan!vars
BY DEF RolloutPlan!vars, Moving, CanaryNode, WaitingNodes, FlyingNodes, PassedNodes, NodesAt

LEMMA HaltMaps ==
  ASSUME rollout.state = "running", rollout'.state # "running", rollout'.members = rollout.members
  PROVE  RolloutPlan!Halt
<1>1. /\ CanaryNode' = CanaryNode /\ WaitingNodes' = WaitingNodes
      /\ FlyingNodes' = FlyingNodes /\ PassedNodes' = PassedNodes
  BY DEF CanaryNode, WaitingNodes, FlyingNodes, PassedNodes, NodesAt
<1> QED BY <1>1 DEF RolloutPlan!Halt, Moving

LEMMA SameCount == \A S : RolloutPlan!Cardinality(S) = Cardinality(S)
BY DEF RolloutPlan!Cardinality, Cardinality

LEMMA StartMaps ==
  ASSUME NEW n, rollout.state = "running", rollout'.state = "running",
         n \in WaitingNodes, n \in CanaryNode \/ CanaryNode \subseteq PassedNodes,
         Cardinality(FlyingNodes) < MaxParallel,
         WaitingNodes' = WaitingNodes \ {n}, FlyingNodes' = FlyingNodes \union {n},
         CanaryNode' = CanaryNode, PassedNodes' = PassedNodes
  PROVE  RolloutPlan!Start(n)
<1>1. Moving /\ Moving' = Moving
  BY DEF Moving
<1> QED BY <1>1, SameCount DEF RolloutPlan!Start

\* Nodes are found at one position each.
LEMMA NodesApart ==
  ASSUME NEW row \in Rollout, RowSound(row), NEW i \in DOMAIN row.members, NEW j \in DOMAIN row.members,
         row.members[i].node = row.members[j].node
  PROVE  i = j
BY DEF RowSound

\* What stands at the positions of a set.
LEMMA NodeIsAt ==
  \A S, n : n \in NodesAt(S) <=> \E i \in S : n = rollout.members[i].node
BY DEF NodesAt

LEMMA FlyingCount ==
  ASSUME rollout \in Rollout
  PROVE  Cardinality(FlyingNodes) <= Cardinality(InFlight(rollout.members)) /\ Cardinality(FlyingNodes) \in Nat
         /\ Cardinality(InFlight(rollout.members)) \in Nat
<1> DEFINE S == InFlight(rollout.members)
           f == [i \in S |-> rollout.members[i].node]
<1>1. IsFiniteSet(S) /\ Cardinality(S) \in Nat
  BY MemberSets
<1>2. f \in Surjection(S, FlyingNodes)
  BY DEF Surjection, FlyingNodes, NodesAt
<1> HIDE DEF S, f
<1>3. IsFiniteSet(FlyingNodes) /\ Cardinality(FlyingNodes) <= Cardinality(S)
  BY <1>1, <1>2, FS_Surjection
<1> QED BY <1>1, <1>3, FS_CardinalityType DEF S

LEMMA ResumeMaps ==
  ASSUME RolloutHolds, ResumeRollout
  PROVE  RolloutPlan!Resume
<1>0. rollout \in Rollout
  BY DEF RolloutHolds
<1>1. /\ rollout'.state = "running" /\ rollout.state = "paused"
      /\ DOMAIN rollout'.members = DOMAIN rollout.members
      /\ \A i \in DOMAIN rollout.members :
           LET m == rollout.members[i]  new == rollout'.members[i] IN
           /\ new.node = m.node /\ new.state = IF m.state = "failed" THEN "pending" ELSE m.state
  BY <1>0, ResumedRow
<1>2. /\ WaitingPlaces(rollout') = WaitingPlaces(rollout) /\ WaitingPlaces(rollout) \subseteq DOMAIN rollout.members
      /\ InFlight(rollout'.members) = InFlight(rollout.members)
      /\ InFlight(rollout.members) \subseteq DOMAIN rollout.members
      /\ PassedPlaces(rollout') = PassedPlaces(rollout) /\ PassedPlaces(rollout) \subseteq DOMAIN rollout.members
  BY <1>1 DEF WaitingPlaces, InFlight, PassedPlaces
<1>3. WaitingNodes' = WaitingNodes
  BY <1>1, <1>2 DEF WaitingNodes, NodesAt, WaitingPlaces
<1>4. FlyingNodes' = FlyingNodes
  BY <1>1, <1>2 DEF FlyingNodes, NodesAt
<1>5. PassedNodes' = PassedNodes
  BY <1>1, <1>2 DEF PassedNodes, NodesAt, PassedPlaces
<1>6. CanaryNode' = CanaryNode
  BY <1>1 DEF CanaryNode, NodesAt
<1>7. ~Moving /\ Moving' = TRUE
  BY <1>1 DEF Moving
<1> QED BY <1>3, <1>4, <1>5, <1>6, <1>7 DEF RolloutPlan!Resume

LEMMA CancelMaps ==
  ASSUME RolloutHolds, CancelRollout
  PROVE  RolloutPlan!Cancel
<1>0. rollout \in Rollout
  BY DEF RolloutHolds
<1>1. /\ rollout'.state = "cancelled"
      /\ DOMAIN rollout'.members = DOMAIN rollout.members
      /\ \A i \in DOMAIN rollout.members :
           LET m == rollout.members[i]  new == rollout'.members[i] IN
           /\ new.node = m.node
           /\ new.state = IF m.state \in {"pending", "failed"} THEN "skipped" ELSE m.state
  BY <1>0, CancelledRow
<1>2. /\ WaitingPlaces(rollout') = {}
      /\ InFlight(rollout'.members) = InFlight(rollout.members)
      /\ InFlight(rollout.members) \subseteq DOMAIN rollout.members
      /\ PassedPlaces(rollout') = PassedPlaces(rollout) /\ PassedPlaces(rollout) \subseteq DOMAIN rollout.members
  BY <1>1 DEF WaitingPlaces, InFlight, PassedPlaces
<1>3. WaitingNodes' = {}
  BY <1>2 DEF WaitingNodes, NodesAt, WaitingPlaces
<1>4. FlyingNodes' = FlyingNodes
  BY <1>1, <1>2 DEF FlyingNodes, NodesAt
<1>5. PassedNodes' = PassedNodes
  BY <1>1, <1>2 DEF PassedNodes, NodesAt, PassedPlaces
<1>6. CanaryNode' = CanaryNode
  BY <1>1 DEF CanaryNode, NodesAt
<1>7. Moving' = FALSE
  BY <1>1 DEF Moving
<1> QED BY <1>3, <1>4, <1>5, <1>6, <1>7 DEF RolloutPlan!Cancel

LEMMA StartAllMaps ==
  ASSUME RolloutHolds, StartAllUpgrades
  PROVE  RolloutPlan!Begin
<1>0. rollout \in Rollout /\ artifact \in Versions /\ RowSound(rollout) /\ ~ActiveRollout
  BY DEF RolloutHolds, StartAllUpgrades
<1>1. /\ rollout' \in Rollout /\ rollout'.state = "running"
      /\ DOMAIN rollout'.members = 1..Cardinality(Eligible)
      /\ Cardinality(Eligible) \in 1..Len(NodeOrder) /\ Len(NodeOrder) \in Nat
      /\ \A i \in DOMAIN rollout'.members :
           rollout'.members[i] = NewMember(rollout'.members[i].node)
  BY <1>0, StartedRow, EligibleCount
<1>2. 1 \in DOMAIN rollout'.members
  BY <1>1
<1>3. \A i \in DOMAIN rollout'.members :
        rollout'.members[i].state = "pending" /\ rollout'.members[i].node \in EdgeNodes
  BY <1>1, NewMemberFields, RolloutRow
<1> DEFINE all == {rollout'.members[i].node : i \in DOMAIN rollout'.members}
           c == rollout'.members[1].node
<1>4. all \in SUBSET EdgeNodes /\ c \in all
  BY <1>2, <1>3
<1>5. CanaryNode' = {c}
  <2>1. {1} \intersect DOMAIN rollout'.members = {1}
    BY <1>2
  <2> QED BY <2>1 DEF CanaryNode, NodesAt
<1>6. WaitingNodes' = all
  <2>1. WaitingPlaces(rollout') = DOMAIN rollout'.members
    BY <1>3 DEF WaitingPlaces
  <2> QED BY <2>1 DEF WaitingNodes, NodesAt, WaitingPlaces
<1>7. FlyingNodes' = {} /\ PassedNodes' = {}
  <2>1. InFlight(rollout'.members) = {} /\ PassedPlaces(rollout') = {}
    BY <1>3 DEF InFlight, PassedPlaces
  <2> QED BY <2>1 DEF FlyingNodes, PassedNodes, NodesAt, PassedPlaces
<1>8. WaitingNodes = {}
  <2>1. WaitingPlaces(rollout) = {}
    BY <1>0 DEF RowSound, ActiveRollout, WaitingPlaces
  <2> QED BY <2>1 DEF WaitingNodes, NodesAt, WaitingPlaces
<1>9. ~Moving /\ Moving' = TRUE
  BY <1>0, <1>1 DEF Moving, ActiveRollout
<1> HIDE DEF all, c
<1> QED BY <1>4, <1>5, <1>6, <1>7, <1>8, <1>9 DEF RolloutPlan!Begin

\* The nodes of members, wherever the row comes from.
NodesOf(members, S) == {members[i].node : i \in S}

LEMMA PlanNodes ==
  /\ CanaryNode = NodesOf(rollout.members, {1} \intersect DOMAIN rollout.members)
  /\ WaitingNodes = NodesOf(rollout.members, WaitingPlaces(rollout))
  /\ FlyingNodes = NodesOf(rollout.members, InFlight(rollout.members))
  /\ PassedNodes = NodesOf(rollout.members, PassedPlaces(rollout))
BY DEF CanaryNode, WaitingNodes, FlyingNodes, PassedNodes, NodesAt, NodesOf, WaitingPlaces, PassedPlaces

LEMMA PlanNodesNext ==
  /\ CanaryNode' = NodesOf(rollout'.members, {1} \intersect DOMAIN rollout'.members)
  /\ WaitingNodes' = NodesOf(rollout'.members, WaitingPlaces(rollout'))
  /\ FlyingNodes' = NodesOf(rollout'.members, InFlight(rollout'.members))
  /\ PassedNodes' = NodesOf(rollout'.members, PassedPlaces(rollout'))
BY DEF CanaryNode, WaitingNodes, FlyingNodes, PassedNodes, NodesAt, NodesOf, WaitingPlaces, PassedPlaces

LEMMA SameNodes ==
  ASSUME NEW members, NEW others, NEW S, \A i \in S : others[i].node = members[i].node
  PROVE  NodesOf(others, S) = NodesOf(members, S)
BY DEF NodesOf

\* Different members have different nodes, so sets of members go with sets of nodes.
LEMMA NodesAlgebra ==
  ASSUME NEW members, NEW S \in SUBSET (DOMAIN members), NEW T \in SUBSET (DOMAIN members),
         \A i, j \in DOMAIN members : members[i].node = members[j].node => i = j
  PROVE  /\ NodesOf(members, S \union T) = NodesOf(members, S) \union NodesOf(members, T)
         /\ NodesOf(members, S \ T) = NodesOf(members, S) \ NodesOf(members, T)
         /\ S \intersect T = {} => NodesOf(members, S) \intersect NodesOf(members, T) = {}
         /\ S \subseteq T => NodesOf(members, S) \subseteq NodesOf(members, T)
         /\ (S = {}) <=> (NodesOf(members, S) = {})
<1>1. \A R, n : n \in NodesOf(members, R) <=> \E i \in R : n = members[i].node
  BY DEF NodesOf
<1>2. NodesOf(members, S \union T) = NodesOf(members, S) \union NodesOf(members, T)
  BY <1>1
<1>3. NodesOf(members, S \ T) = NodesOf(members, S) \ NodesOf(members, T)
  BY <1>1
<1>4. S \intersect T = {} => NodesOf(members, S) \intersect NodesOf(members, T) = {}
  BY <1>1
<1>5. S \subseteq T => NodesOf(members, S) \subseteq NodesOf(members, T)
  BY <1>1
<1>6. (S = {}) <=> (NodesOf(members, S) = {})
  <2>1. S = {} => NodesOf(members, S) = {}
    BY DEF NodesOf
  <2>2. S # {} => NodesOf(members, S) # {}
    BY DEF NodesOf
  <2> QED BY <2>1, <2>2
<1> QED BY <1>2, <1>3, <1>4, <1>5, <1>6

LEMMA NodesMinus ==
  ASSUME NEW members, NEW S \in SUBSET (DOMAIN members), NEW T \in SUBSET (DOMAIN members),
         \A i, j \in DOMAIN members : members[i].node = members[j].node => i = j
  PROVE  NodesOf(members, S \ T) = NodesOf(members, S) \ NodesOf(members, T)
BY NodesAlgebra

\* The members that were found upgraded pass, those that were found failed wait.
LEMMA SaveMaps ==
  ASSUME RolloutHolds, SaveObserved
  PROVE  RolloutPlan!Watch
<1> DEFINE ms == rollout.members
           flight == InFlight(ms)
           okAt == {i \in flight : rollout'.members[i].state = "succeeded"}
           badAt == {i \in flight : rollout'.members[i].state = "failed"}
<1>0. /\ rollout \in Rollout /\ RowSound(rollout) /\ rollout.state \in {"running", "paused"}
      /\ Observed(rollout, rollout') /\ rollout' \in Rollout
  BY DriverFields DEF RolloutHolds, DriverSound, SaveObserved, ActiveRollout
<1>1. /\ DOMAIN rollout'.members = DOMAIN ms
      /\ \A i \in DOMAIN ms : rollout'.members[i].node = ms[i].node
      /\ \A i \in DOMAIN ms : i \notin flight => rollout'.members[i].state = ms[i].state
      /\ \A i \in flight : rollout'.members[i].state \in {"upgrading", "verifying", "succeeded", "failed"}
      /\ \A i \in flight : ms[i].state \in {"upgrading", "verifying"}
      /\ flight \subseteq DOMAIN ms
  BY <1>0 DEF Observed, InFlight
<1>2. \A i, j \in DOMAIN ms : ms[i].node = ms[j].node => i = j
  BY <1>0 DEF RowSound
<1>3. /\ InFlight(rollout'.members) = flight \ (okAt \union badAt)
      /\ PassedPlaces(rollout') = PassedPlaces(rollout) \union okAt
      /\ WaitingPlaces(rollout') = WaitingPlaces(rollout) \union badAt
  BY <1>1 DEF InFlight, PassedPlaces, WaitingPlaces
<1>4. /\ okAt \subseteq flight /\ badAt \subseteq flight /\ okAt \intersect badAt = {}
      /\ PassedPlaces(rollout) \subseteq DOMAIN ms /\ WaitingPlaces(rollout) \subseteq DOMAIN ms
  BY DEF PassedPlaces, WaitingPlaces
<1>5. rollout'.state = IF badAt # {} THEN "paused" ELSE rollout.state
  BY <1>0 DEF Observed
<1> HIDE DEF okAt, badAt, flight, ms
<1> DEFINE ok == NodesOf(ms, okAt)
           bad == NodesOf(ms, badAt)
<1>6. ok \subseteq FlyingNodes /\ bad \subseteq FlyingNodes /\ ok \intersect bad = {}
  <2>1. FlyingNodes = NodesOf(ms, flight)
    BY PlanNodes DEF ms, flight
  <2> QED BY <1>1, <1>2, <1>4, <2>1, NodesAlgebra
<1>7. FlyingNodes' = FlyingNodes \ (ok \union bad)
  <2>1. FlyingNodes' = NodesOf(ms, flight \ (okAt \union badAt))
    <3>1. flight \ (okAt \union badAt) \subseteq DOMAIN ms
      BY <1>1
    <3> QED BY <1>1, <1>3, <3>1, PlanNodesNext, SameNodes
  <2>2. okAt \union badAt \in SUBSET (DOMAIN ms) /\ flight \in SUBSET (DOMAIN ms)
    BY <1>1, <1>4
  <2>3. NodesOf(ms, flight \ (okAt \union badAt)) = NodesOf(ms, flight) \ NodesOf(ms, okAt \union badAt)
    <3> DEFINE gone == okAt \union badAt
    <3>1. gone \in SUBSET (DOMAIN ms) /\ flight \in SUBSET (DOMAIN ms)
      BY <2>2
    <3> HIDE DEF gone
    <3>2. NodesOf(ms, flight \ gone) = NodesOf(ms, flight) \ NodesOf(ms, gone)
      BY <1>2, <3>1, NodesAlgebra
    <3> QED BY <3>2 DEF gone
  <2>4. NodesOf(ms, okAt \union badAt) = ok \union bad
    BY <1>1, <1>2, <1>4, NodesAlgebra
  <2> QED BY <2>1, <2>3, <2>4, PlanNodes DEF ms, flight
<1>8. PassedNodes' = PassedNodes \union ok
  <2>1. PassedPlaces(rollout) \union okAt \subseteq DOMAIN ms
    BY <1>1, <1>4
  <2>2. PassedNodes' = NodesOf(ms, PassedPlaces(rollout) \union okAt)
    BY <1>1, <1>3, <2>1, PlanNodesNext, SameNodes
  <2>3. NodesOf(ms, PassedPlaces(rollout) \union okAt) = NodesOf(ms, PassedPlaces(rollout)) \union ok
    BY <1>1, <1>2, <1>4, NodesAlgebra
  <2> QED BY <2>2, <2>3, PlanNodes DEF ms
<1>9. WaitingNodes' = WaitingNodes \union bad
  <2>1. WaitingPlaces(rollout) \union badAt \subseteq DOMAIN ms
    BY <1>1, <1>4
  <2>2. WaitingNodes' = NodesOf(ms, WaitingPlaces(rollout) \union badAt)
    BY <1>1, <1>3, <2>1, PlanNodesNext, SameNodes
  <2>3. NodesOf(ms, WaitingPlaces(rollout) \union badAt) = NodesOf(ms, WaitingPlaces(rollout)) \union bad
    BY <1>1, <1>2, <1>4, NodesAlgebra
  <2> QED BY <2>2, <2>3, PlanNodes DEF ms
<1>10. CanaryNode' = CanaryNode
  <2>1. {1} \intersect DOMAIN ms \subseteq DOMAIN ms
    OBVIOUS
  <2>2. CanaryNode' = NodesOf(ms, {1} \intersect DOMAIN ms)
    BY <1>1, <2>1, PlanNodesNext, SameNodes
  <2> QED BY <2>2, PlanNodes DEF ms
<1>11. Moving' = (Moving /\ bad = {})
  <2>1. (bad = {}) <=> (badAt = {})
    BY <1>1, <1>2, <1>4, NodesAlgebra
  <2> HIDE DEF bad
  <2> QED BY <1>0, <1>5, <2>1 DEF Moving
<1> HIDE DEF ok, bad
<1> QED BY <1>6, <1>7, <1>8, <1>9, <1>10, <1>11 DEF RolloutPlan!Watch

\* A member that waits is started.
LEMMA DispatchMaps ==
  ASSUME RolloutHolds, NEW i, Dispatch(i), FirstPending(i),
         i = 1 \/ rollout.members[1].state = "succeeded"
  PROVE  \E n \in EdgeNodes : RolloutPlan!Start(n)
<1> DEFINE ms == rollout.members
           n == ms[i].node
<1>0. /\ rollout \in Rollout /\ RowSound(rollout) /\ upgradeTasks \in Seq(UpgradeTask) /\ TasksFit
  BY DEF RolloutHolds
<1>1. /\ i \in DOMAIN ms /\ ms[i].state = "pending" /\ rollout.state = "running"
      /\ rollout' \in Rollout /\ rollout'.state = rollout.state
      /\ DOMAIN rollout'.members = DOMAIN ms /\ rollout'.members[i].node = ms[i].node
      /\ \A j \in DOMAIN ms : j # i => rollout'.members[j] = ms[j]
      /\ rollout'.members[i].state \in {"verifying", "upgrading"}
  BY <1>0, DispatchedRow
<1>2. \A j, k \in DOMAIN ms : ms[j].node = ms[k].node => j = k
  BY <1>0 DEF RowSound
<1>3. n \in EdgeNodes
  BY <1>0, <1>1, RolloutRow
<1>4. \A j \in DOMAIN ms : rollout'.members[j].node = ms[j].node
  BY <1>1
<1>5. /\ InFlight(rollout'.members) = InFlight(ms) \union {i}
      /\ PassedPlaces(rollout') = PassedPlaces(rollout)
      /\ WaitingPlaces(rollout') = WaitingPlaces(rollout) \ {i}
      /\ i \in WaitingPlaces(rollout)
  BY <1>1 DEF InFlight, PassedPlaces, WaitingPlaces
<1>6. /\ InFlight(ms) \in SUBSET (DOMAIN ms) /\ PassedPlaces(rollout) \in SUBSET (DOMAIN ms)
      /\ WaitingPlaces(rollout) \in SUBSET (DOMAIN ms) /\ {i} \in SUBSET (DOMAIN ms)
      /\ {1} \intersect DOMAIN ms \in SUBSET (DOMAIN ms)
  BY <1>1 DEF InFlight, PassedPlaces, WaitingPlaces
<1>7. /\ CanaryNode = NodesOf(ms, {1} \intersect DOMAIN ms)
      /\ WaitingNodes = NodesOf(ms, WaitingPlaces(rollout))
      /\ FlyingNodes = NodesOf(ms, InFlight(ms)) /\ PassedNodes = NodesOf(ms, PassedPlaces(rollout))
  BY PlanNodes
<1>8. NodesOf(ms, {i}) = {n}
  BY DEF NodesOf
<1>9. n \in WaitingNodes
  BY <1>5, <1>7 DEF NodesOf
<1>10. n \in CanaryNode \/ CanaryNode \subseteq PassedNodes
  <2>1. CASE i = 1
    BY <1>1, <1>7, <2>1 DEF NodesOf
  <2>2. CASE rollout.members[1].state = "succeeded"
    <3>1. {1} \intersect DOMAIN ms \subseteq PassedPlaces(rollout)
      BY <2>2 DEF PassedPlaces
    <3> DEFINE first == {1} \intersect DOMAIN ms
    <3>2. NodesOf(ms, first) \subseteq NodesOf(ms, PassedPlaces(rollout))
      <4> HIDE DEF first
      <4>1. first \in SUBSET (DOMAIN ms) /\ first \subseteq PassedPlaces(rollout)
        BY <1>6, <3>1 DEF first
      <4> QED BY <1>2, <1>6, <4>1, NodesAlgebra
    <3> QED BY <1>7, <3>2
  <2>3. i = 1 \/ rollout.members[1].state = "succeeded"
    OBVIOUS
  <2> QED BY <2>1, <2>2, <2>3
<1>11. Cardinality(FlyingNodes) < MaxParallel
  BY <1>0, FlyingCount, UpgradeAssumption DEF FirstPending
<1> HIDE DEF ms, n
<1>12. WaitingNodes' = WaitingNodes \ {n}
  <2>1. WaitingNodes' = NodesOf(ms, WaitingPlaces(rollout) \ {i})
    <3>1. WaitingPlaces(rollout) \ {i} \subseteq DOMAIN ms
      BY <1>6
    <3> QED BY <1>4, <1>5, <3>1, PlanNodesNext, SameNodes
  <2>2. NodesOf(ms, WaitingPlaces(rollout) \ {i}) = NodesOf(ms, WaitingPlaces(rollout)) \ NodesOf(ms, {i})
    <3> DEFINE W == WaitingPlaces(rollout)
    <3>1. W \in SUBSET (DOMAIN ms) /\ {i} \in SUBSET (DOMAIN ms)
      BY <1>6
    <3> HIDE DEF W
    <3>2. NodesOf(ms, W \ {i}) = NodesOf(ms, W) \ NodesOf(ms, {i})
      BY <1>2, <3>1, NodesMinus
    <3> QED BY <3>2 DEF W
  <2> QED BY <1>7, <1>8, <2>1, <2>2
<1>13. FlyingNodes' = FlyingNodes \union {n}
  <2>1. FlyingNodes' = NodesOf(ms, InFlight(ms) \union {i})
    <3>1. InFlight(ms) \union {i} \subseteq DOMAIN ms
      BY <1>6
    <3> QED BY <1>4, <1>5, <3>1, PlanNodesNext, SameNodes
  <2>2. NodesOf(ms, InFlight(ms) \union {i}) = NodesOf(ms, InFlight(ms)) \union NodesOf(ms, {i})
    <3> DEFINE F == InFlight(ms)
    <3>1. F \in SUBSET (DOMAIN ms) /\ {i} \in SUBSET (DOMAIN ms)
      BY <1>6
    <3> HIDE DEF F
    <3>2. NodesOf(ms, F \union {i}) = NodesOf(ms, F) \union NodesOf(ms, {i})
      BY <1>2, <3>1, NodesAlgebra
    <3> QED BY <3>2 DEF F
  <2> QED BY <1>7, <1>8, <2>1, <2>2
<1>14. PassedNodes' = PassedNodes
  BY <1>4, <1>5, <1>6, <1>7, PlanNodesNext, SameNodes
<1>15. CanaryNode' = CanaryNode
  BY <1>1, <1>4, <1>6, <1>7, PlanNodesNext, SameNodes
<1>16. RolloutPlan!Start(n)
  BY <1>1, <1>9, <1>10, <1>11, <1>12, <1>13, <1>14, <1>15, StartMaps
<1> QED BY <1>3, <1>16 DEF n

\* What a step of the rollout is to a staged rollout.
LEMMA PauseMaps ==
  ASSUME RolloutHolds, rollout.state = "running", SetRollout([rollout EXCEPT !.state = "paused"])
  PROVE  RolloutPlan!Halt
<1>1. rollout'.state = "paused" /\ rollout'.members = rollout.members
  BY RowUpdates DEF SetRollout, RolloutHolds
<1> QED BY <1>1, HaltMaps

LEMMA DispatchFirstMaps ==
  ASSUME RolloutHolds, DispatchFirst
  PROVE  RolloutPlan!Next
<1>1. /\ rollout \in Rollout /\ rollout.state = "running" /\ 1 \in DOMAIN rollout.members
      /\ \A i \in DOMAIN rollout.members : rollout.members[i] = NewMember(rollout.members[i].node)
  BY DEF RolloutHolds, DriverSound, DispatchFirst
<1>2. CASE Dispatch(1)
  <2>1. \A i \in DOMAIN rollout.members : rollout.members[i].state = "pending"
    BY <1>1, NewMemberFields
  <2>2. InFlight(rollout.members) = {}
    BY <2>1 DEF InFlight
  <2>3. Cardinality(InFlight(rollout.members)) < MaxParallel
    BY <2>2, FS_EmptySet, UpgradeAssumption
  <2>4. \A j \in Pending(rollout.members) : 1 <= j
    BY <1>1, RolloutRow DEF Pending
  <2>5. FirstPending(1)
    BY <2>3, <2>4 DEF FirstPending
  <2>6. \E n \in EdgeNodes : RolloutPlan!Start(n)
    BY <1>2, <2>5, DispatchMaps
  <2> QED BY <2>6 DEF RolloutPlan!Next
<1>3. CASE rollout' = [rollout EXCEPT !.state = "paused"] /\ UNCHANGED upgradeTasks
  <2>1. rollout'.state = "paused" /\ rollout'.members = rollout.members
    BY <1>1, <1>3, RowUpdates
  <2> QED BY <1>1, <2>1, HaltMaps DEF RolloutPlan!Next
<1> QED BY <1>2, <1>3 DEF DispatchFirst

LEMMA DispatchNextMaps ==
  ASSUME RolloutHolds, DispatchNext
  PROVE  RolloutPlan!Next
<1>1. rollout.state = "running"
  BY DEF RolloutHolds, DriverSound, DispatchNext
<1>2. PICK i \in NextToDispatch : Dispatch(i) \/ SetRollout([rollout EXCEPT !.state = "paused"])
  BY DEF DispatchNext
<1>3. FirstPending(i) /\ (i = 1 \/ rollout.members[1].state = "succeeded")
  BY DEF FirstPending, NextToDispatch
<1>4. CASE Dispatch(i)
  BY <1>3, <1>4, DispatchMaps DEF RolloutPlan!Next
<1>5. CASE SetRollout([rollout EXCEPT !.state = "paused"])
  BY <1>1, <1>5, PauseMaps DEF RolloutPlan!Next
<1> QED BY <1>2, <1>4, <1>5

LEMMA EndMaps ==
  ASSUME RolloutHolds, EndReconcileRollout
  PROVE  RolloutPlan!Next \/ UNCHANGED RolloutPlan!vars
<1>1. rollout.state = "running" /\ rollout \in Rollout
  BY DEF RolloutHolds, DriverSound, EndReconcileRollout
<1>2. rollout' = [rollout EXCEPT !.state = "succeeded"] \/ rollout' = rollout
  BY DEF EndReconcileRollout, SetRollout
<1>3. CASE rollout' = rollout
  BY <1>3, StutterMaps
<1>4. CASE rollout' = [rollout EXCEPT !.state = "succeeded"]
  <2>1. rollout'.state = "succeeded" /\ rollout'.members = rollout.members
    BY <1>1, <1>4, RowUpdates
  <2> QED BY <1>1, <2>1, HaltMaps DEF RolloutPlan!Next
<1> QED BY <1>2, <1>3, <1>4

LEMMA PlanInit ==
  ASSUME UpgradesInit
  PROVE  RolloutPlan!Init
<1>1. rollout.members = <<>> /\ rollout.state = "none" /\ DOMAIN rollout.members = {}
  BY DEF UpgradesInit, NoRollout
<1>2. /\ WaitingPlaces(rollout) = {} /\ PassedPlaces(rollout) = {} /\ InFlight(rollout.members) = {}
      /\ {1} \intersect DOMAIN rollout.members = {}
  BY <1>1 DEF WaitingPlaces, PassedPlaces, InFlight
<1>3. CanaryNode = {} /\ WaitingNodes = {} /\ FlyingNodes = {} /\ PassedNodes = {}
  BY <1>2, PlanNodes DEF NodesOf
<1>4. Moving = FALSE
  BY <1>1 DEF Moving
<1> QED BY <1>3, <1>4 DEF RolloutPlan!Init

LEMMA PlanNext ==
  ASSUME RolloutHolds, [UpgradesNext]_upgradeVars
  PROVE  [RolloutPlan!Next]_RolloutPlan!vars
<1>0. upgradeTasks \in Seq(UpgradeTask)
  BY DEF RolloutHolds
<1>1. CASE (\E n \in Requested : StartNodeUpgrade(n)) \/ PromoteArtifact \/ RestartController
  BY <1>1, StutterMaps DEF StartNodeUpgrade, PromoteArtifact, RestartController
<1>2. CASE StartAllUpgrades
  BY <1>2, StartAllMaps DEF RolloutPlan!Next
<1>3. CASE PauseRollout \/ ArtifactChanged
  <2>1. rollout.state = "running" /\ SetRollout([rollout EXCEPT !.state = "paused"])
    BY <1>3 DEF RolloutHolds, DriverSound, PauseRollout, ArtifactChanged
  <2> QED BY <2>1, PauseMaps DEF RolloutPlan!Next
<1>4. CASE ResumeRollout
  BY <1>4, ResumeMaps DEF RolloutPlan!Next
<1>5. CASE CancelRollout
  BY <1>5, CancelMaps DEF RolloutPlan!Next
<1>6. CASE ReconcileUpgrades
  BY <1>0, <1>6, ReconcileRewrites, StutterMaps
<1>7. CASE SaveObserved
  BY <1>7, SaveMaps DEF RolloutPlan!Next
<1>8. CASE DispatchFirst \/ DispatchNext \/ EndReconcileRollout
  BY <1>8, DispatchFirstMaps, DispatchNextMaps, EndMaps
<1>9. CASE BeginReconcileRollout \/ \E i \in DOMAIN NodeOrder : ObserveMember(i)
  <2>1. UNCHANGED rollout
    BY <1>9 DEF BeginReconcileRollout, ObserveMember, MemberTaskOpen, MemberTaskFailed, MemberNotReady,
                MemberUnhealthy, MemberHealthy, MemberVerified, Conclude
  <2> QED BY <2>1, StutterMaps
<1>10. CASE \E n \in EdgeNodes : EdgeHeartbeat(n) \/ EdgeWorks(n) \/ EdgeFails(n)
  BY <1>0, <1>10, EdgeRewrites, StutterMaps
<1>11. CASE UNCHANGED upgradeVars
  BY <1>11, StutterMaps DEF upgradeVars
<1> QED BY <1>1, <1>2, <1>3, <1>4, <1>5, <1>6, <1>7, <1>8, <1>9, <1>10, <1>11
        DEF UpgradesNext, UpgradeRequest, RolloutStep

\* Every step of the controller, of the agents and of their installers is a step of
\* a staged rollout, or none: the canary goes first, at most MaxParallel nodes are
\* in flight, nothing is started unless the rollout moves, a failure stops it.
THEOREM RolloutsAreStaged == UpgradesSpec => RolloutStaged
<1>1. UpgradesInit => RolloutPlan!Init
  BY PlanInit
<1>2. RolloutHolds /\ [UpgradesNext]_upgradeVars => [RolloutPlan!Next]_RolloutPlan!vars
  BY PlanNext
<1> QED BY <1>1, <1>2, RolloutHoldsAlways, PTL DEF UpgradesSpec, RolloutStaged, RolloutPlan!Spec

-----------------------------------------------------------------------------
(* Nodes: a step of the agent, of the installer, or about one task.        *)

LEMMA EdgeFields ==
  ASSUME EdgesTyped, NEW n \in EdgeNodes
  PROVE  /\ edges[n] \in EdgeRow /\ heard[n] \in HeardRow /\ hasRun[n] \in SUBSET Versions
         /\ edges[n].task \in TaskIDs /\ edges[n].runs \in Versions /\ edges[n].backup \in Versions
         /\ edges[n].result \in {"none", "succeeded", "failed", "interrupted"}
         /\ heard[n].version \in Versions
<1>1. edges[n] \in EdgeRow /\ heard[n] \in HeardRow /\ hasRun[n] \in SUBSET Versions
  BY DEF EdgesTyped
<1> QED BY <1>1 DEF EdgeRow, HeardRow

\* What a step makes of a task t of node n: e, h and r are what n's edge runs, what
\* was heard of it and what it has run, after the step.
TaskSettles(t, task, h, r) ==
  LET old == upgradeTasks[t] IN
  /\ task \in UpgradeTask /\ task.node = old.node /\ task.target = old.target
  /\ task.status \in Open => old.status \in Open
  /\ old.status = "succeeded" => task.status = "succeeded"
  /\ task.status = "succeeded" /\ old.status # "succeeded" => task.target \in r /\ ~h.fresh

\* Every task of node n is as before, but perhaps one.
TasksSettle(n, h, r) ==
  \/ upgradeTasks' = upgradeTasks
  \/ \E t \in TasksOf(n) : \E task : TaskSettles(t, task, h, r) /\ upgradeTasks' = [upgradeTasks EXCEPT ![t] = task]

LEMMA SettledTasks ==
  ASSUME upgradeTasks \in Seq(UpgradeTask), NEW n, NEW h, NEW r, TasksSettle(n, h, r)
  PROVE  /\ DOMAIN upgradeTasks' = DOMAIN upgradeTasks
         /\ \A t \in DOMAIN upgradeTasks :
              /\ upgradeTasks'[t].node = upgradeTasks[t].node
              /\ upgradeTasks'[t].target = upgradeTasks[t].target
              /\ upgradeTasks'[t].status \in Open => upgradeTasks[t].status \in Open
              /\ upgradeTasks[t].status = "succeeded" => upgradeTasks'[t].status = "succeeded"
              /\ upgradeTasks'[t].status = "succeeded" /\ upgradeTasks[t].status # "succeeded" =>
                   upgradeTasks[t].node = n /\ upgradeTasks[t].target \in r /\ ~h.fresh
<1>1. CASE upgradeTasks' = upgradeTasks
  BY <1>1
<1>2. CASE \E t \in TasksOf(n) : \E task :
             TaskSettles(t, task, h, r) /\ upgradeTasks' = [upgradeTasks EXCEPT ![t] = task]
  <2>0. PICK t \in TasksOf(n) : \E task :
          TaskSettles(t, task, h, r) /\ upgradeTasks' = [upgradeTasks EXCEPT ![t] = task]
    BY <1>2
  <2>1. PICK task : TaskSettles(t, task, h, r) /\ upgradeTasks' = [upgradeTasks EXCEPT ![t] = task]
    BY <2>0
  <2>2. t \in DOMAIN upgradeTasks /\ upgradeTasks[t].node = n /\ task \in UpgradeTask
    BY <2>1 DEF TasksOf, TaskSettles
  <2>3. /\ DOMAIN upgradeTasks' = DOMAIN upgradeTasks /\ upgradeTasks'[t] = task
        /\ \A u \in DOMAIN upgradeTasks : u # t => upgradeTasks'[u] = upgradeTasks[u]
    BY <2>1, <2>2, TaskUpdate
  <2> QED BY <2>1, <2>2, <2>3 DEF TaskSettles
<1> QED BY <1>1, <1>2 DEF TasksSettle

\* The tasks of a node and their order stay.
LEMMA SettledOrder ==
  ASSUME DOMAIN upgradeTasks' = DOMAIN upgradeTasks,
         \A t \in DOMAIN upgradeTasks : upgradeTasks'[t].node = upgradeTasks[t].node
  PROVE  /\ \A n : TasksOf(n)' = TasksOf(n)
         /\ \A t \in DOMAIN upgradeTasks : IsLatest(t)' <=> IsLatest(t)
<1>1. \A n : TasksOf(n)' = TasksOf(n)
  BY DEF TasksOf
<1>2. ASSUME NEW t \in DOMAIN upgradeTasks PROVE IsLatest(t)' <=> IsLatest(t)
  <2>1. IsLatest(t)' <=> \A u \in DOMAIN upgradeTasks' : upgradeTasks'[u].node = upgradeTasks'[t].node => u <= t
    BY DEF IsLatest, TasksOf
  <2>2. IsLatest(t) <=> \A u \in DOMAIN upgradeTasks : upgradeTasks[u].node = upgradeTasks[t].node => u <= t
    BY DEF IsLatest, TasksOf
  <2> QED BY <2>1, <2>2
<1> QED BY <1>1, <1>2

\* A node with no open task and no upgrade in progress is left alone.
NodeRests(n, e) ==
  edges[n].task = NoUpgradeTask /\ InstructionFor(n) = {} =>
    e.task = NoUpgradeTask /\ e.runs = edges[n].runs

\* Members stay sound when their tasks only settle and their nodes rest.
LEMMA MemberKept ==
  ASSUME upgradeTasks \in Seq(UpgradeTask), OpenIsLatest,
         NEW m, NEW target, MemberSound(m, target),
         DOMAIN upgradeTasks' = DOMAIN upgradeTasks,
         \A t \in DOMAIN upgradeTasks :
           /\ upgradeTasks'[t].node = upgradeTasks[t].node
           /\ upgradeTasks'[t].target = upgradeTasks[t].target
           /\ upgradeTasks[t].status = "succeeded" => upgradeTasks'[t].status = "succeeded",
         NodeRests(m.node, edges'[m.node])
  PROVE  MemberSound(m, target)'
<1>1. /\ \A n : TasksOf(n)' = TasksOf(n)
      /\ \A t \in DOMAIN upgradeTasks : IsLatest(t)' <=> IsLatest(t)
  BY SettledOrder
<1>2. ASSUME m.task # NoUpgradeTask
      PROVE  m.task \in TasksOf(m.node)' /\ IsLatest(m.task)' /\ upgradeTasks'[m.task].target = target
  <2>1. m.task \in TasksOf(m.node) /\ IsLatest(m.task) /\ upgradeTasks[m.task].target = target
    BY <1>2 DEF MemberSound
  <2>2. m.task \in DOMAIN upgradeTasks
    BY <2>1 DEF TasksOf
  <2> QED BY <1>1, <2>1, <2>2
<1>3. ASSUME m.state = "succeeded"
      PROVE  /\ m.task # NoUpgradeTask /\ upgradeTasks'[m.task].status = "succeeded"
             /\ edges'[m.node].task = NoUpgradeTask /\ edges'[m.node].runs = target
  <2>1. /\ m.task # NoUpgradeTask /\ upgradeTasks[m.task].status = "succeeded"
        /\ edges[m.node].task = NoUpgradeTask /\ edges[m.node].runs = target
        /\ m.task \in TasksOf(m.node) /\ IsLatest(m.task)
    BY <1>3 DEF MemberSound
  <2>2. m.task \in DOMAIN upgradeTasks /\ upgradeTasks[m.task].node = m.node
    BY <2>1 DEF TasksOf
  <2>3. InstructionFor(m.node) = {}
    <3> SUFFICES ASSUME NEW t \in TasksOf(m.node), upgradeTasks[t].status \in Open PROVE FALSE
      BY DEF InstructionFor
    <3>1. t \in DOMAIN upgradeTasks /\ upgradeTasks[t].node = m.node
      BY DEF TasksOf
    <3>2. m.task <= t
      BY <2>1, <3>1 DEF OpenIsLatest, IsLatest
    <3>3. t <= m.task
      BY <2>1, <2>2 DEF IsLatest
    <3>4. t = m.task
      BY <2>2, <3>1, <3>2, <3>3, EachTask
    <3> QED BY <2>1, <3>4 DEF Open
  <2> QED BY <2>1, <2>2, <2>3 DEF NodeRests
<1> QED BY <1>2, <1>3 DEF MemberSound

\* The step of one node: what its edge, the heard and the history become.
NodeStep(n, e, h, r) ==
  /\ e \in EdgeRow /\ h \in HeardRow /\ r \in SUBSET Versions
  /\ edges' = [edges EXCEPT ![n] = e] /\ heard' = [heard EXCEPT ![n] = h]
  /\ hasRun' = [hasRun EXCEPT ![n] = r]
  /\ disturbances' \in 0..MaxDisturbances
  /\ TasksSettle(n, h, r)
  /\ hasRun[n] \subseteq r /\ e.runs \in r /\ e.backup \in r /\ h.version \in r
  /\ IF e.task = NoUpgradeTask THEN e.stage = "none" /\ e.installer = "off" /\ e.result = "none"
     ELSE e.task \in TasksOf(n)
  /\ NodeRests(n, e)

\* ... keeps what is true of the node if the last heartbeat still tells the truth.
HeardStill(n, e, h) ==
  h.fresh /\ h.active = NoUpgradeTask =>
    \A t \in TasksOf(n) : IsLatest(t) /\ upgradeTasks'[t].status = "succeeded" =>
      e.task = NoUpgradeTask /\ e.runs = h.version

LEMMA NodeStepHolds ==
  ASSUME UpgradesInv, NEW n \in EdgeNodes, NEW e, NEW h, NEW r,
         NodeStep(n, e, h, r), HeardStill(n, e, h), UNCHANGED <<artifact, rollout, driver>>
  PROVE  UpgradesInv'
<1>0. /\ RolloutHolds /\ EdgesTyped /\ NodesSound /\ CopiesSound /\ upgradeTasks \in Seq(UpgradeTask)
      /\ rollout \in Rollout /\ driver \in Drivers /\ artifact \in Versions
  BY DEF UpgradesInv, RolloutHolds
<1>1. /\ edges' \in [EdgeNodes -> EdgeRow] /\ edges'[n] = e
      /\ heard' \in [EdgeNodes -> HeardRow] /\ heard'[n] = h
      /\ hasRun' \in [EdgeNodes -> SUBSET Versions] /\ hasRun'[n] = r
      /\ \A m \in EdgeNodes : m # n => edges'[m] = edges[m] /\ heard'[m] = heard[m] /\ hasRun'[m] = hasRun[m]
  BY <1>0 DEF NodeStep, EdgesTyped
<1>2. EdgesTyped'
  BY <1>1 DEF EdgesTyped, NodeStep
<1>3. TasksSettle(n, h, r)
  BY DEF NodeStep
<1>4. /\ DOMAIN upgradeTasks' = DOMAIN upgradeTasks
      /\ \A t \in DOMAIN upgradeTasks :
           /\ upgradeTasks'[t].node = upgradeTasks[t].node
           /\ upgradeTasks'[t].target = upgradeTasks[t].target
           /\ upgradeTasks'[t].status \in Open => upgradeTasks[t].status \in Open
           /\ upgradeTasks[t].status = "succeeded" => upgradeTasks'[t].status = "succeeded"
           /\ upgradeTasks'[t].status = "succeeded" /\ upgradeTasks[t].status # "succeeded" =>
                upgradeTasks[t].node = n /\ upgradeTasks[t].target \in r /\ ~h.fresh
  BY <1>0, <1>3, SettledTasks
<1>5. /\ \A m : TasksOf(m)' = TasksOf(m)
      /\ \A t \in DOMAIN upgradeTasks : IsLatest(t)' <=> IsLatest(t)
  BY <1>4, SettledOrder
<1>6. RolloutHolds'
  <2>1. TasksRewritten
    BY <1>3 DEF TasksSettle, TasksRewritten, TaskSettles, TasksOf
  <2> QED BY <1>0, <2>1, RewrittenHolds
<1>7. OpenIsLatest'
  BY <1>0, <1>4, <1>5 DEF OpenIsLatest, NodesSound
<1>8. SucceededHasRun'
  <2> SUFFICES ASSUME NEW t \in DOMAIN upgradeTasks, upgradeTasks'[t].status = "succeeded"
               PROVE  upgradeTasks[t].target \in hasRun'[upgradeTasks[t].node]
    BY <1>4 DEF SucceededHasRun
  <2>1. upgradeTasks[t].node \in EdgeNodes
    BY <1>0, EachTask, TaskStatus
  <2>2. CASE upgradeTasks[t].status = "succeeded"
    <3>1. upgradeTasks[t].target \in hasRun[upgradeTasks[t].node]
      BY <1>0, <2>2 DEF NodesSound, SucceededHasRun
    <3>2. hasRun[n] \subseteq r
      BY DEF NodeStep
    <3> QED BY <1>1, <2>1, <3>1, <3>2
  <2>3. CASE upgradeTasks[t].status # "succeeded"
    BY <1>1, <1>4, <2>3
  <2> QED BY <2>2, <2>3
<1>9. ASSUME NEW m \in EdgeNodes PROVE EdgeSound(m)' /\ HeardTruth(m)'
  <2>1. CASE m = n
    <3>1. EdgeSound(n)'
      BY <1>1, <1>5 DEF EdgeSound, NodeStep
    <3>2. HeardTruth(n)'
      <4>1. \A t \in TasksOf(n) : t \in DOMAIN upgradeTasks
        BY DEF TasksOf
      <4> QED BY <1>1, <1>5, <4>1 DEF HeardTruth, HeardStill
    <3> QED BY <2>1, <3>1, <3>2
  <2>2. CASE m # n
    <3>1. edges'[m] = edges[m] /\ heard'[m] = heard[m] /\ hasRun'[m] = hasRun[m]
      BY <1>1, <2>2
    <3>2. EdgeSound(m) /\ HeardTruth(m)
      BY <1>0 DEF NodesSound
    <3>3. EdgeSound(m)'
      BY <1>5, <3>1, <3>2 DEF EdgeSound
    <3>4. \A t \in TasksOf(m) : t \in DOMAIN upgradeTasks /\ upgradeTasks[t].node = m
      BY DEF TasksOf
    <3>5. \A t \in TasksOf(m) : upgradeTasks'[t].status = "succeeded" => upgradeTasks[t].status = "succeeded"
      BY <1>4, <2>2, <3>4
    <3>6. HeardTruth(m)'
      BY <1>5, <3>1, <3>2, <3>4, <3>5 DEF HeardTruth
    <3> QED BY <3>3, <3>6
  <2> QED BY <2>1, <2>2
<1>10. \A m \in EdgeNodes : NodeRests(m, edges'[m])
  BY <1>1 DEF NodeRests, NodeStep
<1>11. ASSUME NEW row \in Rollout, MembersSound(row) PROVE MembersSound(row)'
  <2> SUFFICES ASSUME NEW i \in DOMAIN row.members PROVE MemberSound(row.members[i], row.target)'
    BY DEF MembersSound
  <2>1. MemberSound(row.members[i], row.target) /\ row.members[i].node \in EdgeNodes
    BY <1>11, RolloutRow DEF MembersSound
  <2> QED BY <1>0, <1>4, <1>10, <2>1, MemberKept DEF NodesSound
<1>12. CopiesSound'
  <2>1. ActiveRollout' => MembersSound(rollout)'
    <3>1. ActiveRollout' <=> ActiveRollout
      BY DEF ActiveRollout
    <3> QED BY <1>0, <1>11, <3>1 DEF CopiesSound
  <2>2. driver'.pc \in {"observe", "save"} => MembersSound(driver.work)'
    <3>1. driver.work \in Rollout
      BY <1>0, DriverFields
    <3> QED BY <1>0, <1>11, <3>1 DEF CopiesSound
  <2> QED BY <2>1, <2>2 DEF CopiesSound
<1> QED BY <1>2, <1>6, <1>7, <1>8, <1>9, <1>12 DEF UpgradesInv, NodesSound

\* What was heard stays true when the edge stays as it is, and cannot have been
\* heard of an edge that has an upgrade in progress.
LEMMA HeardKept ==
  ASSUME UpgradesInv, NEW n \in EdgeNodes, NEW e, NEW h, NEW r, TasksSettle(n, h, r),
         h.fresh => heard[n].fresh, h.active = heard[n].active, h.version = heard[n].version,
         edges[n].task # NoUpgradeTask \/ (e.task = edges[n].task /\ e.runs = edges[n].runs)
  PROVE  HeardStill(n, e, h)
<1>0. upgradeTasks \in Seq(UpgradeTask) /\ HeardTruth(n)
  BY DEF UpgradesInv, RolloutHolds, NodesSound
<1> SUFFICES ASSUME h.fresh, h.active = NoUpgradeTask, NEW t \in TasksOf(n), IsLatest(t),
                    upgradeTasks'[t].status = "succeeded"
             PROVE  e.task = NoUpgradeTask /\ e.runs = h.version
  BY DEF HeardStill
<1>1. t \in DOMAIN upgradeTasks
  BY DEF TasksOf
<1>2. upgradeTasks[t].status = "succeeded"
  BY <1>0, <1>1, SettledTasks
<1>3. edges[n].task = NoUpgradeTask /\ edges[n].runs = heard[n].version
  BY <1>0, <1>2 DEF HeardTruth
<1> QED BY <1>3

LEMMA KnownTasks ==
  ASSUME RolloutHolds
  PROVE  \A t \in DOMAIN upgradeTasks : t \in TaskIDs /\ t # NoUpgradeTask
<1> TAKE t \in DOMAIN upgradeTasks
<1>1. upgradeTasks \in Seq(UpgradeTask) /\ rollout \in Rollout /\ TasksFit
  BY DEF RolloutHolds
<1>2. t \in 1..Len(upgradeTasks) /\ Len(upgradeTasks) \in Nat
  BY <1>1, LenProperties
<1>3. /\ 0 + Len(upgradeTasks) + Cardinality(WaitingMembers(rollout)) <= MaxUpgradeTasks
      /\ Cardinality(WaitingMembers(rollout)) \in Nat
  BY <1>1, RoomNumbers DEF TasksFit
<1> QED BY <1>2, <1>3, UpgradeAssumption DEF TaskIDs, NoUpgradeTask

\* A step of one edge that has an upgrade in progress, and goes on with it.
LEMMA EdgeOnlyHolds ==
  ASSUME UpgradesInv, NEW n \in EdgeNodes, NEW e \in EdgeRow, Edge(n, e), OnlyEdge,
         disturbances' \in 0..MaxDisturbances, edges[n].task # NoUpgradeTask,
         e.task = edges[n].task, e.runs \in hasRun[n], e.backup \in hasRun[n]
  PROVE  UpgradesInv'
<1> DEFINE h == heard[n]
           r == hasRun[n]
<1>1. EdgesTyped /\ EdgeSound(n)
  BY DEF UpgradesInv, NodesSound
<1>2. h \in HeardRow /\ r \in SUBSET Versions
  BY <1>1, EdgeFields
<1>3. heard' = [heard EXCEPT ![n] = h] /\ hasRun' = [hasRun EXCEPT ![n] = r]
  BY <1>1 DEF EdgesTyped, OnlyEdge
<1>4. TasksSettle(n, h, r)
  BY DEF TasksSettle, OnlyEdge
<1>5. h.version \in r /\ edges[n].task \in TasksOf(n)
  BY <1>1 DEF EdgeSound
<1>6. HeardStill(n, e, h)
  BY <1>4, HeardKept
<1> HIDE DEF h, r
<1>7. NodeRests(n, e)
  BY DEF NodeRests
<1>8. NodeStep(n, e, h, r)
  BY <1>2, <1>3, <1>4, <1>5, <1>7 DEF NodeStep, Edge, r
<1> QED BY <1>6, <1>8, NodeStepHolds DEF OnlyEdge

LEMMA DisturbanceBound ==
  ASSUME UpgradesInv, Disturbance \/ UNCHANGED disturbances
  PROVE  disturbances' \in 0..MaxDisturbances
BY UpgradeAssumption DEF UpgradesInv, EdgesTyped, Disturbance

\* An edge at work has a task.
LEMMA EdgeAtWork ==
  ASSUME UpgradesInv, NEW n \in EdgeNodes,
         edges[n].stage # "none" \/ edges[n].installer # "off" \/ edges[n].result # "none"
  PROVE  edges[n].task # NoUpgradeTask /\ edges[n].task \in TasksOf(n) /\ edges[n].task \in DOMAIN upgradeTasks
<1>1. EdgeSound(n)
  BY DEF UpgradesInv, NodesSound
<1> QED BY <1>1 DEF EdgeSound, TasksOf

\* Fields of an edge other than its task and what it runs.
LEMMA EdgeChanges ==
  ASSUME NEW e \in EdgeRow
  PROVE  /\ \A result \in {"succeeded", "failed", "interrupted"} :
              /\ [e EXCEPT !.result = result] \in EdgeRow
              /\ [e EXCEPT !.result = result].task = e.task
              /\ [e EXCEPT !.result = result].runs = e.runs
              /\ [e EXCEPT !.result = result].backup = e.backup
         /\ \A doubt \in BOOLEAN :
              /\ [e EXCEPT !.doubt = doubt] \in EdgeRow
              /\ [e EXCEPT !.doubt = doubt].task = e.task
              /\ [e EXCEPT !.doubt = doubt].runs = e.runs
              /\ [e EXCEPT !.doubt = doubt].backup = e.backup
BY DEF EdgeRow

LEMMA EdgeWorkHolds ==
  ASSUME UpgradesInv, NEW n \in EdgeNodes,
         StagingFails(n) \/ StagingCutOff(n) \/ StartInstaller(n) \/ CommitInstall(n)
           \/ RollBack(n) \/ WriteFailure(n) \/ InstallerDies(n) \/ ObserveInstaller(n)
  PROVE  UpgradesInv'
<1> DEFINE e == edges[n]
<1>1. e \in EdgeRow /\ e.runs \in hasRun[n] /\ e.backup \in hasRun[n]
  BY EdgeFields DEF UpgradesInv, NodesSound, EdgeSound
<1>2. disturbances' \in 0..MaxDisturbances /\ OnlyEdge /\ e.task # NoUpgradeTask
  BY DisturbanceBound, EdgeAtWork
     DEF StagingFails, StagingCutOff, StartInstaller, CommitInstall, RollBack, WriteFailure,
         InstallerDies, ObserveInstaller
<1>3. CASE StagingFails(n)
  <2> DEFINE new == [e EXCEPT !.result = "failed", !.stage = "launched"]
  <2>1. new \in EdgeRow /\ new.task = e.task /\ new.runs = e.runs /\ new.backup = e.backup
    BY <1>1 DEF EdgeRow
  <2>2. Edge(n, new)
    BY <1>3 DEF StagingFails
  <2> HIDE DEF new
  <2> QED BY <1>1, <1>2, <2>1, <2>2, EdgeOnlyHolds
<1>4. CASE StagingCutOff(n)
  <2> DEFINE stage == IF e.stage = "staging" THEN "prepared" ELSE "launched"
             new == [e EXCEPT !.stage = stage]
  <2>1. stage \in {"prepared", "launched"} /\ Edge(n, new)
    BY <1>4 DEF StagingCutOff
  <2> HIDE DEF stage
  <2>2. new \in EdgeRow /\ new.task = e.task /\ new.runs = e.runs /\ new.backup = e.backup
    BY <1>1, <2>1 DEF EdgeRow
  <2> HIDE DEF new
  <2> QED BY <1>1, <1>2, <2>1, <2>2, EdgeOnlyHolds
<1>5. CASE StartInstaller(n)
  <2> DEFINE new == [e EXCEPT !.stage = "launched", !.installer = "begin"]
  <2>1. new \in EdgeRow /\ new.task = e.task /\ new.runs = e.runs /\ new.backup = e.backup
    BY <1>1 DEF EdgeRow
  <2>2. Edge(n, new)
    BY <1>5 DEF StartInstaller
  <2> HIDE DEF new
  <2> QED BY <1>1, <1>2, <2>1, <2>2, EdgeOnlyHolds
<1>6. CASE CommitInstall(n)
  <2> DEFINE new == [e EXCEPT !.installer = "off", !.result = "succeeded"]
  <2>1. new \in EdgeRow /\ new.task = e.task /\ new.runs = e.runs /\ new.backup = e.backup
    BY <1>1 DEF EdgeRow
  <2>2. Edge(n, new)
    BY <1>6 DEF CommitInstall
  <2> HIDE DEF new
  <2> QED BY <1>1, <1>2, <2>1, <2>2, EdgeOnlyHolds
<1>7. CASE RollBack(n)
  <2> DEFINE runs == IF e.installer = "wait" THEN e.backup ELSE e.runs
             new == [e EXCEPT !.runs = runs, !.installer = "report"]
  <2>1. Edge(n, new) /\ runs \in {e.backup, e.runs}
    BY <1>7 DEF RollBack
  <2> HIDE DEF runs
  <2>2. new \in EdgeRow /\ new.task = e.task /\ new.runs = runs /\ new.backup = e.backup
    BY <1>1, <2>1 DEF EdgeRow
  <2> HIDE DEF new
  <2> QED BY <1>1, <1>2, <2>1, <2>2, EdgeOnlyHolds
<1>8. CASE WriteFailure(n)
  <2> DEFINE new == [e EXCEPT !.installer = "off", !.result = "failed"]
  <2>1. new \in EdgeRow /\ new.task = e.task /\ new.runs = e.runs /\ new.backup = e.backup
    BY <1>1 DEF EdgeRow
  <2>2. Edge(n, new)
    BY <1>8 DEF WriteFailure
  <2> HIDE DEF new
  <2> QED BY <1>1, <1>2, <2>1, <2>2, EdgeOnlyHolds
<1>9. CASE InstallerDies(n)
  <2> DEFINE new == [e EXCEPT !.installer = "off"]
  <2>1. new \in EdgeRow /\ new.task = e.task /\ new.runs = e.runs /\ new.backup = e.backup
    BY <1>1 DEF EdgeRow
  <2>2. Edge(n, new)
    BY <1>9 DEF InstallerDies
  <2> HIDE DEF new
  <2> QED BY <1>1, <1>2, <2>1, <2>2, EdgeOnlyHolds
<1>10. CASE ObserveInstaller(n)
  <2>1. Edge(n, [e EXCEPT !.result = "interrupted"]) \/ Edge(n, [e EXCEPT !.doubt = FALSE])
          \/ Edge(n, [e EXCEPT !.doubt = TRUE])
    BY <1>10 DEF ObserveInstaller
  <2>2. \E new \in EdgeRow : /\ Edge(n, new) /\ new.task = e.task /\ new.runs = e.runs
                             /\ new.backup = e.backup
    BY <1>1, <2>1, EdgeChanges
  <2> QED BY <1>1, <1>2, <2>2, EdgeOnlyHolds
<1> QED BY <1>3, <1>4, <1>5, <1>6, <1>7, <1>8, <1>9, <1>10

\* The edge of a node with no upgrade in progress, whichever it was rid of.
LEMMA IdleEdgeRow ==
  ASSUME NEW runs \in Versions
  PROVE  /\ IdleEdge(runs) \in EdgeRow
         /\ IdleEdge(runs).task = NoUpgradeTask /\ IdleEdge(runs).runs = runs /\ IdleEdge(runs).backup = runs
         /\ IdleEdge(runs).stage = "none" /\ IdleEdge(runs).installer = "off" /\ IdleEdge(runs).result = "none"
         /\ \A t \in TaskIDs :
              LET e == [IdleEdge(runs) EXCEPT !.task = t, !.stage = "staging"] IN
              /\ e \in EdgeRow /\ e.task = t /\ e.runs = runs /\ e.backup = runs
<1>1. NoUpgradeTask \in TaskIDs
  BY UpgradeAssumption DEF NoUpgradeTask, TaskIDs
<1> QED BY <1>1 DEF IdleEdge, EdgeRow

LEMMA HeartbeatHolds ==
  ASSUME UpgradesInv, NEW n \in EdgeNodes, EdgeHeartbeat(n)
  PROVE  UpgradesInv'
<1> DEFINE e == edges[n]
           ready == e.ready \/ (e.task # NoUpgradeTask /\ e.runs = upgradeTasks[e.task].target)
           new == [e EXCEPT !.ready = ready]
           h == [version |-> e.runs, active |-> e.task, fresh |-> TRUE]
           r == hasRun[n]
<1>1. EdgesTyped /\ EdgeSound(n) /\ e \in EdgeRow /\ e.task \in TaskIDs /\ e.runs \in Versions
      /\ r \in SUBSET Versions
  BY EdgeFields DEF UpgradesInv, NodesSound
<1>2. ready \in BOOLEAN
  BY <1>1 DEF EdgeRow
<1>3. edges' = [edges EXCEPT ![n] = new] /\ heard' = [heard EXCEPT ![n] = h]
      /\ UNCHANGED <<artifact, rollout, driver, upgradeTasks, disturbances, hasRun>>
  BY DEF EdgeHeartbeat, Edge
<1> HIDE DEF ready
<1>4. /\ new \in EdgeRow /\ new.task = e.task /\ new.runs = e.runs /\ new.backup = e.backup
      /\ new.stage = e.stage /\ new.installer = e.installer /\ new.result = e.result
  BY <1>1, <1>2 DEF EdgeRow
<1>5. /\ h \in HeardRow /\ h.version = e.runs /\ h.active = e.task
  BY <1>1 DEF HeardRow
<1>6. hasRun' = [hasRun EXCEPT ![n] = r] /\ disturbances' \in 0..MaxDisturbances
  BY <1>1, <1>3 DEF EdgesTyped
<1> HIDE DEF new, h
<1>7. TasksSettle(n, h, r)
  BY <1>3 DEF TasksSettle
<1>8. HeardStill(n, new, h)
  BY <1>4, <1>5 DEF HeardStill
<1>9. NodeRests(n, new)
  BY <1>4 DEF NodeRests
<1>10. NodeStep(n, new, h, r)
  BY <1>1, <1>3, <1>4, <1>5, <1>6, <1>7, <1>9 DEF NodeStep, EdgeSound
<1> QED BY <1>3, <1>8, <1>10, NodeStepHolds

\* An open task is the latest of its node, and there is one at most.
LEMMA OneInstruction ==
  ASSUME UpgradesInv, NEW n, NEW t \in InstructionFor(n)
  PROVE  /\ t \in TasksOf(n) /\ t \in DOMAIN upgradeTasks /\ upgradeTasks[t] \in UpgradeTask
         /\ upgradeTasks[t].node = n /\ n \in EdgeNodes /\ upgradeTasks[t].status \in Open
         /\ t \in TaskIDs /\ t # NoUpgradeTask
         /\ \A u \in TasksOf(n) : IsLatest(u) => u = t
<1>1. upgradeTasks \in Seq(UpgradeTask) /\ RolloutHolds
  BY DEF UpgradesInv, RolloutHolds
<1>2. /\ t \in TasksOf(n) /\ t \in DOMAIN upgradeTasks /\ upgradeTasks[t].node = n
      /\ upgradeTasks[t].status \in Open
  BY DEF InstructionFor, TasksOf
<1>3. upgradeTasks[t] \in UpgradeTask /\ n \in EdgeNodes
  BY <1>1, <1>2, EachTask, TaskStatus
<1>4. IsLatest(t)
  BY <1>2 DEF UpgradesInv, NodesSound, OpenIsLatest
<1>5. ASSUME NEW u \in TasksOf(n), IsLatest(u) PROVE u = t
  <2>1. u \in DOMAIN upgradeTasks /\ upgradeTasks[u].node = n
    BY DEF TasksOf
  <2>2. u <= t /\ t <= u
    BY <1>2, <1>4, <1>5, <2>1 DEF IsLatest
  <2>3. u \in Nat /\ t \in Nat
    BY <1>1, <1>2, <2>1, EachTask
  <2> QED BY <2>2, <2>3
<1> QED BY <1>1, <1>2, <1>3, <1>5, KnownTasks

LEMMA BeginStagingHolds ==
  ASSUME UpgradesInv, NEW n \in EdgeNodes, BeginStaging(n)
  PROVE  UpgradesInv'
<1>1. PICK t \in InstructionFor(n) :
        /\ edges[n].task = NoUpgradeTask
        /\ Edge(n, [IdleEdge(edges[n].runs) EXCEPT !.task = t, !.stage = "staging"])
        /\ OnlyEdge /\ UNCHANGED disturbances
  BY DEF BeginStaging
<1> DEFINE e == [IdleEdge(edges[n].runs) EXCEPT !.task = t, !.stage = "staging"]
           h == heard[n]
           r == hasRun[n]
<1>2. /\ EdgesTyped /\ EdgeSound(n) /\ edges[n].runs \in Versions /\ edges[n].runs \in r
      /\ h \in HeardRow /\ r \in SUBSET Versions /\ h.version \in r
  BY EdgeFields DEF UpgradesInv, NodesSound, EdgeSound
<1>3. /\ t \in TasksOf(n) /\ t \in DOMAIN upgradeTasks /\ t \in TaskIDs /\ t # NoUpgradeTask
      /\ upgradeTasks[t].status \in Open /\ \A u \in TasksOf(n) : IsLatest(u) => u = t
  BY OneInstruction
<1>4. e \in EdgeRow /\ e.task = t /\ e.runs = edges[n].runs /\ e.backup = edges[n].runs
  BY <1>2, <1>3, IdleEdgeRow
<1>5. /\ edges' = [edges EXCEPT ![n] = e] /\ heard' = [heard EXCEPT ![n] = h]
      /\ hasRun' = [hasRun EXCEPT ![n] = r] /\ disturbances' \in 0..MaxDisturbances
      /\ UNCHANGED <<artifact, rollout, driver, upgradeTasks>>
  BY <1>1, <1>2 DEF OnlyEdge, Edge, EdgesTyped
<1> HIDE DEF e, h, r
<1>6. TasksSettle(n, h, r)
  BY <1>5 DEF TasksSettle
<1>7. HeardStill(n, e, h)
  BY <1>3, <1>5 DEF HeardStill, Open
<1>8. NodeRests(n, e)
  BY DEF NodeRests
<1>9. NodeStep(n, e, h, r)
  BY <1>2, <1>3, <1>4, <1>5, <1>6, <1>8 DEF NodeStep, r
<1> QED BY <1>5, <1>7, <1>9, NodeStepHolds

\* A step that changes one task of a node, and makes what was heard of it count for
\* old when the task succeeds, leaves the edge as it is or makes it idle.
LEMMA TaskStepHolds ==
  ASSUME UpgradesInv, NEW n \in EdgeNodes, NEW t \in TasksOf(n), NEW task, NEW h \in HeardRow,
         NEW e \in {edges[n], IdleEdge(edges[n].runs)},
         TaskSettles(t, task, h, hasRun[n]),
         upgradeTasks' = [upgradeTasks EXCEPT ![t] = task],
         heard' = [heard EXCEPT ![n] = h], edges' = [edges EXCEPT ![n] = e],
         UNCHANGED <<artifact, rollout, driver, hasRun>>, disturbances' \in 0..MaxDisturbances,
         h.version = heard[n].version, h.active = heard[n].active, h.fresh => heard[n].fresh,
         e = edges[n] \/ edges[n].task # NoUpgradeTask
  PROVE  UpgradesInv'
<1> DEFINE r == hasRun[n]
<1>1. /\ EdgesTyped /\ EdgeSound(n) /\ edges[n] \in EdgeRow /\ edges[n].runs \in Versions
      /\ edges[n].runs \in r /\ edges[n].backup \in r
      /\ r \in SUBSET Versions /\ h.version \in r
  BY EdgeFields DEF UpgradesInv, NodesSound, EdgeSound
<1>2. hasRun' = [hasRun EXCEPT ![n] = r]
  BY <1>1 DEF EdgesTyped
<1>3. TasksSettle(n, h, r)
  BY DEF TasksSettle
<1>4. /\ e \in EdgeRow /\ e.runs = edges[n].runs /\ e.backup \in r
      /\ IF e.task = NoUpgradeTask THEN e.stage = "none" /\ e.installer = "off" /\ e.result = "none"
         ELSE e.task \in TasksOf(n)
  <2>1. CASE e = edges[n]
    BY <1>1, <2>1 DEF EdgeSound
  <2>2. CASE e = IdleEdge(edges[n].runs)
    BY <1>1, <2>2, IdleEdgeRow
  <2> QED BY <2>1, <2>2
<1>5. e = edges[n] \/ e.task = NoUpgradeTask
  BY <1>1, IdleEdgeRow
<1>6. HeardStill(n, e, h)
  BY <1>3, HeardKept
<1> HIDE DEF r
<1>7. NodeRests(n, e)
  BY <1>4, <1>5 DEF NodeRests
<1>8. NodeStep(n, e, h, r)
  BY <1>1, <1>2, <1>3, <1>4, <1>7 DEF NodeStep, r
<1> QED BY <1>6, <1>8, NodeStepHolds

LEMMA HeardChanges ==
  ASSUME NEW h \in HeardRow
  PROVE  \A fresh \in BOOLEAN :
           LET new == [h EXCEPT !.fresh = fresh] IN
           /\ new \in HeardRow /\ new.fresh = fresh /\ new.version = h.version /\ new.active = h.active
BY DEF HeardRow

\* What the lemmas about the tasks of a node start from.
LEMMA NodeFacts ==
  ASSUME UpgradesInv, NEW t \in DOMAIN upgradeTasks
  PROVE  LET n == upgradeTasks[t].node IN
         /\ n \in EdgeNodes /\ t \in TasksOf(n) /\ upgradeTasks[t] \in UpgradeTask
         /\ EdgesTyped /\ edges[n] \in EdgeRow /\ heard[n] \in HeardRow
         /\ edges[n].runs \in hasRun[n] /\ heard[n].version \in hasRun[n]
         /\ edges = [edges EXCEPT ![n] = edges[n]] /\ heard = [heard EXCEPT ![n] = heard[n]]
         /\ upgradeTasks[t].status = "succeeded" => upgradeTasks[t].target \in hasRun[n]
<1> DEFINE n == upgradeTasks[t].node
<1>1. upgradeTasks[t] \in UpgradeTask /\ n \in EdgeNodes
  BY EachTask, TaskStatus DEF UpgradesInv, RolloutHolds
<1>2. t \in TasksOf(n)
  BY DEF TasksOf
<1>3. EdgesTyped /\ EdgeSound(n) /\ SucceededHasRun
  BY <1>1 DEF UpgradesInv, NodesSound
<1> HIDE DEF n
<1>4. edges[n] \in EdgeRow /\ heard[n] \in HeardRow
  BY <1>1, <1>3, EdgeFields
<1>5. edges = [edges EXCEPT ![n] = edges[n]] /\ heard = [heard EXCEPT ![n] = heard[n]]
  BY <1>3 DEF EdgesTyped
<1>6. edges[n].runs \in hasRun[n] /\ heard[n].version \in hasRun[n]
  BY <1>3 DEF EdgeSound
<1>7. upgradeTasks[t].status = "succeeded" => upgradeTasks[t].target \in hasRun[n]
  BY <1>3 DEF SucceededHasRun, n
<1> QED BY <1>1, <1>2, <1>3, <1>4, <1>5, <1>6, <1>7 DEF n

LEMMA TimeoutHolds ==
  ASSUME UpgradesInv, NEW t \in DOMAIN upgradeTasks, TimeoutUpgrade(t)
  PROVE  UpgradesInv'
<1> DEFINE n == upgradeTasks[t].node
           h == heard[n]
           task == [upgradeTasks[t] EXCEPT !.status = "failed"]
<1>1. /\ n \in EdgeNodes /\ t \in TasksOf(n) /\ upgradeTasks[t] \in UpgradeTask /\ h \in HeardRow
      /\ edges = [edges EXCEPT ![n] = edges[n]] /\ heard = [heard EXCEPT ![n] = h]
  BY NodeFacts
<1>2. /\ task \in UpgradeTask /\ task.status = "failed" /\ task.node = n
      /\ task.target = upgradeTasks[t].target
  BY <1>1, TaskStatus DEF Failed
<1>3. /\ upgradeTasks[t].status \in Open /\ upgradeTasks' = [upgradeTasks EXCEPT ![t] = task]
      /\ UNCHANGED <<artifact, rollout, driver, heard, edges, hasRun, disturbances>>
  BY DEF TimeoutUpgrade
<1>4. disturbances' \in 0..MaxDisturbances
  BY <1>3, DisturbanceBound
<1> HIDE DEF task
<1>5. TaskSettles(t, task, h, hasRun[n])
  BY <1>2, <1>3 DEF TaskSettles, Open
<1> HIDE DEF n, h
<1>6. h = heard[n] /\ edges[n] \in {edges[n], IdleEdge(edges[n].runs)}
  BY DEF h
<1> QED BY <1>1, <1>3, <1>4, <1>5, <1>6, TaskStepHolds

LEMMA RepairHolds ==
  ASSUME UpgradesInv, NEW t \in DOMAIN upgradeTasks, RepairInterrupted(t)
  PROVE  UpgradesInv'
<1> DEFINE n == upgradeTasks[t].node
           h == [heard[n] EXCEPT !.fresh = FALSE]
           task == [upgradeTasks[t] EXCEPT !.status = "succeeded"]
<1>1. /\ n \in EdgeNodes /\ t \in TasksOf(n) /\ upgradeTasks[t] \in UpgradeTask /\ heard[n] \in HeardRow
      /\ edges = [edges EXCEPT ![n] = edges[n]] /\ heard[n].version \in hasRun[n]
  BY NodeFacts
<1>2. /\ task \in UpgradeTask /\ task.status = "succeeded" /\ task.node = n
      /\ task.target = upgradeTasks[t].target
  BY <1>1, TaskStatus
<1>3. h \in HeardRow /\ h.fresh = FALSE /\ h.version = heard[n].version /\ h.active = heard[n].active
  BY <1>1, HeardChanges
<1>4. /\ upgradeTasks[t].status = "interrupted" /\ upgradeTasks' = [upgradeTasks EXCEPT ![t] = task]
      /\ heard[n].version = upgradeTasks[t].target
      /\ heard' = [heard EXCEPT ![n] = h]
      /\ UNCHANGED <<artifact, rollout, driver, edges, hasRun, disturbances>>
  BY DEF RepairInterrupted
<1>5. disturbances' \in 0..MaxDisturbances
  BY <1>4, DisturbanceBound
<1> HIDE DEF task, h
<1>6. TaskSettles(t, task, h, hasRun[n])
  BY <1>1, <1>2, <1>3, <1>4 DEF TaskSettles, Open
<1> HIDE DEF n
<1>7. edges[n] \in {edges[n], IdleEdge(edges[n].runs)}
  OBVIOUS
<1> QED BY <1>1, <1>3, <1>4, <1>5, <1>6, <1>7, TaskStepHolds

LEMMA ReportCurrentHolds ==
  ASSUME UpgradesInv, NEW n \in EdgeNodes, ReportCurrent(n)
  PROVE  UpgradesInv'
<1>1. PICK t \in InstructionFor(n) :
        /\ edges[n].runs = upgradeTasks[t].target
        /\ upgradeTasks' = [upgradeTasks EXCEPT ![t] = ResultRecorded(@, "succeeded", edges[n].runs)]
        /\ heard' = [heard EXCEPT ![n].fresh = FALSE]
        /\ UNCHANGED <<artifact, rollout, driver, edges, hasRun, disturbances>>
  BY DEF ReportCurrent
<1> DEFINE h == [heard[n] EXCEPT !.fresh = FALSE]
           task == ResultRecorded(upgradeTasks[t], "succeeded", edges[n].runs)
<1>2. /\ t \in TasksOf(n) /\ t \in DOMAIN upgradeTasks /\ upgradeTasks[t] \in UpgradeTask
      /\ upgradeTasks[t].node = n
  BY OneInstruction
<1>3. /\ heard[n] \in HeardRow /\ edges = [edges EXCEPT ![n] = edges[n]] /\ edges[n].runs \in hasRun[n]
  BY <1>2, NodeFacts
<1>4. h \in HeardRow /\ h.fresh = FALSE /\ h.version = heard[n].version /\ h.active = heard[n].active
  BY <1>3, HeardChanges
<1>5. ResultOf(task, upgradeTasks[t], "succeeded", edges[n].runs)
  BY <1>2, TaskResult
<1>6. /\ upgradeTasks' = [upgradeTasks EXCEPT ![t] = task] /\ heard' = [heard EXCEPT ![n] = h]
      /\ edges' = [edges EXCEPT ![n] = edges[n]] /\ UNCHANGED <<artifact, rollout, driver, hasRun>>
  BY <1>1, <1>3
<1>7. disturbances' \in 0..MaxDisturbances
  BY <1>1, DisturbanceBound
<1> HIDE DEF task, h
<1>8. TaskSettles(t, task, h, hasRun[n])
  BY <1>1, <1>3, <1>4, <1>5 DEF TaskSettles, ResultOf, Open, Failed
<1>9. edges[n] \in {edges[n], IdleEdge(edges[n].runs)}
  OBVIOUS
<1> QED BY <1>2, <1>4, <1>6, <1>7, <1>8, <1>9, TaskStepHolds

LEMMA ReportResultHolds ==
  ASSUME UpgradesInv, NEW n \in EdgeNodes, ReportResult(n)
  PROVE  UpgradesInv'
<1> DEFINE t == edges[n].task
           result == edges[n].result
           fresh == heard[n].fresh /\ upgradeTasks[t].status = "succeeded" /\ result # "succeeded"
           h == [heard[n] EXCEPT !.fresh = fresh]
           task == ResultRecorded(upgradeTasks[t], result, heard[n].version)
<1>1. /\ result # "none"
      /\ result = "succeeded" => edges[n].runs = upgradeTasks[t].target
      /\ upgradeTasks' = [upgradeTasks EXCEPT ![t] = task] /\ heard' = [heard EXCEPT ![n] = h]
      /\ edges' = [edges EXCEPT ![n] = IdleEdge(edges[n].runs)] \/ UNCHANGED edges
      /\ UNCHANGED <<artifact, rollout, driver, hasRun>>
  BY DEF ReportResult, Edge
<1>2. edges[n].task # NoUpgradeTask /\ t \in TasksOf(n) /\ t \in DOMAIN upgradeTasks
  BY <1>1, EdgeAtWork
<1>3. upgradeTasks[t].node = n
  BY <1>2 DEF TasksOf
<1>4. /\ upgradeTasks[t] \in UpgradeTask /\ heard[n] \in HeardRow /\ heard[n].version \in hasRun[n]
      /\ edges = [edges EXCEPT ![n] = edges[n]] /\ edges[n].runs \in hasRun[n]
      /\ upgradeTasks[t].status = "succeeded" => upgradeTasks[t].target \in hasRun[n]
  BY <1>2, <1>3, NodeFacts
<1>5. result \in {"succeeded", "failed", "interrupted"}
  BY <1>1, EdgeFields DEF UpgradesInv
<1>6. ResultOf(task, upgradeTasks[t], result, heard[n].version)
  BY <1>4, <1>5, TaskResult
<1>7. fresh \in BOOLEAN /\ (fresh => heard[n].fresh /\ upgradeTasks[t].status = "succeeded")
  BY <1>4 DEF HeardRow
<1> HIDE DEF fresh
<1>8. /\ h \in HeardRow /\ h.version = heard[n].version /\ h.active = heard[n].active
      /\ h.fresh => heard[n].fresh /\ upgradeTasks[t].status = "succeeded"
  BY <1>4, <1>7, HeardChanges
<1>9. disturbances' \in 0..MaxDisturbances
  BY DisturbanceBound DEF ReportResult
<1> HIDE DEF task, h, result, t
<1>10. TaskSettles(t, task, h, hasRun[n])
  BY <1>1, <1>4, <1>5, <1>6, <1>8 DEF TaskSettles, ResultOf, Open, Failed
<1>11. PICK e \in {edges[n], IdleEdge(edges[n].runs)} : edges' = [edges EXCEPT ![n] = e]
  BY <1>1, <1>4
<1> QED BY <1>1, <1>2, <1>8, <1>9, <1>10, <1>11, TaskStepHolds

LEMMA ReportApplyingHolds ==
  ASSUME UpgradesInv, NEW n \in EdgeNodes, ReportApplying(n)
  PROVE  UpgradesInv'
<1> DEFINE t == edges[n].task
           status == IF upgradeTasks[t].status \in Open THEN "applying" ELSE upgradeTasks[t].status
           task == [upgradeTasks[t] EXCEPT !.status = status]
           e == [edges[n] EXCEPT !.stage = "launching"]
           h == heard[n]
           r == hasRun[n]
<1>1. /\ edges[n].stage = "staging"
      /\ upgradeTasks' = [upgradeTasks EXCEPT ![t] = task] /\ edges' = [edges EXCEPT ![n] = e]
      /\ UNCHANGED <<artifact, rollout, driver, heard, hasRun, disturbances>>
  BY DEF ReportApplying, Edge
<1>2. t # NoUpgradeTask /\ t \in TasksOf(n) /\ t \in DOMAIN upgradeTasks
  BY <1>1, EdgeAtWork
<1>3. upgradeTasks[t].node = n
  BY <1>2 DEF TasksOf
<1>4. /\ upgradeTasks[t] \in UpgradeTask /\ h \in HeardRow /\ h.version \in r /\ EdgesTyped
      /\ heard = [heard EXCEPT ![n] = h] /\ edges[n].runs \in r /\ edges[n] \in EdgeRow
  BY <1>2, <1>3, NodeFacts
<1>5. /\ r \in SUBSET Versions /\ hasRun = [hasRun EXCEPT ![n] = r] /\ edges[n].backup \in r
  BY <1>4, EdgeFields DEF EdgesTyped, UpgradesInv, NodesSound, EdgeSound
<1>6. /\ e \in EdgeRow /\ e.task = t /\ e.runs = edges[n].runs /\ e.backup = edges[n].backup
  BY <1>4 DEF EdgeRow
<1>7. /\ status \in Open \union Failed \union {"succeeded"}
      /\ status \in Open => upgradeTasks[t].status \in Open
      /\ status = "succeeded" <=> upgradeTasks[t].status = "succeeded"
  BY <1>4 DEF UpgradeTask, Open
<1> HIDE DEF status
<1>8. task \in UpgradeTask /\ task.status = status /\ task.node = upgradeTasks[t].node
      /\ task.target = upgradeTasks[t].target
  BY <1>4, <1>7, TaskStatus
<1>9. disturbances' \in 0..MaxDisturbances
  BY <1>1, DisturbanceBound
<1> HIDE DEF task, e
<1>10. TaskSettles(t, task, h, r)
  BY <1>7, <1>8 DEF TaskSettles
<1>11. TasksSettle(n, h, r)
  BY <1>1, <1>2, <1>10 DEF TasksSettle
<1>12. HeardStill(n, e, h)
  BY <1>2, <1>11, HeardKept
<1>13. NodeRests(n, e)
  BY <1>2 DEF NodeRests
<1> HIDE DEF h, r
<1>14. NodeStep(n, e, h, r)
  BY <1>1, <1>2, <1>4, <1>5, <1>6, <1>9, <1>11, <1>13 DEF NodeStep, h, r
<1> QED BY <1>1, <1>12, <1>14, NodeStepHolds

LEMMA InstallHolds ==
  ASSUME UpgradesInv, NEW n \in EdgeNodes, Install(n)
  PROVE  UpgradesInv'
<1> DEFINE t == edges[n].task
           target == upgradeTasks[t].target
           e == [edges[n] EXCEPT !.runs = target, !.backup = edges[n].runs, !.installer = "wait"]
           h == heard[n]
           r == hasRun[n] \union {target}
<1>1. /\ edges[n].installer = "begin" /\ edges' = [edges EXCEPT ![n] = e]
      /\ hasRun' = [hasRun EXCEPT ![n] = r]
      /\ UNCHANGED <<artifact, upgradeTasks, rollout, driver, heard, disturbances>>
  BY DEF Install, Edge
<1>2. t # NoUpgradeTask /\ t \in TasksOf(n) /\ t \in DOMAIN upgradeTasks
  BY <1>1, EdgeAtWork
<1>3. upgradeTasks[t].node = n
  BY <1>2 DEF TasksOf
<1>4. /\ upgradeTasks[t] \in UpgradeTask /\ h \in HeardRow /\ h.version \in hasRun[n] /\ EdgesTyped
      /\ heard = [heard EXCEPT ![n] = h] /\ edges[n].runs \in hasRun[n] /\ edges[n] \in EdgeRow
  BY <1>2, <1>3, NodeFacts
<1>5. target \in Versions /\ edges[n].runs \in Versions /\ hasRun[n] \in SUBSET Versions
  BY <1>4, TaskStatus, EdgeFields
<1> HIDE DEF target
<1>6. e \in EdgeRow /\ e.task = t /\ e.runs = target /\ e.backup = edges[n].runs
  BY <1>4, <1>5 DEF EdgeRow
<1>7. r \in SUBSET Versions /\ hasRun[n] \subseteq r /\ target \in r
  BY <1>5
<1>8. disturbances' \in 0..MaxDisturbances
  BY <1>1, DisturbanceBound
<1> HIDE DEF e
<1>9. TasksSettle(n, h, r)
  BY <1>1 DEF TasksSettle
<1>10. HeardStill(n, e, h)
  BY <1>2, <1>9, HeardKept
<1>11. NodeRests(n, e)
  BY <1>2 DEF NodeRests
<1> HIDE DEF h, r
<1>12. NodeStep(n, e, h, r)
  BY <1>1, <1>2, <1>4, <1>6, <1>7, <1>8, <1>9, <1>11 DEF NodeStep, h
<1> QED BY <1>1, <1>10, <1>12, NodeStepHolds

-----------------------------------------------------------------------------
(* Nodes: another task.                                                    *)

\* Node n gets task t, its latest; the tasks of other nodes and their order stay.
TaskAdded(n, t, target) ==
  /\ DOMAIN upgradeTasks' = DOMAIN upgradeTasks \union {t} /\ t \notin DOMAIN upgradeTasks
  /\ t # NoUpgradeTask
  /\ upgradeTasks'[t] = QueuedTask(n, target)
  /\ \A u \in DOMAIN upgradeTasks : upgradeTasks'[u] = upgradeTasks[u]
  /\ TasksOf(n)' = TasksOf(n) \union {t} /\ IsLatest(t)'
  /\ \A u \in TasksOf(n) : ~IsLatest(u)'
  /\ \A m : m # n => TasksOf(m)' = TasksOf(m)
  /\ \A u \in DOMAIN upgradeTasks : upgradeTasks[u].node # n => (IsLatest(u)' <=> IsLatest(u))

LEMMA AddedTask ==
  ASSUME upgradeTasks \in Seq(UpgradeTask), NEW n \in EdgeNodes, NEW target \in Versions,
         upgradeTasks' = Append(upgradeTasks, QueuedTask(n, target))
  PROVE  \E t : t = Len(upgradeTasks) + 1 /\ TaskAdded(n, t, target)
<1>0. PICK t : t = Len(upgradeTasks) + 1
  OBVIOUS
<1> DEFINE new == QueuedTask(n, target)
<1>1. new \in UpgradeTask /\ new.node = n
  BY DEF QueuedTask, UpgradeTask, Open
<1>2. /\ Len(upgradeTasks) \in Nat /\ DOMAIN upgradeTasks = 1..Len(upgradeTasks)
      /\ Len(upgradeTasks') = t /\ upgradeTasks' \in Seq(UpgradeTask)
      /\ upgradeTasks'[t] = new
      /\ \A u \in 1..Len(upgradeTasks) : upgradeTasks'[u] = upgradeTasks[u]
  BY <1>0, <1>1, LenProperties, AppendProperties
<1>3. DOMAIN upgradeTasks' = 1..t
  BY <1>2, LenProperties
<1>4. /\ DOMAIN upgradeTasks' = DOMAIN upgradeTasks \union {t} /\ t \notin DOMAIN upgradeTasks
      /\ t # NoUpgradeTask /\ \A u \in DOMAIN upgradeTasks : u <= t /\ ~(t <= u)
  BY <1>0, <1>2, <1>3 DEF NoUpgradeTask
<1>5. \A u \in DOMAIN upgradeTasks : upgradeTasks'[u] = upgradeTasks[u]
  BY <1>2
<1>6. upgradeTasks'[t] = new /\ t <= t
  BY <1>0, <1>2
<1> HIDE DEF new
<1>7. /\ TasksOf(n)' = TasksOf(n) \union {t}
      /\ \A m : m # n => TasksOf(m)' = TasksOf(m)
  BY <1>1, <1>4, <1>5, <1>6 DEF TasksOf
<1>8. IsLatest(t)'
  <2>1. \A u \in DOMAIN upgradeTasks' : u <= t
    BY <1>4, <1>6
  <2> QED BY <2>1 DEF IsLatest, TasksOf
<1>9. ASSUME NEW u \in TasksOf(n) PROVE ~IsLatest(u)'
  <2>1. u \in DOMAIN upgradeTasks /\ upgradeTasks'[u].node = n
    BY <1>5 DEF TasksOf
  <2>2. t \in TasksOf(n)' /\ ~(t <= u)
    BY <1>4, <1>7, <2>1
  <2> QED BY <2>1, <2>2 DEF IsLatest
<1>10. ASSUME NEW u \in DOMAIN upgradeTasks, upgradeTasks[u].node # n
       PROVE  IsLatest(u)' <=> IsLatest(u)
  <2>1. upgradeTasks'[u].node = upgradeTasks[u].node
    BY <1>5
  <2>2. TasksOf(upgradeTasks[u].node)' = TasksOf(upgradeTasks[u].node)
    BY <1>5, <1>4, <1>6, <1>1, <1>10 DEF TasksOf
  <2>3. IsLatest(u)' <=> \A v \in DOMAIN upgradeTasks' : upgradeTasks'[v].node = upgradeTasks'[u].node => v <= u
    BY DEF IsLatest, TasksOf
  <2>4. IsLatest(u) <=> \A v \in DOMAIN upgradeTasks : upgradeTasks[v].node = upgradeTasks[u].node => v <= u
    BY DEF IsLatest, TasksOf
  <2> QED BY <1>1, <1>4, <1>5, <1>6, <1>10, <2>1, <2>3, <2>4
<1> QED BY <1>0, <1>4, <1>5, <1>6, <1>7, <1>8, <1>9, <1>10 DEF TaskAdded, new

\* What is true of the nodes stays true when a node with no open task gets a new one.
LEMMA AddedNodes ==
  ASSUME UpgradesInv, NEW n \in EdgeNodes, NEW t, NEW target \in Versions, TaskAdded(n, t, target),
         ~HasOpenTask(n), UNCHANGED <<edges, heard, hasRun>>
  PROVE  NodesSound'
<1>0. upgradeTasks \in Seq(UpgradeTask) /\ NodesSound
  BY DEF UpgradesInv, RolloutHolds
<1>1. /\ DOMAIN upgradeTasks' = DOMAIN upgradeTasks \union {t} /\ t \notin DOMAIN upgradeTasks
      /\ \A u \in DOMAIN upgradeTasks : upgradeTasks'[u] = upgradeTasks[u]
      /\ TasksOf(n)' = TasksOf(n) \union {t} /\ IsLatest(t)'
      /\ \A u \in TasksOf(n) : ~IsLatest(u)'
      /\ \A m : m # n => TasksOf(m)' = TasksOf(m)
      /\ \A u \in DOMAIN upgradeTasks : upgradeTasks[u].node # n => (IsLatest(u)' <=> IsLatest(u))
  BY DEF TaskAdded
<1>2. upgradeTasks'[t].status = "queued"
  BY DEF TaskAdded, QueuedTask
<1>3. OpenIsLatest'
  <2> SUFFICES ASSUME NEW u \in DOMAIN upgradeTasks', upgradeTasks'[u].status \in Open PROVE IsLatest(u)'
    BY DEF OpenIsLatest
  <2>1. CASE u = t
    BY <1>1, <2>1
  <2>2. CASE u # t /\ upgradeTasks[u].node = n
    BY <1>1, <2>2 DEF HasOpenTask, TasksOf
  <2>3. CASE u # t /\ upgradeTasks[u].node # n
    BY <1>0, <1>1, <2>3 DEF NodesSound, OpenIsLatest
  <2> QED BY <2>1, <2>2, <2>3
<1>4. SucceededHasRun'
  BY <1>0, <1>1, <1>2 DEF NodesSound, SucceededHasRun
<1>5. ASSUME NEW m \in EdgeNodes PROVE EdgeSound(m)' /\ HeardTruth(m)'
  <2>1. EdgeSound(m) /\ HeardTruth(m) /\ TasksOf(m) \subseteq TasksOf(m)'
    BY <1>0, <1>1 DEF NodesSound
  <2>2. EdgeSound(m)'
    BY <2>1 DEF EdgeSound
  <2>3. HeardTruth(m)'
    <3>1. CASE m = n
      <4>1. \A u \in TasksOf(n)' : IsLatest(u)' => upgradeTasks'[u].status # "succeeded"
        BY <1>1, <1>2
      <4> QED BY <3>1, <4>1 DEF HeardTruth
    <3>2. CASE m # n
      <4>1. \A u \in TasksOf(m) : u \in DOMAIN upgradeTasks /\ upgradeTasks[u].node = m
        BY DEF TasksOf
      <4>2. TasksOf(m)' = TasksOf(m) /\ \A u \in TasksOf(m) : (IsLatest(u)' <=> IsLatest(u))
                                        /\ upgradeTasks'[u] = upgradeTasks[u]
        BY <1>1, <3>2, <4>1
      <4> QED BY <2>1, <4>2 DEF HeardTruth
    <3> QED BY <3>1, <3>2
  <2> QED BY <2>2, <2>3
<1> QED BY <1>3, <1>4, <1>5 DEF NodesSound

\* ... and so do the members of other nodes.
LEMMA AddedMembers ==
  ASSUME NEW n, NEW t, NEW target, TaskAdded(n, t, target), UNCHANGED edges,
         NEW m, NEW wanted, MemberSound(m, wanted), m.node # n
  PROVE  MemberSound(m, wanted)'
<1>1. m.task # NoUpgradeTask =>
        m.task \in DOMAIN upgradeTasks /\ upgradeTasks[m.task].node = m.node /\ m.task \in TasksOf(m.node)
  BY DEF MemberSound, TasksOf
<1>2. m.task # NoUpgradeTask =>
        /\ upgradeTasks'[m.task] = upgradeTasks[m.task] /\ TasksOf(m.node)' = TasksOf(m.node)
        /\ IsLatest(m.task)' <=> IsLatest(m.task)
  BY <1>1 DEF TaskAdded
<1> QED BY <1>1, <1>2 DEF MemberSound

\* The rows keep the soundness of their members where the tasks, or the nodes, of
\* these are left alone.
LEMMA CopiesKept ==
  ASSUME NEW row, row = rollout', NEW work, work = driver'.work,
         rollout'.state \in {"running", "paused"} => MembersSound(row)',
         driver'.pc \in {"observe", "save"} => MembersSound(work)'
  PROVE  CopiesSound'
<1>1. ActiveRollout' => MembersSound(rollout)'
  BY DEF ActiveRollout, MembersSound
<1>2. driver'.pc \in {"observe", "save"} => MembersSound(driver.work)'
  BY DEF MembersSound
<1> QED BY <1>1, <1>2 DEF CopiesSound

LEMMA StartNodeUpgradeHolds ==
  ASSUME UpgradesInv, NEW n \in EdgeNodes, StartNodeUpgrade(n)
  PROVE  UpgradesInv'
<1>0. /\ RolloutHolds /\ EdgesTyped /\ CopiesSound /\ upgradeTasks \in Seq(UpgradeTask)
      /\ rollout \in Rollout /\ driver \in Drivers /\ DriverSound /\ artifact \in Versions
  BY DEF UpgradesInv, RolloutHolds
<1>1. /\ ~HasOpenTask(n) /\ ~Reserved(n) /\ Disturbance
      /\ upgradeTasks' = Append(upgradeTasks, QueuedTask(n, artifact))
      /\ UNCHANGED <<artifact, rollout, driver, heard, edges, hasRun>>
  BY DEF StartNodeUpgrade, CanUpgrade
<1>2. RolloutHolds'
  BY <1>0, StartNodeHolds
<1>3. PICK target : target = artifact
  OBVIOUS
<1>4. PICK t : TaskAdded(n, t, target)
  BY <1>0, <1>1, <1>3, AddedTask
<1>5. NodesSound'
  BY <1>0, <1>1, <1>3, <1>4, AddedNodes
<1>6. EdgesTyped'
  BY <1>0, <1>1, DisturbanceBound DEF EdgesTyped
<1>7. ASSUME NEW row, MembersSound(row), \A i \in DOMAIN row.members : row.members[i].node # n
      PROVE  MembersSound(row)'
  <2> SUFFICES ASSUME NEW i \in DOMAIN row.members PROVE MemberSound(row.members[i], row.target)'
    BY DEF MembersSound
  <2>1. MemberSound(row.members[i], row.target) /\ row.members[i].node # n
    BY <1>7 DEF MembersSound
  <2> QED BY <1>1, <1>4, <2>1, AddedMembers
<1>8. ActiveRollout => \A i \in DOMAIN rollout.members : rollout.members[i].node # n
  BY <1>1 DEF Reserved, RolloutMembers
<1>9. PICK row, work : row = rollout /\ work = driver.work
  OBVIOUS
<1>10. rollout.state \in {"running", "paused"} => MembersSound(row)'
  BY <1>0, <1>7, <1>8, <1>9 DEF CopiesSound, ActiveRollout
<1>11. driver.pc \in {"observe", "save"} => MembersSound(work)'
  <2> SUFFICES ASSUME driver.pc \in {"observe", "save"} PROVE MembersSound(work)'
    OBVIOUS
  <2>1. ActiveRollout /\ Observed(rollout, work) /\ MembersSound(work)
    BY <1>0, <1>9 DEF DriverSound, CopiesSound
  <2>2. \A i \in DOMAIN work.members : work.members[i].node # n
    BY <1>8, <2>1 DEF Observed
  <2> QED BY <1>7, <2>1, <2>2
<1>12. CopiesSound'
  BY <1>1, <1>9, <1>10, <1>11, CopiesKept
<1> QED BY <1>2, <1>5, <1>6, <1>12 DEF UpgradesInv

-----------------------------------------------------------------------------
(* Nodes: steps of the rollout.                                            *)

NodesUnchanged ==
  UNCHANGED <<upgradeTasks, edges, heard, hasRun>> /\ (Disturbance \/ UNCHANGED disturbances)

LEMMA FrameKept ==
  ASSUME UpgradesInv, NodesUnchanged
  PROVE  /\ EdgesTyped' /\ NodesSound'
         /\ \A m, target : MemberSound(m, target) => MemberSound(m, target)'
<1>1. /\ UNCHANGED <<upgradeTasks, edges, heard, hasRun>> /\ disturbances' \in 0..MaxDisturbances
      /\ EdgesTyped /\ NodesSound
  BY DisturbanceBound DEF NodesUnchanged, UpgradesInv
<1>2. EdgesTyped'
  BY <1>1 DEF EdgesTyped
<1>3. \A n : TasksOf(n)' = TasksOf(n)
  BY <1>1 DEF TasksOf
<1>4. \A t : IsLatest(t)' <=> IsLatest(t)
  BY <1>1 DEF IsLatest, TasksOf
<1>5. NodesSound'
  <2>1. OpenIsLatest' /\ SucceededHasRun'
    BY <1>1, <1>4 DEF NodesSound, OpenIsLatest, SucceededHasRun
  <2>2. ASSUME NEW n \in EdgeNodes PROVE EdgeSound(n)' /\ HeardTruth(n)'
    <3>1. EdgeSound(n) /\ HeardTruth(n)
      BY <1>1 DEF NodesSound
    <3> QED BY <1>1, <1>3, <1>4, <3>1 DEF EdgeSound, HeardTruth
  <2> QED BY <2>1, <2>2 DEF NodesSound
<1>6. \A m, target : MemberSound(m, target) => MemberSound(m, target)'
  BY <1>1, <1>3, <1>4 DEF MemberSound
<1> QED BY <1>2, <1>5, <1>6

\* The new row has the members of the old one, with the same tasks, and none that
\* counts as upgraded was not before.
Carries(row, new) ==
  /\ new.target = row.target /\ DOMAIN new.members = DOMAIN row.members
  /\ \A i \in DOMAIN row.members :
       /\ new.members[i].node = row.members[i].node /\ new.members[i].task = row.members[i].task
       /\ new.members[i].state = "succeeded" => row.members[i].state = "succeeded"

LEMMA RowCarried ==
  ASSUME UpgradesInv, NodesUnchanged, NEW row, NEW new, MembersSound(row), Carries(row, new)
  PROVE  MembersSound(new)'
<1> SUFFICES ASSUME NEW i \in DOMAIN new.members PROVE MemberSound(new.members[i], new.target)'
  BY DEF MembersSound
<1>1. MemberSound(row.members[i], row.target)
  BY DEF MembersSound, Carries
<1>2. MemberSound(new.members[i], new.target)
  BY <1>1 DEF MemberSound, Carries
<1> QED BY <1>2, FrameKept

\* A step that leaves no copy to watch.
LEMMA CarriedHolds ==
  ASSUME UpgradesInv, RolloutHolds', NodesUnchanged, driver'.pc \notin {"observe", "save"},
         rollout'.state \in {"running", "paused"} => ActiveRollout /\ Carries(rollout, rollout')
  PROVE  UpgradesInv'
<1>1. PICK row, new, work : row = rollout /\ new = rollout' /\ work = driver'.work
  OBVIOUS
<1>2. rollout'.state \in {"running", "paused"} => MembersSound(new)'
  <2> SUFFICES ASSUME rollout'.state \in {"running", "paused"} PROVE MembersSound(new)'
    OBVIOUS
  <2>1. MembersSound(row)
    BY <1>1 DEF UpgradesInv, CopiesSound
  <2>2. Carries(row, new)
    BY <1>1
  <2> QED BY <2>1, <2>2, RowCarried
<1>3. CopiesSound'
  BY <1>1, <1>2, CopiesKept
<1> QED BY <1>3, FrameKept DEF UpgradesInv

\* The same members in another state of the rollout.
LEMMA CarriesSelf ==
  ASSUME NEW row, NEW new, new.members = row.members, new.target = row.target
  PROVE  Carries(row, new)
BY DEF Carries

LEMMA HaltedHolds ==
  ASSUME UpgradesInv, RolloutHolds', NodesUnchanged, ActiveRollout,
         NEW state \in {"paused", "succeeded"}, SetRollout([rollout EXCEPT !.state = state])
  PROVE  UpgradesInv'
<1>1. rollout \in Rollout
  BY DEF UpgradesInv, RolloutHolds
<1>2. rollout'.members = rollout.members /\ rollout'.target = rollout.target
  BY <1>1, RowUpdates DEF SetRollout
<1>3. Carries(rollout, rollout')
  BY <1>2, CarriesSelf
<1>4. driver'.pc \notin {"observe", "save"}
  BY IdleDriverType DEF SetRollout
<1> QED BY <1>3, <1>4, CarriedHolds

LEMMA RequestHolds ==
  ASSUME UpgradesInv, RolloutHolds',
         PromoteArtifact \/ StartAllUpgrades \/ PauseRollout \/ ResumeRollout \/ CancelRollout
  PROVE  UpgradesInv'
<1>1. /\ RolloutHolds /\ rollout \in Rollout /\ artifact \in Versions /\ NodesUnchanged
  BY DEF UpgradesInv, RolloutHolds, NodesUnchanged, PromoteArtifact, StartAllUpgrades, PauseRollout,
         ResumeRollout, CancelRollout
<1>2. CASE PromoteArtifact
  <2>1. UNCHANGED <<rollout, driver>>
    BY <1>2 DEF PromoteArtifact
  <2>2. PICK row, work : row = rollout /\ work = driver.work
    OBVIOUS
  <2>3. /\ rollout.state \in {"running", "paused"} => MembersSound(row)
        /\ driver.pc \in {"observe", "save"} => MembersSound(work)
    BY <2>2 DEF UpgradesInv, CopiesSound, ActiveRollout
  <2>4. /\ rollout.state \in {"running", "paused"} => MembersSound(row)'
        /\ driver.pc \in {"observe", "save"} => MembersSound(work)'
    BY <1>1, <2>3, CarriesSelf, RowCarried
  <2>5. CopiesSound'
    BY <2>1, <2>2, <2>4, CopiesKept
  <2> QED BY <1>1, <2>5, FrameKept DEF UpgradesInv
<1>3. CASE StartAllUpgrades
  <2>1. PICK row, work : row = rollout' /\ work = driver'.work
    OBVIOUS
  <2>2. \A i \in DOMAIN rollout'.members : rollout'.members[i] = NewMember(rollout'.members[i].node)
    BY <1>1, <1>3, StartedRow
  <2>3. \A i \in DOMAIN row.members : row.members[i].task = NoUpgradeTask /\ row.members[i].state = "pending"
    BY <2>1, <2>2, NewMemberFields
  <2>4. MembersSound(row)'
    BY <2>3 DEF MembersSound, MemberSound
  <2>5. driver'.pc = "dispatch first"
    BY <1>3, IdleDriverType DEF StartAllUpgrades
  <2>6. CopiesSound'
    BY <2>1, <2>4, <2>5, CopiesKept
  <2> QED BY <1>1, <2>6, FrameKept DEF UpgradesInv
<1>4. CASE PauseRollout
  BY <1>1, <1>4, HaltedHolds DEF PauseRollout, ActiveRollout
<1>5. CASE ResumeRollout
  <2>1. Carries(rollout, rollout')
    BY <1>1, <1>5, ResumedRow DEF Carries
  <2>2. ActiveRollout /\ driver'.pc \notin {"observe", "save"}
    BY <1>5, IdleDriverType DEF ResumeRollout, SetRollout, ActiveRollout
  <2> QED BY <1>1, <2>1, <2>2, CarriedHolds
<1>6. CASE CancelRollout
  <2>1. rollout'.state = "cancelled"
    BY <1>1, <1>6, CancelledRow
  <2>2. driver'.pc \notin {"observe", "save"}
    BY <1>6, IdleDriverType DEF CancelRollout, SetRollout
  <2> QED BY <1>1, <2>1, <2>2, CarriedHolds
<1> QED BY <1>2, <1>3, <1>4, <1>5, <1>6

LEMMA RestartUpgradesHolds ==
  ASSUME UpgradesInv, RolloutHolds', RestartController
  PROVE  UpgradesInv'
<1>1. NodesUnchanged /\ rollout' = rollout /\ driver'.pc \notin {"observe", "save"}
  BY IdleDriverType DEF RestartController, NodesUnchanged
<1>2. Carries(rollout, rollout')
  BY <1>1, CarriesSelf
<1> QED BY <1>1, <1>2, CarriedHolds DEF ActiveRollout

LEMMA BeginRoundHolds ==
  ASSUME UpgradesInv, RolloutHolds', BeginReconcileRollout
  PROVE  UpgradesInv'
<1>1. /\ NodesUnchanged /\ rollout' = rollout /\ rollout \in Rollout /\ RowSound(rollout)
      /\ driver' = Onward(rollout, 0) /\ ActiveRollout
  BY DEF BeginReconcileRollout, NodesUnchanged, UpgradesInv, RolloutHolds
<1>2. driver'.work = rollout
  BY <1>1, OnwardSound DEF RowSound
<1>3. PICK row : row = rollout
  OBVIOUS
<1>4. MembersSound(row)
  BY <1>1, <1>3 DEF UpgradesInv, CopiesSound
<1>5. MembersSound(row)'
  BY <1>1, <1>4, CarriesSelf, RowCarried
<1>6. CopiesSound'
  BY <1>1, <1>2, <1>3, <1>5, CopiesKept
<1> QED BY <1>1, <1>6, FrameKept DEF UpgradesInv

LEMMA SaveRoundHolds ==
  ASSUME UpgradesInv, RolloutHolds', SaveObserved
  PROVE  UpgradesInv'
<1>1. NodesUnchanged /\ rollout' = driver.work /\ driver.pc = "save"
  BY DEF SaveObserved, NodesUnchanged
<1>2. driver'.pc \notin {"observe", "save"}
  BY IdleDriverType DEF SaveObserved
<1>3. PICK row, work : row = rollout' /\ work = driver'.work
  OBVIOUS
<1>4. MembersSound(row)
  BY <1>1, <1>3 DEF UpgradesInv, CopiesSound
<1>5. MembersSound(row)'
  BY <1>1, <1>4, CarriesSelf, RowCarried
<1>6. CopiesSound'
  BY <1>2, <1>3, <1>5, CopiesKept
<1> QED BY <1>1, <1>6, FrameKept DEF UpgradesInv

\* A member that is found ready at its version is at rest.
LEMMA ReadyMember ==
  ASSUME UpgradesInv, NEW i, Observing(i), ObservedTask(i).status = "succeeded", NodeReady(i)
  PROVE  LET m == driver.work.members[i] IN
         /\ m.task # NoUpgradeTask /\ upgradeTasks[m.task].status = "succeeded"
         /\ edges[m.node].task = NoUpgradeTask /\ edges[m.node].runs = driver.work.target
<1> DEFINE m == driver.work.members[i]
<1>1. /\ driver.work \in Rollout /\ rollout \in Rollout /\ Observed(rollout, driver.work)
      /\ i \in InFlight(rollout.members) /\ i \in DOMAIN driver.work.members /\ m \in Member
      /\ DOMAIN driver.work.members = DOMAIN rollout.members /\ ActiveRollout
      /\ RowSound(rollout) /\ driver.pc = "observe"
  BY ObservingMember DEF Observing, UpgradesInv, RolloutHolds
<1>2. m.task # NoUpgradeTask
  <2>1. m.task = rollout.members[i].task
    BY <1>1 DEF Observed
  <2>2. rollout.members[i].state # "pending"
    BY <1>1 DEF InFlight
  <2>3. rollout.members[i].task # NoUpgradeTask
    BY <1>1, <2>2 DEF RowSound, ActiveRollout
  <2> QED BY <2>1, <2>3
<1>3. MemberSound(m, driver.work.target)
  BY <1>1 DEF UpgradesInv, CopiesSound, MembersSound
<1>4. /\ m.task \in TasksOf(m.node) /\ IsLatest(m.task)
      /\ upgradeTasks[m.task].target = driver.work.target
  BY <1>2, <1>3 DEF MemberSound
<1>5. /\ upgradeTasks[m.task].status = "succeeded" /\ heard[m.node].fresh
      /\ heard[m.node].active = NoUpgradeTask /\ heard[m.node].version = upgradeTasks[m.task].target
  BY DEF ObservedTask, NodeReady
<1>6. m.node \in EdgeNodes
  BY <1>1 DEF Member
<1>7. HeardTruth(m.node)
  BY <1>6 DEF UpgradesInv, NodesSound
<1> HIDE DEF m
<1>8. edges[m.node].task = NoUpgradeTask /\ edges[m.node].runs = heard[m.node].version
  BY <1>4, <1>5, <1>7 DEF HeardTruth
<1> QED BY <1>2, <1>4, <1>5, <1>8 DEF m

LEMMA ConcludeRoundHolds ==
  ASSUME UpgradesInv, RolloutHolds', NodesUnchanged, NEW i, Observing(i), NEW healthy \in BOOLEAN,
         NEW state \in {"upgrading", "verifying", "succeeded", "failed"}, Conclude(i, state, healthy),
         state = "succeeded" => ObservedTask(i).status = "succeeded" /\ NodeReady(i)
  PROVE  UpgradesInv'
<1>1. PICK work, new, row : /\ work = driver.work /\ new = Concluded(driver.work, i, state, healthy)
                            /\ row = rollout
  OBVIOUS
<1>2. /\ work \in Rollout /\ i \in DOMAIN work.members /\ work.members[i] \in Member /\ ActiveRollout
      /\ RowSound(rollout) /\ DOMAIN work.members = DOMAIN rollout.members /\ driver.pc = "observe"
  BY <1>1, ObservingMember DEF Observing, UpgradesInv, RolloutHolds
<1>3. ConcludedIs(new, work, i, state, healthy)
  <2>1. state \in MemberStates
    BY DEF MemberStates
  <2> QED BY <1>1, <1>2, <2>1, ConcludedRow
<1>4. /\ new \in Rollout /\ new.target = work.target /\ DOMAIN new.members = DOMAIN work.members
      /\ new.members[i] = [work.members[i] EXCEPT !.state = state, !.healthy = healthy]
      /\ \A j \in DOMAIN work.members : j # i => new.members[j] = work.members[j]
  BY <1>3 DEF ConcludedIs
<1>5. /\ new.members[i].node = work.members[i].node /\ new.members[i].task = work.members[i].task
      /\ new.members[i].state = state
  BY <1>2, <1>4 DEF Member
<1>6. MembersSound(work)
  BY <1>1, <1>2 DEF UpgradesInv, CopiesSound
<1>7. MembersSound(new)
  <2> SUFFICES ASSUME NEW j \in DOMAIN work.members PROVE MemberSound(new.members[j], work.target)
    BY <1>4 DEF MembersSound
  <2>1. MemberSound(work.members[j], work.target)
    BY <1>6 DEF MembersSound
  <2>2. CASE j # i
    BY <1>4, <2>1, <2>2
  <2>3. CASE j = i
    <3>1. state = "succeeded" =>
            /\ work.members[i].task # NoUpgradeTask /\ upgradeTasks[work.members[i].task].status = "succeeded"
            /\ edges[work.members[i].node].task = NoUpgradeTask
            /\ edges[work.members[i].node].runs = work.target
      BY <1>1, ReadyMember
    <3> QED BY <1>5, <2>1, <2>3, <3>1 DEF MemberSound
  <2> QED BY <2>2, <2>3
<1>8. MembersSound(new)' /\ MembersSound(row)'
  <2>1. MembersSound(row)
    BY <1>1, <1>2 DEF UpgradesInv, CopiesSound
  <2> QED BY <1>7, <2>1, CarriesSelf, RowCarried
<1>9. driver' = Onward(new, i) /\ rollout' = rollout
  BY <1>1 DEF Conclude, Concluded
<1>10. driver'.work = new
  <2>1. i \in Nat /\ DOMAIN new.members \subseteq DOMAIN NodeOrder
    BY <1>2, <1>4, MemberSets DEF RowSound
  <2> QED BY <1>4, <1>9, <2>1, OnwardSound
<1>11. CopiesSound'
  BY <1>1, <1>8, <1>9, <1>10, CopiesKept
<1> QED BY <1>11, FrameKept DEF UpgradesInv

LEMMA ObserveRoundHolds ==
  ASSUME UpgradesInv, RolloutHolds', NEW i, ObserveMember(i)
  PROVE  UpgradesInv'
<1>1. Observing(i) /\ RolloutHolds
  BY DEF UpgradesInv, ObserveMember, MemberTaskOpen, MemberTaskFailed, MemberNotReady, MemberUnhealthy,
         MemberHealthy, MemberVerified
<1>2. /\ driver.work.members[i].state \in {"upgrading", "verifying"}
      /\ driver.work.members[i].healthy \in BOOLEAN
  BY <1>1, ObservingMember DEF Observing, InFlight, Member
<1>3. \E state \in {"upgrading", "verifying", "succeeded", "failed"} :
        \E healthy \in BOOLEAN :
          /\ Conclude(i, state, healthy) /\ (Disturbance \/ UNCHANGED disturbances)
          /\ state = "succeeded" => ObservedTask(i).status = "succeeded" /\ NodeReady(i)
  BY <1>2 DEF ObserveMember, MemberTaskOpen, MemberTaskFailed, MemberNotReady, MemberUnhealthy,
              MemberHealthy, MemberVerified
<1>4. PICK state \in {"upgrading", "verifying", "succeeded", "failed"}, healthy \in BOOLEAN :
          /\ Conclude(i, state, healthy) /\ (Disturbance \/ UNCHANGED disturbances)
          /\ state = "succeeded" => ObservedTask(i).status = "succeeded" /\ NodeReady(i)
  BY <1>3
<1>5. NodesUnchanged
  BY <1>4 DEF NodesUnchanged, Conclude
<1> QED BY <1>1, <1>4, <1>5, ConcludeRoundHolds

LEMMA DispatchRoundHolds ==
  ASSUME UpgradesInv, RolloutHolds', NEW i, Dispatch(i), UNCHANGED <<heard, edges, hasRun, disturbances>>,
         driver'.pc \notin {"observe", "save"}
  PROVE  UpgradesInv'
<1> DEFINE n == rollout.members[i].node
<1>0. /\ rollout \in Rollout /\ upgradeTasks \in Seq(UpgradeTask) /\ TasksFit /\ RowSound(rollout)
  BY DEF UpgradesInv, RolloutHolds
<1>1. /\ i \in DOMAIN rollout.members /\ rollout.members[i].state = "pending"
      /\ rollout.state = "running" /\ rollout'.target = rollout.target
      /\ DOMAIN rollout'.members = DOMAIN rollout.members
      /\ rollout'.members[i].node = rollout.members[i].node
      /\ \A j \in DOMAIN rollout.members : j # i => rollout'.members[j] = rollout.members[j]
      /\ \/ /\ rollout'.members[i].state = "verifying"
            /\ rollout'.members[i].task = rollout.members[i].task
            /\ upgradeTasks' = upgradeTasks
         \/ /\ ~HasOpenTask(rollout.members[i].node)
            /\ rollout'.members[i].state = "upgrading"
            /\ rollout'.members[i].task = Len(upgradeTasks) + 1
            /\ upgradeTasks' = Append(upgradeTasks, QueuedTask(rollout.members[i].node, rollout.target))
  BY <1>0, DispatchedRow
<1>2. ActiveRollout
  BY <1>1 DEF ActiveRollout
<1>3. CASE /\ rollout'.members[i].state = "verifying"
           /\ rollout'.members[i].task = rollout.members[i].task
           /\ upgradeTasks' = upgradeTasks
  <2>1. NodesUnchanged
    BY <1>3 DEF NodesUnchanged
  <2>2. Carries(rollout, rollout')
    <3> SUFFICES ASSUME NEW j \in DOMAIN rollout.members
                 PROVE  /\ rollout'.members[j].node = rollout.members[j].node
                        /\ rollout'.members[j].task = rollout.members[j].task
                        /\ rollout'.members[j].state = "succeeded" => rollout.members[j].state = "succeeded"
      BY <1>1 DEF Carries
    <3>1. CASE j = i
      BY <1>1, <1>3, <3>1
    <3>2. CASE j # i
      BY <1>1, <3>2
    <3> QED BY <3>1, <3>2
  <2> QED BY <1>2, <2>1, <2>2, CarriedHolds
<1>4. CASE /\ ~HasOpenTask(n)
           /\ rollout'.members[i].state = "upgrading"
           /\ rollout'.members[i].task = Len(upgradeTasks) + 1
           /\ upgradeTasks' = Append(upgradeTasks, QueuedTask(n, rollout.target))
  <2>1. PICK row, new, work, node, target :
          /\ row = rollout /\ new = rollout' /\ work = driver'.work
          /\ node = n /\ target = rollout.target
    OBVIOUS
  <2>2. node \in EdgeNodes /\ target \in Versions
    BY <1>0, <1>1, <2>1, RolloutRow
  <2>3. PICK t : t = Len(upgradeTasks) + 1 /\ TaskAdded(node, t, target)
    BY <1>0, <1>4, <2>1, <2>2, AddedTask
  <2>4. NodesSound'
    BY <1>4, <2>1, <2>2, <2>3, AddedNodes
  <2>5. EdgesTyped'
    BY DEF UpgradesInv, EdgesTyped
  <2>6. MembersSound(new)'
    <3> SUFFICES ASSUME NEW j \in DOMAIN new.members PROVE MemberSound(new.members[j], new.target)'
      BY DEF MembersSound
    <3>1. j \in DOMAIN row.members /\ new.target = target /\ row.target = target
      BY <1>1, <2>1
    <3>2. CASE j # i
      <4>1. MemberSound(row.members[j], target) /\ new.members[j] = row.members[j]
        BY <1>1, <1>2, <2>1, <3>1, <3>2 DEF UpgradesInv, CopiesSound, MembersSound
      <4>2. row.members[j].node # node
        BY <1>0, <1>1, <2>1, <3>1, <3>2 DEF RowSound
      <4>3. MemberSound(row.members[j], target)'
        BY <2>3, <4>1, <4>2, AddedMembers
      <4> QED BY <3>1, <4>1, <4>3
    <3>3. CASE j = i
      <4>1. new.members[j].task = t /\ new.members[j].node = node /\ new.members[j].state = "upgrading"
        BY <1>1, <1>4, <2>1, <2>3, <3>3
      <4>2. t \in TasksOf(node)' /\ IsLatest(t)' /\ upgradeTasks'[t].target = target
        BY <2>3 DEF TaskAdded, QueuedTask
      <4> QED BY <3>1, <4>1, <4>2 DEF MemberSound
    <3> QED BY <3>2, <3>3
  <2>7. CopiesSound'
    BY <2>1, <2>6, CopiesKept
  <2> QED BY <2>4, <2>5, <2>7 DEF UpgradesInv
<1> QED BY <1>1, <1>3, <1>4

LEMMA DispatchStepHolds ==
  ASSUME UpgradesInv, RolloutHolds', DispatchFirst \/ DispatchNext
  PROVE  UpgradesInv'
<1>1. /\ driver.pc \in {"dispatch first", "dispatch"} /\ rollout.state = "running" /\ ActiveRollout
  BY DEF UpgradesInv, RolloutHolds, DriverSound, DispatchFirst, DispatchNext, ActiveRollout
<1>2. CASE DispatchFirst
  <2>1. /\ driver' = IdleDriver /\ UNCHANGED <<heard, edges, hasRun, disturbances>>
        /\ driver'.pc \notin {"observe", "save"}
    BY <1>2, IdleDriverType DEF DispatchFirst
  <2>2. CASE Dispatch(1)
    <3> DEFINE one == 1
    <3>1. Dispatch(one)
      BY <2>2
    <3> HIDE DEF one
    <3> QED BY <2>1, <3>1, DispatchRoundHolds
  <2>3. CASE rollout' = [rollout EXCEPT !.state = "paused"] /\ UNCHANGED upgradeTasks
    <3>1. NodesUnchanged /\ SetRollout([rollout EXCEPT !.state = "paused"])
      BY <2>1, <2>3 DEF NodesUnchanged, SetRollout
    <3> QED BY <1>1, <3>1, HaltedHolds
  <2> QED BY <1>2, <2>2, <2>3 DEF DispatchFirst
<1>3. CASE DispatchNext
  <2>1. PICK i \in NextToDispatch :
          \/ Dispatch(i) /\ UNCHANGED <<driver, disturbances>>
          \/ /\ SetRollout([rollout EXCEPT !.state = "paused"]) /\ UNCHANGED upgradeTasks
             /\ Disturbance \/ UNCHANGED disturbances
    BY <1>3 DEF DispatchNext
  <2>2. UNCHANGED <<heard, edges, hasRun>>
    BY <1>3 DEF DispatchNext
  <2>3. CASE Dispatch(i) /\ UNCHANGED <<driver, disturbances>>
    BY <1>1, <2>2, <2>3, DispatchRoundHolds
  <2>4. CASE /\ SetRollout([rollout EXCEPT !.state = "paused"]) /\ UNCHANGED upgradeTasks
             /\ Disturbance \/ UNCHANGED disturbances
    <3>1. NodesUnchanged
      BY <2>2, <2>4 DEF NodesUnchanged
    <3> QED BY <1>1, <2>4, <3>1, HaltedHolds
  <2> QED BY <2>1, <2>3, <2>4
<1> QED BY <1>2, <1>3

LEMMA EndRoundHolds ==
  ASSUME UpgradesInv, RolloutHolds', ArtifactChanged \/ EndReconcileRollout
  PROVE  UpgradesInv'
<1>1. /\ NodesUnchanged /\ rollout.state = "running" /\ ActiveRollout
  BY DEF UpgradesInv, RolloutHolds, DriverSound, ArtifactChanged, EndReconcileRollout, ActiveRollout,
         NodesUnchanged
<1>2. CASE SetRollout([rollout EXCEPT !.state = "paused"])
  BY <1>1, <1>2, HaltedHolds
<1>3. CASE SetRollout([rollout EXCEPT !.state = "succeeded"])
  BY <1>1, <1>3, HaltedHolds
<1>4. CASE SetRollout(rollout)
  <2>1. Carries(rollout, rollout') /\ driver'.pc \notin {"observe", "save"}
    BY <1>4, CarriesSelf, IdleDriverType DEF SetRollout
  <2> QED BY <1>1, <2>1, CarriedHolds
<1> QED BY <1>2, <1>3, <1>4 DEF ArtifactChanged, EndReconcileRollout

-----------------------------------------------------------------------------
(* The invariant.                                                          *)

LEMMA UpgradesInvInit == UpgradesInit => UpgradesInv
<1> SUFFICES ASSUME UpgradesInit PROVE UpgradesInv
  OBVIOUS
<1>1. RolloutHolds
  BY RolloutHoldsInit
<1>2. /\ upgradeTasks = <<>> /\ rollout = NoRollout /\ driver = IdleDriver
      /\ heard = [n \in EdgeNodes |-> [version |-> 0, active |-> NoUpgradeTask, fresh |-> TRUE]]
      /\ edges = [n \in EdgeNodes |-> IdleEdge(0)] /\ hasRun = [n \in EdgeNodes |-> {0}]
      /\ disturbances = 0
  BY DEF UpgradesInit
<1>3. 0 \in Versions /\ NoUpgradeTask \in TaskIDs
  BY UpgradeAssumption DEF Versions, TaskIDs, NoUpgradeTask
<1>4. /\ IdleEdge(0) \in EdgeRow /\ IdleEdge(0).task = NoUpgradeTask /\ IdleEdge(0).runs = 0
      /\ IdleEdge(0).backup = 0 /\ IdleEdge(0).stage = "none" /\ IdleEdge(0).installer = "off"
      /\ IdleEdge(0).result = "none"
  BY <1>3, IdleEdgeRow
<1> DEFINE first == [version |-> 0, active |-> NoUpgradeTask, fresh |-> TRUE]
<1>5. first \in HeardRow /\ first.version = 0
  BY <1>3 DEF HeardRow
<1> HIDE DEF first
<1>6. heard = [n \in EdgeNodes |-> first]
  BY <1>2 DEF first
<1>7. EdgesTyped
  <2>1. heard \in [EdgeNodes -> HeardRow]
    BY <1>5, <1>6
  <2> DEFINE idle == IdleEdge(0)
  <2>2. idle \in EdgeRow /\ edges = [n \in EdgeNodes |-> idle]
    BY <1>2, <1>4
  <2> HIDE DEF idle
  <2>3. edges \in [EdgeNodes -> EdgeRow]
    BY <2>2
  <2>4. hasRun \in [EdgeNodes -> SUBSET Versions]
    BY <1>2, <1>3
  <2>5. disturbances \in 0..MaxDisturbances
    BY <1>2, UpgradeAssumption
  <2> QED BY <2>1, <2>3, <2>4, <2>5 DEF EdgesTyped
<1>8. DOMAIN upgradeTasks = {}
  BY <1>2
<1>9. OpenIsLatest /\ SucceededHasRun /\ \A n : TasksOf(n) = {}
  BY <1>8 DEF OpenIsLatest, SucceededHasRun, TasksOf
<1>10. ASSUME NEW n \in EdgeNodes PROVE EdgeSound(n) /\ HeardTruth(n)
  <2>1. edges[n] = IdleEdge(0) /\ heard[n] = first /\ hasRun[n] = {0}
    BY <1>2, <1>6
  <2> QED BY <1>4, <1>5, <1>9, <2>1 DEF EdgeSound, HeardTruth
<1>11. CopiesSound
  BY <1>2, IdleDriverType DEF CopiesSound, ActiveRollout, NoRollout
<1> QED BY <1>1, <1>7, <1>9, <1>10, <1>11 DEF UpgradesInv, NodesSound

LEMMA UpgradesInvNext ==
  ASSUME UpgradesInv, [UpgradesNext]_upgradeVars
  PROVE  UpgradesInv'
<1>0. RolloutHolds /\ RolloutHolds'
  BY RolloutHoldsNext DEF UpgradesInv
<1>1. CASE \E n \in Requested : StartNodeUpgrade(n)
  BY <1>1, StartNodeUpgradeHolds, UpgradeAssumption
<1>2. CASE PromoteArtifact \/ StartAllUpgrades \/ PauseRollout \/ ResumeRollout \/ CancelRollout
  BY <1>0, <1>2, RequestHolds
<1>3. CASE ReconcileUpgrades
  BY <1>3, TimeoutHolds, RepairHolds DEF ReconcileUpgrades
<1>4. CASE RolloutStep
  <2>1. CASE \E i \in DOMAIN NodeOrder : ObserveMember(i)
    BY <1>0, <2>1, ObserveRoundHolds
  <2> QED BY <1>0, <1>4, <2>1, BeginRoundHolds, SaveRoundHolds, DispatchStepHolds, EndRoundHolds
      DEF RolloutStep
<1>5. CASE RestartController
  BY <1>0, <1>5, RestartUpgradesHolds
<1>6. CASE \E n \in EdgeNodes : EdgeHeartbeat(n) \/ EdgeWorks(n) \/ EdgeFails(n)
  <2> PICK n \in EdgeNodes : EdgeHeartbeat(n) \/ EdgeWorks(n) \/ EdgeFails(n)
    BY <1>6
  <2> QED BY HeartbeatHolds, BeginStagingHolds, ReportCurrentHolds, ReportApplyingHolds, InstallHolds,
             ReportResultHolds, EdgeWorkHolds
          DEF EdgeWorks, EdgeFails
<1>7. CASE UNCHANGED upgradeVars
  <2>1. NodesUnchanged /\ UNCHANGED <<rollout, driver>>
    BY <1>7 DEF upgradeVars, NodesUnchanged
  <2>2. PICK row, work : row = rollout /\ work = driver.work
    OBVIOUS
  <2>3. /\ rollout.state \in {"running", "paused"} => MembersSound(row)
        /\ driver.pc \in {"observe", "save"} => MembersSound(work)
    BY <2>2 DEF UpgradesInv, CopiesSound, ActiveRollout
  <2>4. /\ rollout.state \in {"running", "paused"} => MembersSound(row)'
        /\ driver.pc \in {"observe", "save"} => MembersSound(work)'
    BY <2>1, <2>3, CarriesSelf, RowCarried
  <2>5. CopiesSound'
    BY <2>1, <2>2, <2>4, CopiesKept
  <2> QED BY <1>0, <2>1, <2>5, FrameKept DEF UpgradesInv
<1> QED BY <1>1, <1>2, <1>3, <1>4, <1>5, <1>6, <1>7 DEF UpgradesNext, UpgradeRequest

\* The rows of the tasks, the rollout and its copy fit what the nodes are doing.
THEOREM UpgradesInvAlways == UpgradesSpec => []UpgradesInv
<1>1. UpgradesInit => UpgradesInv
  BY UpgradesInvInit
<1>2. UpgradesInv /\ [UpgradesNext]_upgradeVars => UpgradesInv'
  BY UpgradesInvNext
<1> QED BY <1>1, <1>2, PTL DEF UpgradesSpec

\* A member whose installer is at work has been begun.
LEMMA InstallingBegun ==
  ASSUME UpgradesInv, ActiveRollout
  PROVE  {i \in DOMAIN rollout.members : Installing(rollout.members[i])} \subseteq Begun(rollout.members)
<1>1. rollout \in Rollout /\ RowSound(rollout) /\ MembersSound(rollout)
  BY DEF UpgradesInv, RolloutHolds, CopiesSound
<1> SUFFICES ASSUME NEW i \in DOMAIN rollout.members, Installing(rollout.members[i])
             PROVE  i \in Begun(rollout.members)
  OBVIOUS
<1>2. rollout.members[i].task # NoUpgradeTask /\ edges[rollout.members[i].node].task # NoUpgradeTask
  BY DEF Installing
<1>3. rollout.members[i].state # "succeeded"
  BY <1>1, <1>2 DEF MembersSound, MemberSound
<1>4. rollout.members[i].state # "skipped"
  BY <1>1 DEF RowSound, ActiveRollout
<1>5. rollout.members[i].state \in MemberStates
  BY <1>1, RolloutRow
<1> QED BY <1>2, <1>3, <1>4, <1>5 DEF Begun, MemberStates

LEMMA InvGivesInstalls ==
  ASSUME UpgradesInv
  PROVE  InstallsHold
<1>1. /\ RolloutHolds /\ EdgesTyped /\ rollout \in Rollout /\ driver \in Drivers
      /\ RowSound(rollout) /\ upgradeTasks \in Seq(UpgradeTask) /\ TasksFit /\ artifact \in Versions
  BY DEF UpgradesInv, RolloutHolds
<1>2. Len(upgradeTasks) <= MaxUpgradeTasks
  <2>1. /\ 0 + Len(upgradeTasks) + Cardinality(WaitingMembers(rollout)) <= MaxUpgradeTasks
        /\ Cardinality(WaitingMembers(rollout)) \in Nat /\ Len(upgradeTasks) \in Nat
    BY <1>1, RoomNumbers, LenProperties DEF TasksFit
  <2> QED BY <2>1, UpgradeAssumption
<1>3. UpgradeTypeOK
  BY <1>1, <1>2 DEF UpgradeTypeOK, Drivers, EdgesTyped, HeardRow, EdgeRow
<1>4. ASSUME ActiveRollout
      PROVE  Cardinality({i \in DOMAIN rollout.members : Installing(rollout.members[i])}) <= MaxParallel
  <2> DEFINE busy == {i \in DOMAIN rollout.members : Installing(rollout.members[i])}
  <2>1. busy \in SUBSET Begun(rollout.members)
    BY <1>4, InstallingBegun
  <2>2. Begun(rollout.members) \in SUBSET (DOMAIN rollout.members)
    BY <1>1, MemberSets
  <2>3. busy \in SUBSET (DOMAIN rollout.members)
    OBVIOUS
  <2> HIDE DEF busy
  <2>4. Cardinality(busy) <= Cardinality(Begun(rollout.members))
    BY <1>1, <2>1, <2>2, SmallerSet
  <2>5. Cardinality(Begun(rollout.members)) <= MaxParallel
    BY <1>1, <1>4 DEF RowSound, ActiveRollout
  <2>6. Cardinality(busy) \in Nat /\ Cardinality(Begun(rollout.members)) \in Nat
    BY <1>1, <2>2, <2>3, MemberSets
  <2>7. Cardinality(busy) <= MaxParallel
    BY <2>4, <2>5, <2>6, UpgradeAssumption
  <2> QED BY <2>7 DEF busy
<1>5. InstallersBounded
  BY <1>3, <1>4 DEF InstallersBounded
<1>6. ASSUME ActiveRollout, NEW i \in DOMAIN rollout.members, rollout.members[i].state = "succeeded"
      PROVE  /\ edges[rollout.members[i].node].runs = rollout.target
             /\ edges[rollout.members[i].node].installer = "off"
  <2>1. MemberSound(rollout.members[i], rollout.target)
    BY <1>6 DEF UpgradesInv, CopiesSound, MembersSound
  <2>2. EdgeSound(rollout.members[i].node)
    BY <1>1, RolloutRow DEF UpgradesInv, NodesSound
  <2> QED BY <1>6, <2>1, <2>2 DEF MemberSound, EdgeSound
<1>7. SucceededHasRun
  BY DEF UpgradesInv, NodesSound
<1>8. VerifiedRunsTarget
  BY <1>6, <1>7 DEF VerifiedRunsTarget, SucceededHasRun
<1> QED BY <1>5, <1>8 DEF InstallsHold

\* A rollout never has more than MaxParallel installers at work, and a node that it
\* counts as upgraded runs the target and is at rest; no task counts as succeeded
\* whose node has never run its target.
THEOREM InstallsAlwaysHold == UpgradesSpec => []InstallsHold
<1>1. UpgradesSpec => []UpgradesInv
  BY UpgradesInvAlways
<1>2. UpgradesInv => InstallsHold
  BY InvGivesInstalls
<1> QED BY <1>1, <1>2, PTL
=============================================================================
