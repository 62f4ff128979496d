--------------------------- MODULE RemovalProofs ---------------------------
(***************************************************************************)
(* What is removed is no longer needed: the service of a site before its   *)
(* lineage and its row (SiteDeletion), the objects of static resources     *)
(* (StaticAssets) and the bundles of upgrades (NginxArtifacts).            *)
(***************************************************************************)
EXTENDS SiteDeletion, StaticAssets, NginxArtifacts, FiniteSetTheorems, TLAPS

-----------------------------------------------------------------------------
(* The deletion of a site *)

\* Versions only grow, from the rendered state by what is loaded to what was
\* reported; what is loaded under the rendered version is the rendered state.
VersionsFollow ==
  \A n \in Serving :
    /\ member[n].applied <= served[n].version /\ served[n].version <= states[n].version
    /\ served[n].version = states[n].version => served[n] = states[n]

\* The manager works on an active task, in the phase that its step belongs to.
ManagerInPhase ==
  /\ manager.pc # "idle" => Active(deletion.status)
  /\ manager.pc = "decide" => deletion.phase = "waiting_for_edges"
  /\ manager.pc = "complete" => deletion.phase = "finalizing"

\* The removal is staged and its task goes on.
Staged == Active(deletion.status) /\ deletion.phase \in {"waiting_for_edges", "finalizing"}

\* From then on no state has the site, and a target that is settled serves it no more.
StagedIsSettled ==
  Staged => \A n \in Serving :
    /\ ~states[n].has /\ removal[n].status # "timed_out"
    /\ removal[n].status = "pending" => removal[n].version = states[n].version
    /\ removal[n].status \in {"none", "succeeded"} => ~served[n].has

\* What the manager has counted covers what is open or failed since.
CountsCover ==
  manager.pc = "decide" =>
    /\ With(removal, "pending") \subseteq manager.pending
    /\ With(removal, "failed") \subseteq manager.pending \union manager.failed

FinalIsConfirmed ==
  Active(deletion.status) /\ deletion.phase = "finalizing" =>
    \A n \in Serving : removal[n].status \in {"none", "inactive", "succeeded"}

GoneIsUnserved ==
  ~siteRow.exists => ~siteRow.published /\ ~Active(deletion.status) /\ Unserved

DeletionInv ==
  /\ DeletionTypeOK /\ VersionsFollow /\ ManagerInPhase /\ StagedIsSettled
  /\ CountsCover /\ FinalIsConfirmed /\ GoneIsUnserved
\* What the manager may hold.
Managers == [pc : {"idle", "advance", "withdraw", "stage", "decide", "complete", "fail"},
             pending : SUBSET Serving, failed : SUBSET Serving, late : BOOLEAN]

\* A new step of the manager is of its type.
LEMMA ManagerTyped ==
  ASSUME NEW pc \in {"idle", "advance", "withdraw", "stage", "decide", "complete", "fail"},
         Manager(pc)
  PROVE  manager' \in Managers /\ manager'.pc = pc
BY DEF Manager, IdleManager, Managers

\* A bounded fault leaves the bound.
LEMMA HitchTyped ==
  ASSUME DeletionTypeOK, Hitch
  PROVE  hitches' \in 0..MaxHitches
BY DeletionAssumption DEF DeletionTypeOK, Hitch

\* The manager's steps, each on the conjuncts of the invariant.
LEMMA StartDeletionKeeps ==
  ASSUME DeletionInv, StartDeletion
  PROVE  DeletionInv'
<1> USE DeletionAssumption DEF DeletionInv
<1>1. DeletionTypeOK'
  BY DEF DeletionTypeOK, StartDeletion, Manager, IdleManager, NoRemoval, Active
<1>2. VersionsFollow'
  BY DEF DeletionTypeOK, VersionsFollow, StartDeletion, Manager, IdleManager, NoRemoval, Active
<1>3. ManagerInPhase'
  BY DEF DeletionTypeOK, ManagerInPhase, Active, StartDeletion, Manager, IdleManager, NoRemoval,
     Active
<1>4. StagedIsSettled'
  BY DEF DeletionTypeOK, VersionsFollow, ManagerInPhase, StagedIsSettled, Staged, Active,
     StartDeletion, Manager, IdleManager, NoRemoval, Active
<1>5. CountsCover'
  BY DEF DeletionTypeOK, ManagerInPhase, CountsCover, With, StartDeletion, Manager, IdleManager,
     NoRemoval, Active
<1>6. FinalIsConfirmed'
  BY DEF DeletionTypeOK, ManagerInPhase, StagedIsSettled, Staged, CountsCover, With,
     FinalIsConfirmed,
         Active, StartDeletion, Manager, IdleManager, NoRemoval, Active
<1>7. GoneIsUnserved'
  BY DEF DeletionTypeOK, ManagerInPhase, StagedIsSettled, Staged, FinalIsConfirmed, GoneIsUnserved,
         Unserved, Active, StartDeletion, Manager, IdleManager, NoRemoval, Active
<1> QED BY <1>1, <1>2, <1>3, <1>4, <1>5, <1>6, <1>7

LEMMA ResumeDeletionKeeps ==
  ASSUME DeletionInv, ResumeDeletion
  PROVE  DeletionInv'
<1> USE DeletionAssumption DEF DeletionInv
<1>1. DeletionTypeOK'
  BY ManagerTyped DEF DeletionTypeOK, ResumeDeletion, Managers
<1>2. VersionsFollow'
  BY DEF DeletionTypeOK, VersionsFollow, ResumeDeletion, Manager, IdleManager
<1>3. ManagerInPhase'
  BY DEF DeletionTypeOK, ManagerInPhase, Active, ResumeDeletion, Manager, IdleManager
<1>4. StagedIsSettled'
  BY DEF DeletionTypeOK, VersionsFollow, ManagerInPhase, StagedIsSettled, Staged, Active,
     ResumeDeletion, Manager, IdleManager
<1>5. CountsCover'
  BY DEF DeletionTypeOK, ManagerInPhase, CountsCover, With, ResumeDeletion, Manager, IdleManager
<1>6. FinalIsConfirmed'
  BY DEF DeletionTypeOK, ManagerInPhase, StagedIsSettled, Staged, CountsCover, With,
     FinalIsConfirmed,
         Active, ResumeDeletion, Manager, IdleManager
<1>7. GoneIsUnserved'
  BY DEF DeletionTypeOK, ManagerInPhase, StagedIsSettled, Staged, FinalIsConfirmed, GoneIsUnserved,
         Unserved, Active, ResumeDeletion, Manager, IdleManager
<1> QED BY <1>1, <1>2, <1>3, <1>4, <1>5, <1>6, <1>7

LEMMA BeginWithdrawalKeeps ==
  ASSUME DeletionInv, BeginWithdrawal
  PROVE  DeletionInv'
<1> USE DeletionAssumption DEF DeletionInv
<1>1. DeletionTypeOK'
  BY DEF DeletionTypeOK, BeginWithdrawal, Manager, IdleManager
<1>2. VersionsFollow'
  BY DEF DeletionTypeOK, VersionsFollow, BeginWithdrawal, Manager, IdleManager
<1>3. ManagerInPhase'
  BY DEF DeletionTypeOK, ManagerInPhase, Active, BeginWithdrawal, Manager, IdleManager
<1>4. StagedIsSettled'
  BY DEF DeletionTypeOK, VersionsFollow, ManagerInPhase, StagedIsSettled, Staged, Active,
     BeginWithdrawal, Manager, IdleManager
<1>5. CountsCover'
  BY DEF DeletionTypeOK, ManagerInPhase, CountsCover, With, BeginWithdrawal, Manager, IdleManager
<1>6. FinalIsConfirmed'
  BY DEF DeletionTypeOK, ManagerInPhase, StagedIsSettled, Staged, CountsCover, With,
     FinalIsConfirmed,
         Active, BeginWithdrawal, Manager, IdleManager
<1>7. GoneIsUnserved'
  BY DEF DeletionTypeOK, ManagerInPhase, StagedIsSettled, Staged, FinalIsConfirmed, GoneIsUnserved,
         Unserved, Active, BeginWithdrawal, Manager, IdleManager
<1> QED BY <1>1, <1>2, <1>3, <1>4, <1>5, <1>6, <1>7

LEMMA WithdrawDNSKeeps ==
  ASSUME DeletionInv, WithdrawDNS
  PROVE  DeletionInv'
<1> USE DeletionAssumption DEF DeletionInv
<1>1. DeletionTypeOK'
  <2>1. manager' \in Managers
    BY ManagerTyped DEF WithdrawDNS
  <2>2. hitches' \in 0..MaxHitches
    BY HitchTyped DEF WithdrawDNS, DeletionTypeOK
  <2>3. records' \in BOOLEAN /\ lineage' \in BOOLEAN
    BY ZenonT(30) DEF DeletionTypeOK, WithdrawDNS
  <2> QED BY <2>1, <2>2, <2>3 DEF DeletionTypeOK, WithdrawDNS, Managers
<1>2. VersionsFollow'
  BY DEF DeletionTypeOK, VersionsFollow, WithdrawDNS, Manager, IdleManager, Hitch
<1>3. ManagerInPhase'
  BY DEF DeletionTypeOK, ManagerInPhase, Active, WithdrawDNS, Manager, IdleManager, Hitch
<1>4. StagedIsSettled'
  BY DEF DeletionTypeOK, VersionsFollow, ManagerInPhase, StagedIsSettled, Staged, Active,
     WithdrawDNS, Manager, IdleManager, Hitch
<1>5. CountsCover'
  BY DEF DeletionTypeOK, ManagerInPhase, CountsCover, With, WithdrawDNS, Manager, IdleManager,
     Hitch
<1>6. FinalIsConfirmed'
  BY DEF DeletionTypeOK, ManagerInPhase, StagedIsSettled, Staged, CountsCover, With,
     FinalIsConfirmed,
         Active, WithdrawDNS, Manager, IdleManager, Hitch
<1>7. GoneIsUnserved'
  BY DEF DeletionTypeOK, ManagerInPhase, StagedIsSettled, Staged, FinalIsConfirmed, GoneIsUnserved,
         Unserved, Active, WithdrawDNS, Manager, IdleManager, Hitch
<1> QED BY <1>1, <1>2, <1>3, <1>4, <1>5, <1>6, <1>7

LEMMA StageRemovalKeeps ==
  ASSUME DeletionInv, StageRemoval
  PROVE  DeletionInv'
<1> USE DeletionAssumption DEF DeletionInv
<1>1. CASE Hitch /\ Manager("fail") /\ UNCHANGED <<removal, states, deletion>>
  <2>1. DeletionTypeOK'
    BY <1>1, HitchTyped, ManagerTyped DEF StageRemoval, DeletionTypeOK, Managers
  <2>2. VersionsFollow'
    BY <1>1 DEF StageRemoval, VersionsFollow
  <2>3. ManagerInPhase' /\ CountsCover'
    BY <1>1, ManagerTyped DEF StageRemoval, ManagerInPhase, CountsCover, Active
  <2>4. StagedIsSettled' /\ FinalIsConfirmed' /\ GoneIsUnserved'
    BY <1>1 DEF StageRemoval, StagedIsSettled, Staged, FinalIsConfirmed, GoneIsUnserved,
       Unserved, Active
  <2> QED BY <2>1, <2>2, <2>3, <2>4
<1>2. CASE /\ removal' = [n \in Serving |-> Removal(n)]
           /\ states' = [n \in Serving |->
                IF states[n].has THEN [version |-> states[n].version + 1, has |-> FALSE] ELSE states[n]]
           /\ deletion' = [deletion EXCEPT !.phase = "waiting_for_edges", !.status = "applying"]
           /\ Manager("advance") /\ UNCHANGED hitches
  <2>1. manager' \in Managers /\ manager'.pc = "advance"
    BY <1>2, ManagerTyped
  <2>2. \A n \in Serving :
          /\ states'[n] \in [version : Nat, has : BOOLEAN] /\ ~states'[n].has
          /\ states[n].has => states'[n].version = states[n].version + 1
          /\ ~states[n].has => states'[n] = states[n]
    BY <1>2 DEF DeletionTypeOK
  <2>3. \A n \in Serving :
          \/ removal'[n] = [version |-> 0, status |-> "inactive"]
          \/ removal'[n] = [version |-> states'[n].version, status |-> "pending"]
          \/ removal'[n] = [version |-> 0, status |-> "none"] /\ member[n].applied >= states'[n].version
    BY <1>2, <2>2 DEF DeletionTypeOK, Removal, NoRemoval
  <2>4. DeletionTypeOK'
    <3>1. states' \in [Serving -> [version : Nat, has : BOOLEAN]]
      BY <1>2, <2>2
    <3>2. removal' \in [Serving -> [version : Nat,
                       status : {"none", "inactive", "pending", "succeeded", "failed", "timed_out"}]]
      <4>1. \A n \in Serving :
              removal'[n] \in [version : Nat,
                status : {"none", "inactive", "pending", "succeeded", "failed", "timed_out"}]
        <5> SUFFICES ASSUME NEW n \in Serving
                     PROVE  removal'[n] \in [version : Nat,
                              status : {"none", "inactive", "pending", "succeeded", "failed", "timed_out"}]
          OBVIOUS
        <5>1. states'[n].version \in Nat
          BY <2>2
        <5>2. PICK v \in Nat, status \in {"none", "inactive", "pending"} :
                removal'[n] = [version |-> v, status |-> status]
          BY <2>3, <5>1
        <5> QED BY <5>2
      <4> QED BY <1>2, <4>1
    <3> QED BY <1>2, <2>1, <3>1, <3>2 DEF DeletionTypeOK, StageRemoval, Managers
  <2>5. VersionsFollow'
    BY <2>2 DEF DeletionTypeOK, VersionsFollow, StageRemoval
  <2>6. ManagerInPhase'
    BY <1>2, <2>1 DEF DeletionTypeOK, ManagerInPhase, Active
  <2>7. StagedIsSettled'
    <3> SUFFICES ASSUME NEW n \in Serving
                 PROVE  /\ ~states'[n].has /\ removal'[n].status # "timed_out"
                        /\ removal'[n].status = "pending" => removal'[n].version = states'[n].version
                        /\ removal'[n].status \in {"none", "succeeded"} => ~served[n].has
      BY DEF StagedIsSettled, StageRemoval
    <3>1. CASE removal'[n] = [version |-> 0, status |-> "inactive"]
      BY <2>2, <3>1
    <3>2. CASE removal'[n] = [version |-> states'[n].version, status |-> "pending"]
      BY <2>2, <3>2
    <3>3. CASE removal'[n] = [version |-> 0, status |-> "none"] /\ member[n].applied >= states'[n].version
      <4>1. /\ member[n].applied \in Nat /\ served[n].version \in Nat /\ states[n].version \in Nat
            /\ member[n].applied <= served[n].version /\ served[n].version <= states[n].version
        BY DEF DeletionTypeOK, VersionsFollow
      <4>2. ~states[n].has /\ states'[n] = states[n]
        BY <2>2, <3>3, <4>1
      <4>3. served[n] = states[n]
        BY <3>3, <4>1, <4>2 DEF VersionsFollow
      <4> QED BY <3>3, <4>2, <4>3
    <3> QED BY <2>3, <3>1, <3>2, <3>3
  <2>8. CountsCover' /\ FinalIsConfirmed'
    BY <1>2, <2>1 DEF DeletionTypeOK, CountsCover, FinalIsConfirmed
  <2>9. GoneIsUnserved'
    BY DEF ManagerInPhase, GoneIsUnserved, StageRemoval
  <2> QED BY <2>4, <2>5, <2>6, <2>7, <2>8, <2>9
<1> QED BY <1>1, <1>2 DEF StageRemoval

LEMMA CountTargetsKeeps ==
  ASSUME DeletionInv, CountTargets
  PROVE  DeletionInv'
<1> USE DeletionAssumption DEF DeletionInv
<1>1. DeletionTypeOK'
  BY DEF DeletionTypeOK, CountTargets, With
<1>2. VersionsFollow'
  BY DEF DeletionTypeOK, VersionsFollow, CountTargets, With
<1>3. ManagerInPhase'
  BY DEF DeletionTypeOK, ManagerInPhase, Active, CountTargets, With
<1>4. StagedIsSettled'
  <2>1. \A n \in Serving :
          \/ removal'[n] = removal[n]
          \/ /\ removal[n].status = "pending" /\ member[n].applied >= removal[n].version
             /\ removal'[n] = [removal[n] EXCEPT !.status = "succeeded"]
    BY DEF CountTargets
  <2>2. Staged' => Staged
    BY DEF Staged, CountTargets
  <2> SUFFICES ASSUME Staged', NEW n \in Serving
               PROVE  /\ ~states[n].has /\ removal'[n].status # "timed_out"
                      /\ removal'[n].status = "pending" => removal'[n].version = states[n].version
                      /\ removal'[n].status \in {"none", "succeeded"} => ~served[n].has
    BY DEF StagedIsSettled, CountTargets
  <2>3. CASE removal'[n] = removal[n]
    BY <2>2, <2>3 DEF StagedIsSettled
  <2>4. CASE /\ removal[n].status = "pending" /\ member[n].applied >= removal[n].version
             /\ removal'[n] = [removal[n] EXCEPT !.status = "succeeded"]
    <3>0. /\ member[n].applied \in Nat /\ served[n].version \in Nat /\ states[n].version \in Nat
          /\ member[n].applied <= served[n].version /\ served[n].version <= states[n].version
      BY DEF DeletionTypeOK, VersionsFollow
    <3>1. served[n] = states[n] /\ ~states[n].has
      BY <2>2, <2>4, <3>0 DEF VersionsFollow, StagedIsSettled
    <3>2. removal'[n].status = "succeeded"
      BY <2>4 DEF DeletionTypeOK
    <3> QED BY <3>1, <3>2
  <2> QED BY <2>1, <2>3, <2>4
<1>5. CountsCover'
  BY DEF DeletionTypeOK, ManagerInPhase, CountsCover, With, CountTargets, With
<1>6. FinalIsConfirmed'
  BY DEF DeletionTypeOK, ManagerInPhase, StagedIsSettled, Staged, CountsCover, With,
     FinalIsConfirmed,
         Active, CountTargets, With
<1>7. GoneIsUnserved'
  BY DEF DeletionTypeOK, ManagerInPhase, StagedIsSettled, Staged, FinalIsConfirmed, GoneIsUnserved,
         Unserved, Active, CountTargets, With
<1> QED BY <1>1, <1>2, <1>3, <1>4, <1>5, <1>6, <1>7

LEMMA KeepWaitingKeeps ==
  ASSUME DeletionInv, KeepWaiting
  PROVE  DeletionInv'
<1> USE DeletionAssumption DEF DeletionInv
<1>1. DeletionTypeOK'
  BY ManagerTyped DEF DeletionTypeOK, KeepWaiting, Managers
<1>2. VersionsFollow'
  BY DEF DeletionTypeOK, VersionsFollow, KeepWaiting, Manager, IdleManager
<1>3. ManagerInPhase'
  BY DEF DeletionTypeOK, ManagerInPhase, Active, KeepWaiting, Manager, IdleManager
<1>4. StagedIsSettled'
  BY DEF DeletionTypeOK, VersionsFollow, ManagerInPhase, StagedIsSettled, Staged, Active,
     KeepWaiting, Manager, IdleManager
<1>5. CountsCover'
  BY DEF DeletionTypeOK, ManagerInPhase, CountsCover, With, KeepWaiting, Manager, IdleManager
<1>6. FinalIsConfirmed'
  BY DEF DeletionTypeOK, ManagerInPhase, StagedIsSettled, Staged, CountsCover, With,
     FinalIsConfirmed,
         Active, KeepWaiting, Manager, IdleManager
<1>7. GoneIsUnserved'
  BY DEF DeletionTypeOK, ManagerInPhase, StagedIsSettled, Staged, FinalIsConfirmed, GoneIsUnserved,
         Unserved, Active, KeepWaiting, Manager, IdleManager
<1> QED BY <1>1, <1>2, <1>3, <1>4, <1>5, <1>6, <1>7

LEMMA GiveUpTargetsKeeps ==
  ASSUME DeletionInv, GiveUpTargets
  PROVE  DeletionInv'
<1> USE DeletionAssumption DEF DeletionInv
<1>1. DeletionTypeOK'
  <2>1. removal' \in [Serving -> [version : Nat,
                      status : {"none", "inactive", "pending", "succeeded", "failed", "timed_out"}]]
    BY DEF DeletionTypeOK, GiveUpTargets
  <2>2. deletion' \in [phase : {"none", "withdrawing_dns", "waiting_for_edges", "finalizing"},
                      status : {"none", "queued", "dispatching", "applying", "failed", "succeeded"},
                      late : BOOLEAN]
    BY DEF DeletionTypeOK, GiveUpTargets
  <2>3. manager' \in Managers
    BY ManagerTyped DEF GiveUpTargets
  <2> QED BY <2>1, <2>2, <2>3 DEF DeletionTypeOK, GiveUpTargets, Managers
<1>2. VersionsFollow'
  BY DEF DeletionTypeOK, VersionsFollow, GiveUpTargets, Manager, IdleManager
<1>3. ManagerInPhase'
  BY DEF DeletionTypeOK, ManagerInPhase, Active, GiveUpTargets, Manager, IdleManager
<1>4. StagedIsSettled'
  BY DEF DeletionTypeOK, VersionsFollow, ManagerInPhase, StagedIsSettled, Staged, Active,
     GiveUpTargets, Manager, IdleManager
<1>5. CountsCover'
  BY DEF DeletionTypeOK, ManagerInPhase, CountsCover, With, GiveUpTargets, Manager, IdleManager
<1>6. FinalIsConfirmed'
  BY DEF DeletionTypeOK, ManagerInPhase, StagedIsSettled, Staged, CountsCover, With,
     FinalIsConfirmed,
         Active, GiveUpTargets, Manager, IdleManager
<1>7. GoneIsUnserved'
  BY DEF DeletionTypeOK, ManagerInPhase, StagedIsSettled, Staged, FinalIsConfirmed, GoneIsUnserved,
         Unserved, Active, GiveUpTargets, Manager, IdleManager
<1> QED BY <1>1, <1>2, <1>3, <1>4, <1>5, <1>6, <1>7

LEMMA BeginFinalizingKeeps ==
  ASSUME DeletionInv, BeginFinalizing
  PROVE  DeletionInv'
<1> USE DeletionAssumption DEF DeletionInv
<1>1. DeletionTypeOK'
  BY DEF DeletionTypeOK, BeginFinalizing, Manager, IdleManager, Undecided, SomeFailed
<1>2. VersionsFollow'
  BY DEF DeletionTypeOK, VersionsFollow, BeginFinalizing, Manager, IdleManager, Undecided,
     SomeFailed
<1>3. ManagerInPhase'
  BY DEF DeletionTypeOK, ManagerInPhase, Active, BeginFinalizing, Manager, IdleManager,
     Undecided, SomeFailed
<1>4. StagedIsSettled'
  BY DEF DeletionTypeOK, VersionsFollow, ManagerInPhase, StagedIsSettled, Staged, Active,
     BeginFinalizing, Manager, IdleManager, Undecided, SomeFailed
<1>5. CountsCover'
  BY DEF DeletionTypeOK, ManagerInPhase, CountsCover, With, BeginFinalizing, Manager,
     IdleManager, Undecided, SomeFailed
<1>6. FinalIsConfirmed'
  BY DEF DeletionTypeOK, ManagerInPhase, StagedIsSettled, Staged, CountsCover, With,
     FinalIsConfirmed,
         Active, BeginFinalizing, Manager, IdleManager, Undecided, SomeFailed
<1>7. GoneIsUnserved'
  BY DEF DeletionTypeOK, ManagerInPhase, StagedIsSettled, Staged, FinalIsConfirmed, GoneIsUnserved,
         Unserved, Active, BeginFinalizing, Manager, IdleManager, Undecided, SomeFailed
<1> QED BY <1>1, <1>2, <1>3, <1>4, <1>5, <1>6, <1>7

LEMMA DeleteLineageKeeps ==
  ASSUME DeletionInv, DeleteLineage
  PROVE  DeletionInv'
<1> USE DeletionAssumption DEF DeletionInv
<1>1. DeletionTypeOK'
  <2>1. manager' \in Managers
    BY ManagerTyped DEF DeleteLineage
  <2>2. hitches' \in 0..MaxHitches
    BY HitchTyped DEF DeleteLineage, DeletionTypeOK
  <2>3. records' \in BOOLEAN /\ lineage' \in BOOLEAN
    BY ZenonT(30) DEF DeletionTypeOK, DeleteLineage
  <2> QED BY <2>1, <2>2, <2>3 DEF DeletionTypeOK, DeleteLineage, Managers
<1>2. VersionsFollow'
  BY DEF DeletionTypeOK, VersionsFollow, DeleteLineage, Manager, IdleManager, Hitch
<1>3. ManagerInPhase'
  BY DEF DeletionTypeOK, ManagerInPhase, Active, DeleteLineage, Manager, IdleManager, Hitch
<1>4. StagedIsSettled'
  BY DEF DeletionTypeOK, VersionsFollow, ManagerInPhase, StagedIsSettled, Staged, Active,
     DeleteLineage, Manager, IdleManager, Hitch
<1>5. CountsCover'
  BY DEF DeletionTypeOK, ManagerInPhase, CountsCover, With, DeleteLineage, Manager, IdleManager,
     Hitch
<1>6. FinalIsConfirmed'
  BY DEF DeletionTypeOK, ManagerInPhase, StagedIsSettled, Staged, CountsCover, With,
     FinalIsConfirmed,
         Active, DeleteLineage, Manager, IdleManager, Hitch
<1>7. GoneIsUnserved'
  BY DEF DeletionTypeOK, ManagerInPhase, StagedIsSettled, Staged, FinalIsConfirmed, GoneIsUnserved,
         Unserved, Active, DeleteLineage, Manager, IdleManager, Hitch
<1> QED BY <1>1, <1>2, <1>3, <1>4, <1>5, <1>6, <1>7

LEMMA CompleteDeletionKeeps ==
  ASSUME DeletionInv, CompleteDeletion
  PROVE  DeletionInv'
<1> USE DeletionAssumption DEF DeletionInv
<1>1. DeletionTypeOK'
  BY DEF DeletionTypeOK, CompleteDeletion, Manager, IdleManager
<1>2. VersionsFollow'
  BY DEF DeletionTypeOK, VersionsFollow, CompleteDeletion, Manager, IdleManager
<1>3. ManagerInPhase'
  BY DEF DeletionTypeOK, ManagerInPhase, Active, CompleteDeletion, Manager, IdleManager
<1>4. StagedIsSettled'
  BY DEF DeletionTypeOK, VersionsFollow, ManagerInPhase, StagedIsSettled, Staged, Active,
     CompleteDeletion, Manager, IdleManager
<1>5. CountsCover'
  BY DEF DeletionTypeOK, ManagerInPhase, CountsCover, With, CompleteDeletion, Manager, IdleManager
<1>6. FinalIsConfirmed'
  BY DEF DeletionTypeOK, ManagerInPhase, StagedIsSettled, Staged, CountsCover, With,
     FinalIsConfirmed,
         Active, CompleteDeletion, Manager, IdleManager
<1>7. GoneIsUnserved'
  BY DEF DeletionTypeOK, ManagerInPhase, StagedIsSettled, Staged, FinalIsConfirmed, GoneIsUnserved,
         Unserved, Active, CompleteDeletion, Manager, IdleManager
<1> QED BY <1>1, <1>2, <1>3, <1>4, <1>5, <1>6, <1>7

LEMMA FailDeletionKeeps ==
  ASSUME DeletionInv, FailDeletion
  PROVE  DeletionInv'
<1> USE DeletionAssumption DEF DeletionInv
<1>1. DeletionTypeOK'
  BY DEF DeletionTypeOK, FailDeletion, Manager, IdleManager
<1>2. VersionsFollow'
  BY DEF DeletionTypeOK, VersionsFollow, FailDeletion, Manager, IdleManager
<1>3. ManagerInPhase'
  BY DEF DeletionTypeOK, ManagerInPhase, Active, FailDeletion, Manager, IdleManager
<1>4. StagedIsSettled'
  BY DEF DeletionTypeOK, VersionsFollow, ManagerInPhase, StagedIsSettled, Staged, Active,
     FailDeletion, Manager, IdleManager
<1>5. CountsCover'
  BY DEF DeletionTypeOK, ManagerInPhase, CountsCover, With, FailDeletion, Manager, IdleManager
<1>6. FinalIsConfirmed'
  BY DEF DeletionTypeOK, ManagerInPhase, StagedIsSettled, Staged, CountsCover, With,
     FinalIsConfirmed,
         Active, FailDeletion, Manager, IdleManager
<1>7. GoneIsUnserved'
  BY DEF DeletionTypeOK, ManagerInPhase, StagedIsSettled, Staged, FinalIsConfirmed, GoneIsUnserved,
         Unserved, Active, FailDeletion, Manager, IdleManager
<1> QED BY <1>1, <1>2, <1>3, <1>4, <1>5, <1>6, <1>7

\* The clock and a restart.
LEMMA DeadlinePassesKeeps ==
  ASSUME DeletionInv, DeadlinePasses
  PROVE  DeletionInv'
<1> USE DeletionAssumption DEF DeletionInv
<1>1. DeletionTypeOK'
  <2>1. hitches' \in 0..MaxHitches
    BY HitchTyped DEF DeadlinePasses, DeletionTypeOK
  <2>2. deletion' = [deletion EXCEPT !.late = TRUE]
    BY DEF DeadlinePasses
  <2>3. deletion' \in [phase : {"none", "withdrawing_dns", "waiting_for_edges", "finalizing"},
                      status : {"none", "queued", "dispatching", "applying", "failed", "succeeded"},
                      late : BOOLEAN]
    BY <2>2 DEF DeletionTypeOK
  <2> QED BY <2>1, <2>3 DEF DeletionTypeOK, DeadlinePasses
<1>2. VersionsFollow'
  BY DEF DeletionTypeOK, VersionsFollow, DeadlinePasses, Hitch
<1>3. ManagerInPhase'
  BY DEF DeletionTypeOK, ManagerInPhase, Active, DeadlinePasses, Hitch
<1>4. StagedIsSettled'
  BY DEF DeletionTypeOK, VersionsFollow, ManagerInPhase, StagedIsSettled, Staged, Active,
     DeadlinePasses, Hitch
<1>5. CountsCover'
  BY DEF DeletionTypeOK, ManagerInPhase, CountsCover, With, DeadlinePasses, Hitch
<1>6. FinalIsConfirmed'
  BY DEF DeletionTypeOK, ManagerInPhase, StagedIsSettled, Staged, CountsCover, With,
     FinalIsConfirmed,
         Active, DeadlinePasses, Hitch
<1>7. GoneIsUnserved'
  BY DEF DeletionTypeOK, ManagerInPhase, StagedIsSettled, Staged, FinalIsConfirmed, GoneIsUnserved,
         Unserved, Active, DeadlinePasses, Hitch
<1> QED BY <1>1, <1>2, <1>3, <1>4, <1>5, <1>6, <1>7

LEMMA RestartManagerKeeps ==
  ASSUME DeletionInv, RestartManager
  PROVE  DeletionInv'
<1> USE DeletionAssumption DEF DeletionInv
<1>1. DeletionTypeOK'
  BY DEF DeletionTypeOK, RestartManager, IdleManager, IdleDNS, Hitch
<1>2. VersionsFollow'
  BY DEF DeletionTypeOK, VersionsFollow, RestartManager, IdleManager, IdleDNS, Hitch
<1>3. ManagerInPhase'
  BY DEF DeletionTypeOK, ManagerInPhase, Active, RestartManager, IdleManager, IdleDNS, Hitch
<1>4. StagedIsSettled'
  BY DEF DeletionTypeOK, VersionsFollow, ManagerInPhase, StagedIsSettled, Staged, Active,
     RestartManager, IdleManager, IdleDNS, Hitch
<1>5. CountsCover'
  BY DEF DeletionTypeOK, ManagerInPhase, CountsCover, With, RestartManager, IdleManager, IdleDNS,
     Hitch
<1>6. FinalIsConfirmed'
  BY DEF DeletionTypeOK, ManagerInPhase, StagedIsSettled, Staged, CountsCover, With,
     FinalIsConfirmed,
         Active, RestartManager, IdleManager, IdleDNS, Hitch
<1>7. GoneIsUnserved'
  BY DEF DeletionTypeOK, ManagerInPhase, StagedIsSettled, Staged, FinalIsConfirmed, GoneIsUnserved,
         Unserved, Active, RestartManager, IdleManager, IdleDNS, Hitch
<1> QED BY <1>1, <1>2, <1>3, <1>4, <1>5, <1>6, <1>7

\* The edges.
LEMMA ApplyStateKeeps ==
  ASSUME DeletionInv, NEW n \in Serving, ApplyState(n)
  PROVE  DeletionInv'
<1> USE DeletionAssumption DEF DeletionInv
<1>1. DeletionTypeOK'
  BY DEF DeletionTypeOK, ApplyState, EdgesOnly
<1>2. VersionsFollow'
  BY DEF DeletionTypeOK, VersionsFollow, ApplyState, EdgesOnly
<1>3. ManagerInPhase'
  BY DEF DeletionTypeOK, ManagerInPhase, Active, ApplyState, EdgesOnly
<1>4. StagedIsSettled'
  BY DEF DeletionTypeOK, VersionsFollow, ManagerInPhase, StagedIsSettled, Staged, Active,
     ApplyState, EdgesOnly
<1>5. CountsCover'
  BY DEF DeletionTypeOK, ManagerInPhase, CountsCover, With, ApplyState, EdgesOnly
<1>6. FinalIsConfirmed'
  BY DEF DeletionTypeOK, ManagerInPhase, StagedIsSettled, Staged, CountsCover, With,
     FinalIsConfirmed,
         Active, ApplyState, EdgesOnly
<1>7. GoneIsUnserved'
  BY DEF DeletionTypeOK, ManagerInPhase, StagedIsSettled, Staged, FinalIsConfirmed, GoneIsUnserved,
         Unserved, Active, ApplyState, EdgesOnly
<1> QED BY <1>1, <1>2, <1>3, <1>4, <1>5, <1>6, <1>7

LEMMA ConfirmStateKeeps ==
  ASSUME DeletionInv, NEW n \in Serving, ConfirmState(n)
  PROVE  DeletionInv'
<1> USE DeletionAssumption DEF DeletionInv
<1>1. DeletionTypeOK'
  <2>1. removal' \in [Serving -> [version : Nat,
                      status : {"none", "inactive", "pending", "succeeded", "failed", "timed_out"}]]
    <3>1. CASE removal' = removal
      BY <3>1 DEF DeletionTypeOK
    <3>2. CASE removal' = Reported(n, served[n].version, "succeeded")
      BY <3>2 DEF DeletionTypeOK, Reported
    <3> QED BY <3>1, <3>2 DEF ConfirmState
  <2>2. member' \in [Serving -> [active : BOOLEAN, applied : Nat]]
    BY DEF DeletionTypeOK, ConfirmState
  <2> QED BY <2>1, <2>2 DEF DeletionTypeOK, ConfirmState, EdgesOnly
<1>2. VersionsFollow'
  BY DEF DeletionTypeOK, VersionsFollow, ConfirmState, EdgesOnly, Reported
<1>3. ManagerInPhase'
  BY DEF DeletionTypeOK, ManagerInPhase, Active, ConfirmState, EdgesOnly, Reported
<1>4. StagedIsSettled'
  <2>1. CASE removal' = removal
    BY <2>1 DEF DeletionTypeOK, StagedIsSettled, Staged, ConfirmState, EdgesOnly
  <2>2. CASE removal' = Reported(n, served[n].version, "succeeded")
    <3> SUFFICES ASSUME Staged, NEW m \in Serving
                 PROVE  /\ ~states[m].has /\ removal'[m].status # "timed_out"
                        /\ removal'[m].status = "pending" => removal'[m].version = states[m].version
                        /\ removal'[m].status \in {"none", "succeeded"} => ~served[m].has
      BY DEF StagedIsSettled, Staged, ConfirmState, EdgesOnly
    <3>1. CASE removal'[m] = removal[m]
      BY <3>1 DEF StagedIsSettled
    <3>2. CASE /\ m = n /\ removal[n].status = "pending" /\ removal[n].version <= served[n].version
               /\ removal'[n] = [removal[n] EXCEPT !.status = "succeeded"]
      <4>1. removal[n].version = states[n].version /\ ~states[n].has
        BY <3>2 DEF StagedIsSettled
      <4>2. served[n] = states[n]
        <5>1. /\ served[n].version \in Nat /\ states[n].version \in Nat
              /\ served[n].version <= states[n].version
          BY DEF DeletionTypeOK, VersionsFollow
        <5> QED BY <3>2, <4>1, <5>1 DEF VersionsFollow
      <4>3. removal'[n].status = "succeeded"
        BY <3>2 DEF DeletionTypeOK
      <4> QED BY <3>2, <4>1, <4>2, <4>3
    <3> QED BY <2>2, <3>1, <3>2 DEF Reported, DeletionTypeOK
  <2> QED BY <2>1, <2>2 DEF ConfirmState
<1>5. CountsCover'
  BY DEF DeletionTypeOK, ManagerInPhase, CountsCover, With, ConfirmState, EdgesOnly, Reported
<1>6. FinalIsConfirmed'
  BY DEF DeletionTypeOK, ManagerInPhase, StagedIsSettled, Staged, CountsCover, With,
     FinalIsConfirmed,
         Active, ConfirmState, EdgesOnly, Reported
<1>7. GoneIsUnserved'
  BY DEF DeletionTypeOK, ManagerInPhase, StagedIsSettled, Staged, FinalIsConfirmed, GoneIsUnserved,
         Unserved, Active, ConfirmState, EdgesOnly, Reported
<1> QED BY <1>1, <1>2, <1>3, <1>4, <1>5, <1>6, <1>7

LEMMA RejectStateKeeps ==
  ASSUME DeletionInv, NEW n \in Serving, RejectState(n)
  PROVE  DeletionInv'
<1> USE DeletionAssumption DEF DeletionInv
<1>1. DeletionTypeOK'
  BY DEF DeletionTypeOK, RejectState, EdgesOnly, Reported, Hitch
<1>2. VersionsFollow'
  BY DEF DeletionTypeOK, VersionsFollow, RejectState, EdgesOnly, Reported, Hitch
<1>3. ManagerInPhase'
  BY DEF DeletionTypeOK, ManagerInPhase, Active, RejectState, EdgesOnly, Reported, Hitch
<1>4. StagedIsSettled'
  BY DEF DeletionTypeOK, VersionsFollow, ManagerInPhase, StagedIsSettled, Staged, Active,
     RejectState, EdgesOnly, Reported, Hitch
<1>5. CountsCover'
  BY DEF DeletionTypeOK, ManagerInPhase, CountsCover, With, RejectState, EdgesOnly, Reported, Hitch
<1>6. FinalIsConfirmed'
  BY DEF DeletionTypeOK, ManagerInPhase, StagedIsSettled, Staged, CountsCover, With,
     FinalIsConfirmed,
         Active, RejectState, EdgesOnly, Reported, Hitch
<1>7. GoneIsUnserved'
  BY DEF DeletionTypeOK, ManagerInPhase, StagedIsSettled, Staged, FinalIsConfirmed, GoneIsUnserved,
         Unserved, Active, RejectState, EdgesOnly, Reported, Hitch
<1> QED BY <1>1, <1>2, <1>3, <1>4, <1>5, <1>6, <1>7

LEMMA LoseEdgeKeeps ==
  ASSUME DeletionInv, NEW n \in Serving, LoseEdge(n)
  PROVE  DeletionInv'
<1> USE DeletionAssumption DEF DeletionInv
<1>1. DeletionTypeOK'
  BY DEF DeletionTypeOK, LoseEdge, EdgesOnly, Hitch
<1>2. VersionsFollow'
  BY DEF DeletionTypeOK, VersionsFollow, LoseEdge, EdgesOnly, Hitch
<1>3. ManagerInPhase'
  BY DEF DeletionTypeOK, ManagerInPhase, Active, LoseEdge, EdgesOnly, Hitch
<1>4. StagedIsSettled'
  BY DEF DeletionTypeOK, VersionsFollow, ManagerInPhase, StagedIsSettled, Staged, Active,
     LoseEdge, EdgesOnly, Hitch
<1>5. CountsCover'
  BY DEF DeletionTypeOK, ManagerInPhase, CountsCover, With, LoseEdge, EdgesOnly, Hitch
<1>6. FinalIsConfirmed'
  BY DEF DeletionTypeOK, ManagerInPhase, StagedIsSettled, Staged, CountsCover, With,
     FinalIsConfirmed,
         Active, LoseEdge, EdgesOnly, Hitch
<1>7. GoneIsUnserved'
  BY DEF DeletionTypeOK, ManagerInPhase, StagedIsSettled, Staged, FinalIsConfirmed, GoneIsUnserved,
         Unserved, Active, LoseEdge, EdgesOnly, Hitch
<1> QED BY <1>1, <1>2, <1>3, <1>4, <1>5, <1>6, <1>7

LEMMA RepairEdgeKeeps ==
  ASSUME DeletionInv, NEW n \in Serving, RepairEdge(n)
  PROVE  DeletionInv'
<1> USE DeletionAssumption DEF DeletionInv
<1>1. DeletionTypeOK'
  BY DEF DeletionTypeOK, RepairEdge, EdgesOnly
<1>2. VersionsFollow'
  BY DEF DeletionTypeOK, VersionsFollow, RepairEdge, EdgesOnly
<1>3. ManagerInPhase'
  BY DEF DeletionTypeOK, ManagerInPhase, Active, RepairEdge, EdgesOnly
<1>4. StagedIsSettled'
  BY DEF DeletionTypeOK, VersionsFollow, ManagerInPhase, StagedIsSettled, Staged, Active,
     RepairEdge, EdgesOnly
<1>5. CountsCover'
  BY DEF DeletionTypeOK, ManagerInPhase, CountsCover, With, RepairEdge, EdgesOnly
<1>6. FinalIsConfirmed'
  BY DEF DeletionTypeOK, ManagerInPhase, StagedIsSettled, Staged, CountsCover, With,
     FinalIsConfirmed,
         Active, RepairEdge, EdgesOnly
<1>7. GoneIsUnserved'
  BY DEF DeletionTypeOK, ManagerInPhase, StagedIsSettled, Staged, FinalIsConfirmed, GoneIsUnserved,
         Unserved, Active, RepairEdge, EdgesOnly
<1> QED BY <1>1, <1>2, <1>3, <1>4, <1>5, <1>6, <1>7

LEMMA SetNodeStatusKeeps ==
  ASSUME DeletionInv, NEW n \in Serving, SetNodeStatus(n)
  PROVE  DeletionInv'
<1> USE DeletionAssumption DEF DeletionInv
<1>1. DeletionTypeOK'
  <2>1. hitches' \in 0..MaxHitches
    BY HitchTyped DEF SetNodeStatus
  <2>2. member' \in [Serving -> [active : BOOLEAN, applied : Nat]]
    BY ZenonT(30) DEF DeletionTypeOK, SetNodeStatus
  <2> QED BY <2>1, <2>2 DEF DeletionTypeOK, SetNodeStatus, EdgesOnly
<1>2. VersionsFollow'
  BY DEF DeletionTypeOK, VersionsFollow, SetNodeStatus, EdgesOnly, Hitch
<1>3. ManagerInPhase'
  BY DEF DeletionTypeOK, ManagerInPhase, Active, SetNodeStatus, EdgesOnly, Hitch
<1>4. StagedIsSettled'
  BY DEF DeletionTypeOK, VersionsFollow, ManagerInPhase, StagedIsSettled, Staged, Active,
     SetNodeStatus, EdgesOnly, Hitch
<1>5. CountsCover'
  BY DEF DeletionTypeOK, ManagerInPhase, CountsCover, With, SetNodeStatus, EdgesOnly, Hitch
<1>6. FinalIsConfirmed'
  BY DEF DeletionTypeOK, ManagerInPhase, StagedIsSettled, Staged, CountsCover, With,
     FinalIsConfirmed,
         Active, SetNodeStatus, EdgesOnly, Hitch
<1>7. GoneIsUnserved'
  BY DEF DeletionTypeOK, ManagerInPhase, StagedIsSettled, Staged, FinalIsConfirmed, GoneIsUnserved,
         Unserved, Active, SetNodeStatus, EdgesOnly, Hitch
<1> QED BY <1>1, <1>2, <1>3, <1>4, <1>5, <1>6, <1>7

LEMMA RenderOtherKeeps ==
  ASSUME DeletionInv, ~OthersMeanwhile, NEW n \in Serving, RenderOther(n)
  PROVE  DeletionInv'
<1> USE DeletionAssumption DEF DeletionInv
<1>1. DeletionTypeOK'
  BY DEF DeletionTypeOK, RenderOther, EdgesOnly
<1>2. VersionsFollow'
  BY DEF DeletionTypeOK, VersionsFollow, RenderOther, EdgesOnly
<1>3. ManagerInPhase'
  BY DEF DeletionTypeOK, ManagerInPhase, Active, RenderOther, EdgesOnly
<1>4. StagedIsSettled'
  BY DEF DeletionTypeOK, VersionsFollow, ManagerInPhase, StagedIsSettled, Staged, Active,
     RenderOther, EdgesOnly
<1>5. CountsCover'
  BY DEF DeletionTypeOK, ManagerInPhase, CountsCover, With, RenderOther, EdgesOnly
<1>6. FinalIsConfirmed'
  BY DEF DeletionTypeOK, ManagerInPhase, StagedIsSettled, Staged, CountsCover, With,
     FinalIsConfirmed,
         Active, RenderOther, EdgesOnly
<1>7. GoneIsUnserved'
  BY DEF DeletionTypeOK, ManagerInPhase, StagedIsSettled, Staged, FinalIsConfirmed, GoneIsUnserved,
         Unserved, Active, RenderOther, EdgesOnly
<1> QED BY <1>1, <1>2, <1>3, <1>4, <1>5, <1>6, <1>7

\* The DNS part of a health round touches none of this.
LEMMA RoundReadsKeeps ==
  ASSUME DeletionInv, RoundReads
  PROVE  DeletionInv'
<1> USE DeletionAssumption DEF DeletionInv
<1>1. DeletionTypeOK'
  BY DEF DeletionTypeOK, RoundReads, RoundOnly, DNSRound, IdleDNS, Hitch
<1>2. VersionsFollow'
  BY DEF DeletionTypeOK, VersionsFollow, RoundReads, RoundOnly, DNSRound, IdleDNS, Hitch
<1>3. ManagerInPhase'
  BY DEF DeletionTypeOK, ManagerInPhase, Active, RoundReads, RoundOnly, DNSRound, IdleDNS, Hitch
<1>4. StagedIsSettled'
  BY DEF DeletionTypeOK, VersionsFollow, ManagerInPhase, StagedIsSettled, Staged, Active,
     RoundReads, RoundOnly, DNSRound, IdleDNS, Hitch
<1>5. CountsCover'
  BY DEF DeletionTypeOK, ManagerInPhase, CountsCover, With, RoundReads, RoundOnly, DNSRound,
     IdleDNS, Hitch
<1>6. FinalIsConfirmed'
  BY DEF DeletionTypeOK, ManagerInPhase, StagedIsSettled, Staged, CountsCover, With,
     FinalIsConfirmed,
         Active, RoundReads, RoundOnly, DNSRound, IdleDNS, Hitch
<1>7. GoneIsUnserved'
  BY DEF DeletionTypeOK, ManagerInPhase, StagedIsSettled, Staged, FinalIsConfirmed, GoneIsUnserved,
         Unserved, Active, RoundReads, RoundOnly, DNSRound, IdleDNS, Hitch
<1> QED BY <1>1, <1>2, <1>3, <1>4, <1>5, <1>6, <1>7

LEMMA RoundChecksKeeps ==
  ASSUME DeletionInv, RoundChecks
  PROVE  DeletionInv'
<1> USE DeletionAssumption DEF DeletionInv
<1>1. DeletionTypeOK'
  BY DEF DeletionTypeOK, RoundChecks, RoundOnly, DNSRound, IdleDNS, Hitch
<1>2. VersionsFollow'
  BY DEF DeletionTypeOK, VersionsFollow, RoundChecks, RoundOnly, DNSRound, IdleDNS, Hitch
<1>3. ManagerInPhase'
  BY DEF DeletionTypeOK, ManagerInPhase, Active, RoundChecks, RoundOnly, DNSRound, IdleDNS, Hitch
<1>4. StagedIsSettled'
  BY DEF DeletionTypeOK, VersionsFollow, ManagerInPhase, StagedIsSettled, Staged, Active,
     RoundChecks, RoundOnly, DNSRound, IdleDNS, Hitch
<1>5. CountsCover'
  BY DEF DeletionTypeOK, ManagerInPhase, CountsCover, With, RoundChecks, RoundOnly, DNSRound,
     IdleDNS, Hitch
<1>6. FinalIsConfirmed'
  BY DEF DeletionTypeOK, ManagerInPhase, StagedIsSettled, Staged, CountsCover, With,
     FinalIsConfirmed,
         Active, RoundChecks, RoundOnly, DNSRound, IdleDNS, Hitch
<1>7. GoneIsUnserved'
  BY DEF DeletionTypeOK, ManagerInPhase, StagedIsSettled, Staged, FinalIsConfirmed, GoneIsUnserved,
         Unserved, Active, RoundChecks, RoundOnly, DNSRound, IdleDNS, Hitch
<1> QED BY <1>1, <1>2, <1>3, <1>4, <1>5, <1>6, <1>7

LEMMA RoundReconcilesKeeps ==
  ASSUME DeletionInv, RoundReconciles
  PROVE  DeletionInv'
<1> USE DeletionAssumption DEF DeletionInv
<1>1. DeletionTypeOK'
  <2>1. hitches' \in 0..MaxHitches
    BY HitchTyped DEF RoundReconciles, DeletionTypeOK
  <2>2. records' \in BOOLEAN
    BY ZenonT(30) DEF DeletionTypeOK, RoundReconciles
  <2> QED BY <2>1, <2>2 DEF DeletionTypeOK, RoundReconciles, RoundOnly, IdleDNS
<1>2. VersionsFollow'
  BY DEF DeletionTypeOK, VersionsFollow, RoundReconciles, RoundOnly, DNSRound, IdleDNS, Hitch
<1>3. ManagerInPhase'
  BY DEF DeletionTypeOK, ManagerInPhase, Active, RoundReconciles, RoundOnly, DNSRound, IdleDNS,
     Hitch
<1>4. StagedIsSettled'
  BY DEF DeletionTypeOK, VersionsFollow, ManagerInPhase, StagedIsSettled, Staged, Active,
     RoundReconciles, RoundOnly, DNSRound, IdleDNS, Hitch
<1>5. CountsCover'
  BY DEF DeletionTypeOK, ManagerInPhase, CountsCover, With, RoundReconciles, RoundOnly, DNSRound,
     IdleDNS, Hitch
<1>6. FinalIsConfirmed'
  BY DEF DeletionTypeOK, ManagerInPhase, StagedIsSettled, Staged, CountsCover, With,
     FinalIsConfirmed,
         Active, RoundReconciles, RoundOnly, DNSRound, IdleDNS, Hitch
<1>7. GoneIsUnserved'
  BY DEF DeletionTypeOK, ManagerInPhase, StagedIsSettled, Staged, FinalIsConfirmed, GoneIsUnserved,
         Unserved, Active, RoundReconciles, RoundOnly, DNSRound, IdleDNS, Hitch
<1> QED BY <1>1, <1>2, <1>3, <1>4, <1>5, <1>6, <1>7

\* Every step of a deletion, or beside one, keeps the invariant.
LEMMA DeletionStepKeeps ==
  ASSUME DeletionInv, ~OthersMeanwhile, [DeletionNext]_deletionVars
  PROVE  DeletionInv'
<1>1. CASE StartDeletion
  BY <1>1, StartDeletionKeeps
<1>2. CASE ResumeDeletion
  BY <1>2, ResumeDeletionKeeps
<1>3. CASE BeginWithdrawal
  BY <1>3, BeginWithdrawalKeeps
<1>4. CASE WithdrawDNS
  BY <1>4, WithdrawDNSKeeps
<1>5. CASE StageRemoval
  BY <1>5, StageRemovalKeeps
<1>6. CASE CountTargets
  BY <1>6, CountTargetsKeeps
<1>7. CASE KeepWaiting
  BY <1>7, KeepWaitingKeeps
<1>8. CASE GiveUpTargets
  BY <1>8, GiveUpTargetsKeeps
<1>9. CASE BeginFinalizing
  BY <1>9, BeginFinalizingKeeps
<1>10. CASE DeleteLineage
  BY <1>10, DeleteLineageKeeps
<1>11. CASE CompleteDeletion
  BY <1>11, CompleteDeletionKeeps
<1>12. CASE FailDeletion
  BY <1>12, FailDeletionKeeps
<1>13. CASE DeadlinePasses
  BY <1>13, DeadlinePassesKeeps
<1>14. CASE RestartManager
  BY <1>14, RestartManagerKeeps
<1>15. CASE RoundReads
  BY <1>15, RoundReadsKeeps
<1>16. CASE RoundChecks
  BY <1>16, RoundChecksKeeps
<1>17. CASE RoundReconciles
  BY <1>17, RoundReconcilesKeeps
<1>18. ASSUME NEW n \in Serving,
            \/ ApplyState(n) \/ ConfirmState(n) \/ RejectState(n) \/ LoseEdge(n)
            \/ RepairEdge(n) \/ SetNodeStatus(n) \/ RenderOther(n)
     PROVE  DeletionInv'
  BY <1>18, ApplyStateKeeps, ConfirmStateKeeps, RejectStateKeeps, LoseEdgeKeeps,
     RepairEdgeKeeps, SetNodeStatusKeeps, RenderOtherKeeps
<1>19. CASE UNCHANGED deletionVars
  BY <1>19 DEF deletionVars, DeletionInv, DeletionTypeOK, VersionsFollow, ManagerInPhase,
     StagedIsSettled,
     Staged, CountsCover, With, FinalIsConfirmed, GoneIsUnserved, Unserved, Active
<1> QED BY <1>1, <1>2, <1>3, <1>4, <1>5, <1>6, <1>7, <1>8, <1>9, <1>10, <1>11, <1>12, <1>13,
   <1>14, <1>15, <1>16, <1>17, <1>18, <1>19
     DEF DeletionNext, ManagerStep

LEMMA DeletionStarts ==
  ASSUME DeletionInit
  PROVE  DeletionInv
<1> USE DeletionAssumption DEF DeletionInit, DeletionInv
<1>1. \A n \in Serving : /\ states[n] = [version |-> 1, has |-> siteRow.published]
                         /\ served[n] = states[n] /\ member[n].applied = 1
  OBVIOUS
<1>2. DeletionTypeOK
  <2>1. siteRow \in [exists : BOOLEAN, published : BOOLEAN, deleting : BOOLEAN] /\ siteRow.exists
    OBVIOUS
  <2>2. states \in [Serving -> [version : Nat, has : BOOLEAN]] /\ served = states
    BY <2>1
  <2>3. member \in [Serving -> [active : BOOLEAN, applied : Nat]]
    OBVIOUS
  <2>4. records \in BOOLEAN /\ lineage \in BOOLEAN
    <3>1. siteRow.published \in BOOLEAN
      BY <2>1
    <3> QED BY <3>1, ZenonT(30)
  <2> QED BY <2>1, <2>2, <2>3, <2>4 DEF DeletionTypeOK, NoRemoval, IdleManager, IdleDNS
<1>3. VersionsFollow
  <2> SUFFICES ASSUME NEW n \in Serving
               PROVE  /\ member[n].applied <= served[n].version /\ served[n].version <= states[n].version
                      /\ served[n] = states[n]
    BY DEF VersionsFollow
  <2>1. states[n].version = 1 /\ served[n] = states[n] /\ member[n].applied = 1
    BY <1>1
  <2>2. served[n].version = 1
    BY <2>1
  <2> HIDE DEF DeletionInit, DeletionInv
  <2> QED BY <2>1, <2>2
<1>4. ~Active(deletion.status) /\ manager.pc = "idle" /\ siteRow.exists
  BY DEF Active, IdleManager
<1> QED BY <1>2, <1>3, <1>4 DEF ManagerInPhase, StagedIsSettled, Staged, CountsCover,
   FinalIsConfirmed,
           GoneIsUnserved

\* Only DeleteLineage takes the lineage.
LEMMA LineageEndsOnce ==
  ASSUME [DeletionNext]_deletionVars, lineage, ~lineage'
  PROVE  DeleteLineage
<1>1. ~(UNCHANGED lineage)
  OBVIOUS
<1> QED
  BY <1>1 DEF DeletionNext, ManagerStep, StartDeletion, ResumeDeletion, BeginWithdrawal,
     WithdrawDNS,
     StageRemoval, CountTargets, KeepWaiting, GiveUpTargets, BeginFinalizing, CompleteDeletion,
     FailDeletion, DeadlinePasses, RestartManager, ApplyState, ConfirmState, RejectState, LoseEdge,
     RepairEdge, SetNodeStatus, RenderOther, EdgesOnly, RoundReads, RoundChecks, RoundReconciles,
     RoundOnly, deletionVars

\* The lineage goes when every target is settled, and the site is gone only then.
LEMMA ServiceHasEnded ==
  ASSUME DeletionInv, DeletionInv', [DeletionNext]_deletionVars
  PROVE  (lineage /\ ~lineage') \/ ~siteRow'.exists => Unserved'
<1>1. CASE ~siteRow'.exists
  BY <1>1 DEF DeletionInv, GoneIsUnserved
<1>2. CASE lineage /\ ~lineage'
  <2>1. DeleteLineage
    BY <1>2, LineageEndsOnce
  <2>2. Staged /\ deletion.phase = "finalizing"
    BY <2>1 DEF DeleteLineage, DeletionInv, ManagerInPhase, Staged
  <2>3. Unserved
    BY <2>2 DEF DeletionInv, StagedIsSettled, FinalIsConfirmed, Staged, Unserved
  <2> QED BY <2>1, <2>3 DEF DeleteLineage, Unserved
<1> QED BY <1>1, <1>2

\* Whatever calls fail, deadlines pass or restarts come between: the lineage and
\* the row of a site go only when no desired state has the site and no edge that
\* was asked to drop it serves it (control/site_deletion.go, advance).  Assumed is
\* that other sites are not rendered meanwhile: publicationMaterials would put the
\* site back, as the findings say.
THEOREM DeletionEndsService ==
  ASSUME ~OthersMeanwhile
  PROVE  DeletionSpec => ServiceEndsFirst
<1>1. DeletionInit => DeletionInv
  BY DeletionStarts
<1>2. DeletionInv /\ [DeletionNext]_deletionVars => DeletionInv'
  BY DeletionStepKeeps
<1>3. DeletionInv => DeletionTypeOK
  BY DEF DeletionInv
<1>4. DeletionInv /\ DeletionInv' /\ [DeletionNext]_deletionVars
      => [(lineage /\ ~lineage') \/ ~siteRow'.exists => Unserved']_deletionVars
  BY ServiceHasEnded
<1> QED BY <1>1, <1>2, <1>3, <1>4, PTL DEF DeletionSpec, ServiceEndsFirst

-----------------------------------------------------------------------------
(* Static resources *)

DesiredStates == [state : States, version : Nat]
EdgeRounds == [has : SUBSET Objects, serves : States, before : States, applied : Nat,
               at : {"idle", "sync", "persist", "clean"}, next : DesiredStates]

AssetStateOK ==
  /\ rows \subseteq Objects /\ files \subseteq Objects /\ bindings \in States
  /\ wanted \in [Carriers -> DesiredStates]
  /\ change \in [at : {"idle", "publish", "withdraw", "row", "file"}, object : SUBSET Objects,
                 undo : States, withdrawn : BOOLEAN]
  /\ leftBehind \in BOOLEAN
  /\ carrier \in [Carriers -> EdgeRounds]

\* A request that may put the former bindings back has not removed their objects;
\* one that removes an object has unbound it.
ChangeIsReversible ==
  /\ change.at \in {"publish", "withdraw"} => Refers(change.undo) \subseteq rows
  /\ change.at \in {"publish", "row", "file"} => change.object \intersect Refers(bindings) = {}
  /\ change.at = "file" => change.object \intersect rows = {}

Synced == \A n \in Carriers : wanted[n].state = bindings

\* The desired states differ from the bindings only within a request that is going
\* to publish them, or when one was left unpublished.
Unpublished ==
  change.at = "publish" \/ (change.at = "withdraw" /\ change.withdrawn) \/ leftBehind

UnsyncedIsKnown == Synced \/ Unpublished

\* What nginx has loaded and what it may return to is there.
RoundKeepsObjects ==
  \A n \in Carriers :
    /\ carrier[n].next.version <= wanted[n].version
    /\ carrier[n].at \in {"persist", "clean"} => carrier[n].serves = carrier[n].next.state
    /\ carrier[n].at = "persist" => Refers(carrier[n].before) \subseteq carrier[n].has

AppliedIsKnown == \A n \in Carriers : carrier[n].applied <= wanted[n].version

AssetInv ==
  /\ AssetStateOK /\ ChangeIsReversible /\ UnsyncedIsKnown /\ RoundKeepsObjects
  /\ BoundObjectsExist /\ ServedObjectsPresent /\ (leftBehind \/ ObjectsFetchable) /\ AppliedIsKnown

\* What is bound after a change was bound before or is the new object.
LEMMA BindingsAreStates ==
  ASSUME NEW f \in States
  PROVE  /\ \A p : Without(f, p) \in States /\ Refers(Without(f, p)) \subseteq Refers(f)
         /\ \A p \in Paths, object \in Objects :
              With1(f, p, object) \in States /\ Refers(With1(f, p, object)) \subseteq Refers(f) \union {object}
         /\ Refers(f) \subseteq Objects
         /\ \A p \in DOMAIN f : f[p] \in Refers(f)
<1>1. PICK P \in SUBSET Paths : f \in [P -> Objects]
  BY DEF States
<1>2. ASSUME NEW p
      PROVE  Without(f, p) \in States /\ Refers(Without(f, p)) \subseteq Refers(f)
  <2>1. Without(f, p) \in [P \ {p} -> Objects]
    BY <1>1 DEF Without, Restrict
  <2>2. P \ {p} \in SUBSET Paths
    OBVIOUS
  <2> QED BY <1>1, <2>1, <2>2 DEF States, Refers, Range, Without, Restrict
<1>3. ASSUME NEW p \in Paths, NEW object \in Objects
      PROVE  With1(f, p, object) \in States /\ Refers(With1(f, p, object)) \subseteq Refers(f) \union {object}
  <2>1. With1(f, p, object) \in [P \union {p} -> Objects]
    BY <1>1 DEF With1
  <2>2. P \union {p} \in SUBSET Paths
    OBVIOUS
  <2> QED BY <1>1, <2>1, <2>2 DEF States, Refers, Range, With1
<1>4. Refers(f) \subseteq Objects /\ \A p \in DOMAIN f : f[p] \in Refers(f)
  BY <1>1 DEF Refers, Range
<1> QED BY <1>2, <1>3, <1>4

LEMMA NothingBound == <<>> \in States /\ Refers(<<>>) = {}
<1>1. <<>> \in [{} -> Objects]
  OBVIOUS
<1>2. {} \in SUBSET Paths
  OBVIOUS
<1> QED BY <1>1, <1>2 DEF States, Refers, Range

\* An object that no path is bound to is not referred to.
LEMMA UnboundIsUnreferred ==
  ASSUME NEW object, Bound(object) = {}
  PROVE  object \notin Refers(bindings)
BY DEF Bound, Refers, Range

\* The requests of the administrator.
LEMMA UploadKeeps ==
  ASSUME AssetInv, NEW object \in Objects, Upload(object)
  PROVE  AssetInv'
<1> USE AssetAssumption DEF AssetInv, AppliedIsKnown
<1>1. AssetStateOK'
  BY BindingsAreStates, NothingBound DEF AssetStateOK, DesiredStates, EdgeRounds, Upload, Request
<1>2. ChangeIsReversible'
  BY BindingsAreStates, NothingBound DEF AssetStateOK, ChangeIsReversible, BoundObjectsExist,
     Upload, Request
<1>3. UnsyncedIsKnown'
  BY DEF AssetStateOK, UnsyncedIsKnown, Synced, Unpublished, Upload, Request
<1>4. RoundKeepsObjects'
  BY DEF AssetStateOK, DesiredStates, EdgeRounds, RoundKeepsObjects, Upload, Request
<1>5. BoundObjectsExist'
  BY BindingsAreStates DEF AssetStateOK, ChangeIsReversible, BoundObjectsExist, Upload, Request
<1>6. ServedObjectsPresent'
  BY DEF AssetStateOK, DesiredStates, EdgeRounds, RoundKeepsObjects, ServedObjectsPresent,
     Upload, Request
<1>7. (leftBehind \/ ObjectsFetchable)'
  BY DEF AssetStateOK, DesiredStates, EdgeRounds, ChangeIsReversible, UnsyncedIsKnown, Synced,
     Unpublished,
         BoundObjectsExist, ObjectsFetchable, Upload, Request
<1>8. AppliedIsKnown'
  BY DEF AssetStateOK, DesiredStates, EdgeRounds, RoundKeepsObjects, Upload, Request
<1> QED BY <1>1, <1>2, <1>3, <1>4, <1>5, <1>6, <1>7, <1>8

LEMMA CreateBindingKeeps ==
  ASSUME AssetInv, NEW p \in Paths, NEW object \in Objects, CreateBinding(p, object)
  PROVE  AssetInv'
<1> USE AssetAssumption DEF AssetInv, AppliedIsKnown
<1>1. AssetStateOK'
  BY BindingsAreStates, NothingBound DEF AssetStateOK, DesiredStates, EdgeRounds, CreateBinding,
     Request, Bind, NoChange
<1>2. ChangeIsReversible'
  BY BindingsAreStates, NothingBound DEF AssetStateOK, ChangeIsReversible, BoundObjectsExist,
     CreateBinding, Request, Bind, NoChange
<1>3. UnsyncedIsKnown'
  BY DEF AssetStateOK, UnsyncedIsKnown, Synced, Unpublished, CreateBinding, Request, Bind, NoChange
<1>4. RoundKeepsObjects'
  BY DEF AssetStateOK, DesiredStates, EdgeRounds, RoundKeepsObjects, CreateBinding, Request,
     Bind, NoChange
<1>5. BoundObjectsExist'
  BY BindingsAreStates DEF AssetStateOK, ChangeIsReversible, BoundObjectsExist, CreateBinding,
     Request, Bind, NoChange
<1>6. ServedObjectsPresent'
  BY DEF AssetStateOK, DesiredStates, EdgeRounds, RoundKeepsObjects, ServedObjectsPresent,
     CreateBinding, Request, Bind, NoChange
<1>7. (leftBehind \/ ObjectsFetchable)'
  BY DEF AssetStateOK, DesiredStates, EdgeRounds, ChangeIsReversible, UnsyncedIsKnown, Synced,
     Unpublished,
         BoundObjectsExist, ObjectsFetchable, CreateBinding, Request, Bind, NoChange
<1>8. AppliedIsKnown'
  BY DEF AssetStateOK, DesiredStates, EdgeRounds, RoundKeepsObjects, CreateBinding, Request,
     Bind, NoChange
<1> QED BY <1>1, <1>2, <1>3, <1>4, <1>5, <1>6, <1>7, <1>8

LEMMA MoveBindingKeeps ==
  ASSUME AssetInv, NEW p \in Paths, NEW q \in Paths, MoveBinding(p, q)
  PROVE  AssetInv'
<1> USE AssetAssumption DEF AssetInv, AppliedIsKnown
<1>1. AssetStateOK'
  BY BindingsAreStates, NothingBound DEF AssetStateOK, DesiredStates, EdgeRounds, MoveBinding,
     Request, Bind, NoChange
<1>2. ChangeIsReversible'
  BY BindingsAreStates, NothingBound DEF AssetStateOK, ChangeIsReversible, BoundObjectsExist,
     MoveBinding, Request, Bind, NoChange
<1>3. UnsyncedIsKnown'
  BY DEF AssetStateOK, UnsyncedIsKnown, Synced, Unpublished, MoveBinding, Request, Bind, NoChange
<1>4. RoundKeepsObjects'
  BY DEF AssetStateOK, DesiredStates, EdgeRounds, RoundKeepsObjects, MoveBinding, Request, Bind,
     NoChange
<1>5. BoundObjectsExist'
  BY BindingsAreStates DEF AssetStateOK, ChangeIsReversible, BoundObjectsExist, MoveBinding,
     Request, Bind, NoChange
<1>6. ServedObjectsPresent'
  BY DEF AssetStateOK, DesiredStates, EdgeRounds, RoundKeepsObjects, ServedObjectsPresent,
     MoveBinding, Request, Bind, NoChange
<1>7. (leftBehind \/ ObjectsFetchable)'
  BY DEF AssetStateOK, DesiredStates, EdgeRounds, ChangeIsReversible, UnsyncedIsKnown, Synced,
     Unpublished,
         BoundObjectsExist, ObjectsFetchable, MoveBinding, Request, Bind, NoChange
<1>8. AppliedIsKnown'
  BY DEF AssetStateOK, DesiredStates, EdgeRounds, RoundKeepsObjects, MoveBinding, Request, Bind,
     NoChange
<1> QED BY <1>1, <1>2, <1>3, <1>4, <1>5, <1>6, <1>7, <1>8

LEMMA DeleteBindingKeeps ==
  ASSUME AssetInv, NEW p \in Paths, DeleteBinding(p)
  PROVE  AssetInv'
<1> USE AssetAssumption DEF AssetInv, AppliedIsKnown
<1>1. AssetStateOK'
  BY BindingsAreStates, NothingBound DEF AssetStateOK, DesiredStates, EdgeRounds, DeleteBinding,
     Request, Bind, NoChange
<1>2. ChangeIsReversible'
  BY BindingsAreStates, NothingBound DEF AssetStateOK, ChangeIsReversible, BoundObjectsExist,
     DeleteBinding, Request, Bind, NoChange
<1>3. UnsyncedIsKnown'
  BY DEF AssetStateOK, UnsyncedIsKnown, Synced, Unpublished, DeleteBinding, Request, Bind, NoChange
<1>4. RoundKeepsObjects'
  BY DEF AssetStateOK, DesiredStates, EdgeRounds, RoundKeepsObjects, DeleteBinding, Request,
     Bind, NoChange
<1>5. BoundObjectsExist'
  BY BindingsAreStates DEF AssetStateOK, ChangeIsReversible, BoundObjectsExist, DeleteBinding,
     Request, Bind, NoChange
<1>6. ServedObjectsPresent'
  BY DEF AssetStateOK, DesiredStates, EdgeRounds, RoundKeepsObjects, ServedObjectsPresent,
     DeleteBinding, Request, Bind, NoChange
<1>7. (leftBehind \/ ObjectsFetchable)'
  BY DEF AssetStateOK, DesiredStates, EdgeRounds, ChangeIsReversible, UnsyncedIsKnown, Synced,
     Unpublished,
         BoundObjectsExist, ObjectsFetchable, DeleteBinding, Request, Bind, NoChange
<1>8. AppliedIsKnown'
  BY DEF AssetStateOK, DesiredStates, EdgeRounds, RoundKeepsObjects, DeleteBinding, Request,
     Bind, NoChange
<1> QED BY <1>1, <1>2, <1>3, <1>4, <1>5, <1>6, <1>7, <1>8

LEMMA DeleteAssetKeeps ==
  ASSUME AssetInv, NEW object \in Objects, DeleteAsset(object)
  PROVE  AssetInv'
<1> USE AssetAssumption DEF AssetInv, AppliedIsKnown
<1>1. AssetStateOK'
  BY BindingsAreStates, NothingBound DEF AssetStateOK, DesiredStates, EdgeRounds, DeleteAsset,
     Request, NoChange
<1>2. ChangeIsReversible'
  BY BindingsAreStates, NothingBound DEF AssetStateOK, ChangeIsReversible, BoundObjectsExist,
     DeleteAsset, Request, NoChange
<1>3. UnsyncedIsKnown'
  BY DEF AssetStateOK, UnsyncedIsKnown, Synced, Unpublished, DeleteAsset, Request, NoChange
<1>4. RoundKeepsObjects'
  BY DEF AssetStateOK, DesiredStates, EdgeRounds, RoundKeepsObjects, DeleteAsset, Request, NoChange
<1>5. BoundObjectsExist'
  BY BindingsAreStates DEF AssetStateOK, ChangeIsReversible, BoundObjectsExist, DeleteAsset,
     Request, NoChange
<1>6. ServedObjectsPresent'
  BY DEF AssetStateOK, DesiredStates, EdgeRounds, RoundKeepsObjects, ServedObjectsPresent,
     DeleteAsset, Request, NoChange
<1>7. (leftBehind \/ ObjectsFetchable)'
  BY DEF AssetStateOK, DesiredStates, EdgeRounds, ChangeIsReversible, UnsyncedIsKnown, Synced,
     Unpublished,
         BoundObjectsExist, ObjectsFetchable, DeleteAsset, Request, NoChange
<1>8. AppliedIsKnown'
  BY DEF AssetStateOK, DesiredStates, EdgeRounds, RoundKeepsObjects, DeleteAsset, Request, NoChange
<1> QED BY <1>1, <1>2, <1>3, <1>4, <1>5, <1>6, <1>7, <1>8

LEMMA WithdrawBindingKeeps ==
  ASSUME AssetInv, WithdrawBinding
  PROVE  AssetInv'
<1> USE AssetAssumption DEF AssetInv, AppliedIsKnown
<1>1. AssetStateOK'
  <2>1. bindings' \in States
    BY BindingsAreStates DEF AssetStateOK, WithdrawBinding
  <2> QED BY <2>1 DEF AssetStateOK, WithdrawBinding
<1>2. ChangeIsReversible'
  BY BindingsAreStates, NothingBound DEF AssetStateOK, ChangeIsReversible, BoundObjectsExist,
     WithdrawBinding, Bound
<1>3. UnsyncedIsKnown'
  BY DEF AssetStateOK, UnsyncedIsKnown, Synced, Unpublished, WithdrawBinding, Bound
<1>4. RoundKeepsObjects'
  BY DEF AssetStateOK, DesiredStates, EdgeRounds, RoundKeepsObjects, WithdrawBinding, Bound
<1>5. BoundObjectsExist'
  BY BindingsAreStates DEF AssetStateOK, ChangeIsReversible, BoundObjectsExist, WithdrawBinding,
     Bound
<1>6. ServedObjectsPresent'
  BY DEF AssetStateOK, DesiredStates, EdgeRounds, RoundKeepsObjects, ServedObjectsPresent,
     WithdrawBinding, Bound
<1>7. (leftBehind \/ ObjectsFetchable)'
  BY DEF AssetStateOK, DesiredStates, EdgeRounds, ChangeIsReversible, UnsyncedIsKnown, Synced,
     Unpublished,
         BoundObjectsExist, ObjectsFetchable, WithdrawBinding, Bound
<1>8. AppliedIsKnown'
  BY DEF AssetStateOK, DesiredStates, EdgeRounds, RoundKeepsObjects, WithdrawBinding, Bound
<1> QED BY <1>1, <1>2, <1>3, <1>4, <1>5, <1>6, <1>7, <1>8

LEMMA WithdrawnKeeps ==
  ASSUME AssetInv, Withdrawn
  PROVE  AssetInv'
<1> USE AssetAssumption DEF AssetInv, AppliedIsKnown
<1>1. AssetStateOK'
  BY BindingsAreStates, NothingBound DEF AssetStateOK, DesiredStates, EdgeRounds, Withdrawn,
     AfterWithdrawal
<1>2. ChangeIsReversible'
  <2>1. change' = [change EXCEPT !.at = IF change.withdrawn THEN "publish" ELSE "row"]
    BY DEF Withdrawn, AfterWithdrawal
  <2>2. change.object \intersect Refers(bindings) = {}
    BY UnboundIsUnreferred DEF Withdrawn
  <2> QED BY <2>1, <2>2 DEF AssetStateOK, ChangeIsReversible, Withdrawn
<1>3. UnsyncedIsKnown'
  BY DEF AssetStateOK, UnsyncedIsKnown, Synced, Unpublished, Withdrawn, AfterWithdrawal
<1>4. RoundKeepsObjects'
  BY DEF AssetStateOK, DesiredStates, EdgeRounds, RoundKeepsObjects, Withdrawn, AfterWithdrawal
<1>5. BoundObjectsExist'
  BY BindingsAreStates DEF AssetStateOK, ChangeIsReversible, BoundObjectsExist, Withdrawn,
     AfterWithdrawal
<1>6. ServedObjectsPresent'
  BY DEF AssetStateOK, DesiredStates, EdgeRounds, RoundKeepsObjects, ServedObjectsPresent,
     Withdrawn, AfterWithdrawal
<1>7. (leftBehind \/ ObjectsFetchable)'
  BY DEF AssetStateOK, DesiredStates, EdgeRounds, ChangeIsReversible, UnsyncedIsKnown, Synced,
     Unpublished,
         BoundObjectsExist, ObjectsFetchable, Withdrawn, AfterWithdrawal
<1>8. AppliedIsKnown'
  BY DEF AssetStateOK, DesiredStates, EdgeRounds, RoundKeepsObjects, Withdrawn, AfterWithdrawal
<1> QED BY <1>1, <1>2, <1>3, <1>4, <1>5, <1>6, <1>7, <1>8

LEMMA PublishChangeKeeps ==
  ASSUME AssetInv, PublishChange
  PROVE  AssetInv'
<1> USE AssetAssumption DEF AssetInv, AppliedIsKnown
<1>1. AssetStateOK'
  <2>1. wanted' \in [Carriers -> DesiredStates]
    BY DEF AssetStateOK, DesiredStates, PublishChange, Published
  <2>2. change' \in [at : {"idle", "publish", "withdraw", "row", "file"}, object : SUBSET Objects,
                     undo : States, withdrawn : BOOLEAN]
    BY NothingBound DEF AssetStateOK, PublishChange, AfterPublication, NoChange
  <2> QED BY <2>1, <2>2 DEF AssetStateOK, PublishChange
<1>2. ChangeIsReversible'
  BY BindingsAreStates, NothingBound DEF AssetStateOK, ChangeIsReversible, BoundObjectsExist,
     PublishChange, Published, AfterPublication, NoChange
<1>3. UnsyncedIsKnown'
  BY DEF AssetStateOK, UnsyncedIsKnown, Synced, Unpublished, PublishChange, Published,
     AfterPublication, NoChange
<1>4. RoundKeepsObjects'
  BY DEF AssetStateOK, DesiredStates, EdgeRounds, RoundKeepsObjects, PublishChange, Published,
     AfterPublication, NoChange
<1>5. BoundObjectsExist'
  BY BindingsAreStates DEF AssetStateOK, ChangeIsReversible, BoundObjectsExist, PublishChange,
     Published, AfterPublication, NoChange
<1>6. ServedObjectsPresent'
  BY DEF AssetStateOK, DesiredStates, EdgeRounds, RoundKeepsObjects, ServedObjectsPresent,
     PublishChange, Published, AfterPublication, NoChange
<1>7. (leftBehind \/ ObjectsFetchable)'
  BY DEF AssetStateOK, DesiredStates, EdgeRounds, ChangeIsReversible, UnsyncedIsKnown, Synced,
     Unpublished,
         BoundObjectsExist, ObjectsFetchable, PublishChange, Published, AfterPublication, NoChange
<1>8. AppliedIsKnown'
  BY DEF AssetStateOK, DesiredStates, EdgeRounds, RoundKeepsObjects, PublishChange, Published,
     AfterPublication, NoChange
<1> QED BY <1>1, <1>2, <1>3, <1>4, <1>5, <1>6, <1>7, <1>8

LEMMA UndoChangeKeeps ==
  ASSUME AssetInv, UndoChange
  PROVE  AssetInv'
<1> USE AssetAssumption DEF AssetInv, AppliedIsKnown
<1>1. AssetStateOK'
  BY BindingsAreStates, NothingBound DEF AssetStateOK, DesiredStates, EdgeRounds, UndoChange,
     Mishap, NoChange
<1>2. ChangeIsReversible'
  BY BindingsAreStates, NothingBound DEF AssetStateOK, ChangeIsReversible, BoundObjectsExist,
     UndoChange, Mishap, NoChange
<1>3. UnsyncedIsKnown'
  BY DEF AssetStateOK, UnsyncedIsKnown, Synced, Unpublished, UndoChange, Mishap, NoChange
<1>4. RoundKeepsObjects'
  BY DEF AssetStateOK, DesiredStates, EdgeRounds, RoundKeepsObjects, UndoChange, Mishap, NoChange
<1>5. BoundObjectsExist'
  BY BindingsAreStates DEF AssetStateOK, ChangeIsReversible, BoundObjectsExist, UndoChange,
     Mishap, NoChange
<1>6. ServedObjectsPresent'
  BY DEF AssetStateOK, DesiredStates, EdgeRounds, RoundKeepsObjects, ServedObjectsPresent,
     UndoChange, Mishap, NoChange
<1>7. (leftBehind \/ ObjectsFetchable)'
  BY DEF AssetStateOK, DesiredStates, EdgeRounds, ChangeIsReversible, UnsyncedIsKnown, Synced,
     Unpublished,
         BoundObjectsExist, ObjectsFetchable, UndoChange, Mishap, NoChange
<1>8. AppliedIsKnown'
  BY DEF AssetStateOK, DesiredStates, EdgeRounds, RoundKeepsObjects, UndoChange, Mishap, NoChange
<1> QED BY <1>1, <1>2, <1>3, <1>4, <1>5, <1>6, <1>7, <1>8

LEMMA DeleteRowKeeps ==
  ASSUME AssetInv, DeleteRow
  PROVE  AssetInv'
<1> USE AssetAssumption DEF AssetInv, AppliedIsKnown
<1>1. AssetStateOK'
  BY BindingsAreStates, NothingBound DEF AssetStateOK, DesiredStates, EdgeRounds, DeleteRow
<1>2. ChangeIsReversible'
  BY BindingsAreStates, NothingBound DEF AssetStateOK, ChangeIsReversible, BoundObjectsExist,
     DeleteRow
<1>3. UnsyncedIsKnown'
  BY DEF AssetStateOK, UnsyncedIsKnown, Synced, Unpublished, DeleteRow
<1>4. RoundKeepsObjects'
  BY DEF AssetStateOK, DesiredStates, EdgeRounds, RoundKeepsObjects, DeleteRow
<1>5. BoundObjectsExist'
  BY BindingsAreStates DEF AssetStateOK, ChangeIsReversible, BoundObjectsExist, DeleteRow
<1>6. ServedObjectsPresent'
  BY DEF AssetStateOK, DesiredStates, EdgeRounds, RoundKeepsObjects, ServedObjectsPresent,
     DeleteRow
<1>7. (leftBehind \/ ObjectsFetchable)'
  BY DEF AssetStateOK, DesiredStates, EdgeRounds, ChangeIsReversible, UnsyncedIsKnown, Synced,
     Unpublished,
         BoundObjectsExist, ObjectsFetchable, DeleteRow
<1>8. AppliedIsKnown'
  BY DEF AssetStateOK, DesiredStates, EdgeRounds, RoundKeepsObjects, DeleteRow
<1> QED BY <1>1, <1>2, <1>3, <1>4, <1>5, <1>6, <1>7, <1>8

LEMMA DeleteFileKeeps ==
  ASSUME AssetInv, DeleteFile
  PROVE  AssetInv'
<1> USE AssetAssumption DEF AssetInv, AppliedIsKnown
<1>1. AssetStateOK'
  BY BindingsAreStates, NothingBound DEF AssetStateOK, DesiredStates, EdgeRounds, DeleteFile,
     NoChange
<1>2. ChangeIsReversible'
  BY BindingsAreStates, NothingBound DEF AssetStateOK, ChangeIsReversible, BoundObjectsExist,
     DeleteFile, NoChange
<1>3. UnsyncedIsKnown'
  BY DEF AssetStateOK, UnsyncedIsKnown, Synced, Unpublished, DeleteFile, NoChange
<1>4. RoundKeepsObjects'
  BY DEF AssetStateOK, DesiredStates, EdgeRounds, RoundKeepsObjects, DeleteFile, NoChange
<1>5. BoundObjectsExist'
  BY BindingsAreStates DEF AssetStateOK, ChangeIsReversible, BoundObjectsExist, DeleteFile,
     NoChange
<1>6. ServedObjectsPresent'
  BY DEF AssetStateOK, DesiredStates, EdgeRounds, RoundKeepsObjects, ServedObjectsPresent,
     DeleteFile, NoChange
<1>7. (leftBehind \/ ObjectsFetchable)'
  BY DEF AssetStateOK, DesiredStates, EdgeRounds, ChangeIsReversible, UnsyncedIsKnown, Synced,
     Unpublished,
         BoundObjectsExist, ObjectsFetchable, DeleteFile, NoChange
<1>8. AppliedIsKnown'
  BY DEF AssetStateOK, DesiredStates, EdgeRounds, RoundKeepsObjects, DeleteFile, NoChange
<1> QED BY <1>1, <1>2, <1>3, <1>4, <1>5, <1>6, <1>7, <1>8

LEMMA KillRequestKeeps ==
  ASSUME AssetInv, KillRequest
  PROVE  AssetInv'
<1> USE AssetAssumption DEF AssetInv, AppliedIsKnown
<1>1. AssetStateOK'
  BY BindingsAreStates, NothingBound DEF AssetStateOK, DesiredStates, EdgeRounds, KillRequest,
     Mishap, NoChange
<1>2. ChangeIsReversible'
  BY BindingsAreStates, NothingBound DEF AssetStateOK, ChangeIsReversible, BoundObjectsExist,
     KillRequest, Mishap, NoChange
<1>3. UnsyncedIsKnown'
  BY DEF AssetStateOK, UnsyncedIsKnown, Synced, Unpublished, KillRequest, Mishap, NoChange
<1>4. RoundKeepsObjects'
  BY DEF AssetStateOK, DesiredStates, EdgeRounds, RoundKeepsObjects, KillRequest, Mishap, NoChange
<1>5. BoundObjectsExist'
  BY BindingsAreStates DEF AssetStateOK, ChangeIsReversible, BoundObjectsExist, KillRequest,
     Mishap, NoChange
<1>6. ServedObjectsPresent'
  BY DEF AssetStateOK, DesiredStates, EdgeRounds, RoundKeepsObjects, ServedObjectsPresent,
     KillRequest, Mishap, NoChange
<1>7. (leftBehind \/ ObjectsFetchable)'
  BY DEF AssetStateOK, DesiredStates, EdgeRounds, ChangeIsReversible, UnsyncedIsKnown, Synced,
     Unpublished,
         BoundObjectsExist, ObjectsFetchable, KillRequest, Mishap, NoChange
<1>8. AppliedIsKnown'
  BY DEF AssetStateOK, DesiredStates, EdgeRounds, RoundKeepsObjects, KillRequest, Mishap, NoChange
<1> QED BY <1>1, <1>2, <1>3, <1>4, <1>5, <1>6, <1>7, <1>8

\* A rebuild, and the edge's round.
LEMMA RebuildNodeKeeps ==
  ASSUME AssetInv, NEW n \in Carriers, RebuildNode(n)
  PROVE  AssetInv'
<1> USE AssetAssumption DEF AssetInv, AppliedIsKnown
<1>1. AssetStateOK'
  BY BindingsAreStates, NothingBound DEF AssetStateOK, DesiredStates, EdgeRounds, RebuildNode,
     Published
<1>2. ChangeIsReversible'
  BY BindingsAreStates, NothingBound DEF AssetStateOK, ChangeIsReversible, BoundObjectsExist,
     RebuildNode, Published
<1>3. UnsyncedIsKnown'
  BY DEF AssetStateOK, UnsyncedIsKnown, Synced, Unpublished, RebuildNode, Published
<1>4. RoundKeepsObjects'
  BY DEF AssetStateOK, DesiredStates, EdgeRounds, RoundKeepsObjects, RebuildNode, Published
<1>5. BoundObjectsExist'
  BY BindingsAreStates DEF AssetStateOK, ChangeIsReversible, BoundObjectsExist, RebuildNode,
     Published
<1>6. ServedObjectsPresent'
  BY DEF AssetStateOK, DesiredStates, EdgeRounds, RoundKeepsObjects, ServedObjectsPresent,
     RebuildNode, Published
<1>7. (leftBehind \/ ObjectsFetchable)'
  BY DEF AssetStateOK, DesiredStates, EdgeRounds, ChangeIsReversible, UnsyncedIsKnown, Synced,
     Unpublished,
         BoundObjectsExist, ObjectsFetchable, RebuildNode, Published
<1>8. AppliedIsKnown'
  BY DEF AssetStateOK, DesiredStates, EdgeRounds, RoundKeepsObjects, RebuildNode, Published
<1> QED BY <1>1, <1>2, <1>3, <1>4, <1>5, <1>6, <1>7, <1>8

LEMMA StartSyncKeeps ==
  ASSUME AssetInv, NEW n \in Carriers, StartSync(n)
  PROVE  AssetInv'
<1> USE AssetAssumption DEF AssetInv, AppliedIsKnown
<1>1. AssetStateOK'
  <2>1. carrier' \in [Carriers -> EdgeRounds]
    <3> SUFFICES ASSUME NEW m \in Carriers
                 PROVE  carrier'[m] \in EdgeRounds
      BY DEF AssetStateOK, StartSync
    <3>1. carrier[m] \in EdgeRounds /\ wanted[m] \in DesiredStates
      BY DEF AssetStateOK
    <3>2. CASE m = n
      BY <3>1, <3>2 DEF AssetStateOK, EdgeRounds, DesiredStates, StartSync
    <3>3. CASE m # n
      BY <3>1, <3>3 DEF AssetStateOK, StartSync
    <3> QED BY <3>2, <3>3
  <2> QED BY <2>1 DEF AssetStateOK, StartSync
<1>2. ChangeIsReversible'
  BY BindingsAreStates, NothingBound DEF AssetStateOK, ChangeIsReversible, BoundObjectsExist,
     StartSync
<1>3. UnsyncedIsKnown'
  BY DEF AssetStateOK, UnsyncedIsKnown, Synced, Unpublished, StartSync
<1>4. RoundKeepsObjects'
  BY DEF AssetStateOK, DesiredStates, EdgeRounds, RoundKeepsObjects, StartSync
<1>5. BoundObjectsExist'
  BY BindingsAreStates DEF AssetStateOK, ChangeIsReversible, BoundObjectsExist, StartSync
<1>6. ServedObjectsPresent'
  BY DEF AssetStateOK, DesiredStates, EdgeRounds, RoundKeepsObjects, ServedObjectsPresent,
     StartSync
<1>7. (leftBehind \/ ObjectsFetchable)'
  BY DEF AssetStateOK, DesiredStates, EdgeRounds, ChangeIsReversible, UnsyncedIsKnown, Synced,
     Unpublished,
         BoundObjectsExist, ObjectsFetchable, StartSync
<1>8. AppliedIsKnown'
  BY DEF AssetStateOK, DesiredStates, EdgeRounds, RoundKeepsObjects, StartSync
<1> QED BY <1>1, <1>2, <1>3, <1>4, <1>5, <1>6, <1>7, <1>8

LEMMA DownloadKeeps ==
  ASSUME AssetInv, NEW n \in Carriers, NEW object \in Objects, Download(n, object)
  PROVE  AssetInv'
<1> USE AssetAssumption DEF AssetInv, AppliedIsKnown
<1>0. PICK round \in EdgeRounds :
        /\ carrier' = [carrier EXCEPT ![n] = round] /\ carrier[n].at = "sync"
        /\ round.serves = carrier[n].serves /\ round.applied = carrier[n].applied
        /\ round.next = carrier[n].next /\ round.at \in {"idle", "sync"}
        /\ carrier[n].has \subseteq round.has
  <2>1. carrier[n] \in EdgeRounds
    BY DEF AssetStateOK
  <2>2. CASE object \in Refers(wanted[n].state) /\ object \in files
    <3>1. [carrier[n] EXCEPT !.has = @ \union {object}] \in EdgeRounds
      BY <2>1 DEF EdgeRounds
    <3>2. carrier' = [carrier EXCEPT ![n] = [carrier[n] EXCEPT !.has = @ \union {object}]]
      BY <2>2 DEF Download, AssetStateOK
    <3> QED BY <2>1, <3>1, <3>2 DEF Download, EdgeRounds
  <2>3. CASE ~(object \in Refers(wanted[n].state) /\ object \in files)
    <3>1. [carrier[n] EXCEPT !.at = "idle"] \in EdgeRounds
      BY <2>1 DEF EdgeRounds
    <3>2. carrier' = [carrier EXCEPT ![n] = [carrier[n] EXCEPT !.at = "idle"]]
      BY <2>3 DEF Download, AssetStateOK
    <3> QED BY <2>1, <3>1, <3>2 DEF Download, EdgeRounds
  <2> QED BY <2>2, <2>3
<1>1. AssetStateOK'
  <2>1. carrier' \in [Carriers -> EdgeRounds]
    BY <1>0 DEF AssetStateOK, EdgeRounds
  <2> QED BY <2>1 DEF AssetStateOK, Download
<1>2. ChangeIsReversible'
  BY BindingsAreStates, NothingBound DEF AssetStateOK, ChangeIsReversible, BoundObjectsExist,
     Download
<1>3. UnsyncedIsKnown'
  BY DEF AssetStateOK, UnsyncedIsKnown, Synced, Unpublished, Download
<1>4. RoundKeepsObjects'
  BY <1>0 DEF AssetStateOK, RoundKeepsObjects, AppliedIsKnown, Download
<1>5. BoundObjectsExist'
  BY BindingsAreStates DEF AssetStateOK, ChangeIsReversible, BoundObjectsExist, Download
<1>6. ServedObjectsPresent'
  BY <1>0 DEF AssetStateOK, ServedObjectsPresent
<1>7. (leftBehind \/ ObjectsFetchable)'
  BY DEF AssetStateOK, DesiredStates, EdgeRounds, ChangeIsReversible, UnsyncedIsKnown, Synced,
     Unpublished,
         BoundObjectsExist, ObjectsFetchable, Download
<1>8. AppliedIsKnown'
  BY <1>0 DEF AssetStateOK, RoundKeepsObjects, AppliedIsKnown, Download
<1> QED BY <1>1, <1>2, <1>3, <1>4, <1>5, <1>6, <1>7, <1>8

LEMMA ReloadWithKeeps ==
  ASSUME AssetInv, NEW n \in Carriers, ReloadWith(n)
  PROVE  AssetInv'
<1> USE AssetAssumption DEF AssetInv, AppliedIsKnown
<1>1. AssetStateOK'
  <2>1. carrier' \in [Carriers -> EdgeRounds]
    <3> SUFFICES ASSUME NEW m \in Carriers
                 PROVE  carrier'[m] \in EdgeRounds
      BY DEF AssetStateOK, ReloadWith
    <3>1. carrier[m] \in EdgeRounds /\ wanted[m] \in DesiredStates
      BY DEF AssetStateOK
    <3>2. CASE m = n
      BY <3>1, <3>2 DEF AssetStateOK, EdgeRounds, DesiredStates, ReloadWith
    <3>3. CASE m # n
      BY <3>1, <3>3 DEF AssetStateOK, ReloadWith
    <3> QED BY <3>2, <3>3
  <2> QED BY <2>1 DEF AssetStateOK, ReloadWith
<1>2. ChangeIsReversible'
  BY BindingsAreStates, NothingBound DEF AssetStateOK, ChangeIsReversible, BoundObjectsExist,
     ReloadWith, AllFetched
<1>3. UnsyncedIsKnown'
  BY DEF AssetStateOK, UnsyncedIsKnown, Synced, Unpublished, ReloadWith, AllFetched
<1>4. RoundKeepsObjects'
  BY DEF AssetStateOK, DesiredStates, EdgeRounds, RoundKeepsObjects, ReloadWith, AllFetched
<1>5. BoundObjectsExist'
  BY BindingsAreStates DEF AssetStateOK, ChangeIsReversible, BoundObjectsExist, ReloadWith,
     AllFetched
<1>6. ServedObjectsPresent'
  BY DEF AssetStateOK, DesiredStates, EdgeRounds, RoundKeepsObjects, ServedObjectsPresent,
     ReloadWith, AllFetched
<1>7. (leftBehind \/ ObjectsFetchable)'
  BY DEF AssetStateOK, DesiredStates, EdgeRounds, ChangeIsReversible, UnsyncedIsKnown, Synced,
     Unpublished,
         BoundObjectsExist, ObjectsFetchable, ReloadWith, AllFetched
<1>8. AppliedIsKnown'
  BY DEF AssetStateOK, DesiredStates, EdgeRounds, RoundKeepsObjects, ReloadWith, AllFetched
<1> QED BY <1>1, <1>2, <1>3, <1>4, <1>5, <1>6, <1>7, <1>8

LEMMA RollBackKeeps ==
  ASSUME AssetInv, NEW n \in Carriers, RollBack(n)
  PROVE  AssetInv'
<1> USE AssetAssumption DEF AssetInv, AppliedIsKnown
<1>1. AssetStateOK'
  <2>1. carrier' \in [Carriers -> EdgeRounds]
    <3> SUFFICES ASSUME NEW m \in Carriers
                 PROVE  carrier'[m] \in EdgeRounds
      BY DEF AssetStateOK, RollBack
    <3>1. carrier[m] \in EdgeRounds
      BY DEF AssetStateOK
    <3>2. CASE m = n
      BY <3>1, <3>2 DEF AssetStateOK, EdgeRounds, RollBack, ReturnedToFormer
    <3>3. CASE m # n
      BY <3>1, <3>3 DEF AssetStateOK, RollBack
    <3> QED BY <3>2, <3>3
  <2> QED BY <2>1 DEF AssetStateOK, RollBack
<1>2. ChangeIsReversible'
  BY BindingsAreStates, NothingBound DEF AssetStateOK, ChangeIsReversible, BoundObjectsExist,
     RollBack, ReturnedToFormer, Mishap
<1>3. UnsyncedIsKnown'
  BY DEF AssetStateOK, UnsyncedIsKnown, Synced, Unpublished, RollBack, ReturnedToFormer, Mishap
<1>4. RoundKeepsObjects'
  BY DEF AssetStateOK, DesiredStates, EdgeRounds, RoundKeepsObjects, RollBack, ReturnedToFormer,
     Mishap
<1>5. BoundObjectsExist'
  BY BindingsAreStates DEF AssetStateOK, ChangeIsReversible, BoundObjectsExist, RollBack,
     ReturnedToFormer, Mishap
<1>6. ServedObjectsPresent'
  BY DEF AssetStateOK, DesiredStates, EdgeRounds, RoundKeepsObjects, ServedObjectsPresent,
     RollBack, ReturnedToFormer, Mishap
<1>7. (leftBehind \/ ObjectsFetchable)'
  BY DEF AssetStateOK, DesiredStates, EdgeRounds, ChangeIsReversible, UnsyncedIsKnown, Synced,
     Unpublished,
         BoundObjectsExist, ObjectsFetchable, RollBack, ReturnedToFormer, Mishap
<1>8. AppliedIsKnown'
  BY DEF AssetStateOK, DesiredStates, EdgeRounds, RoundKeepsObjects, RollBack, ReturnedToFormer,
     Mishap
<1> QED BY <1>1, <1>2, <1>3, <1>4, <1>5, <1>6, <1>7, <1>8

LEMMA PersistAppliedKeeps ==
  ASSUME AssetInv, NEW n \in Carriers, PersistApplied(n)
  PROVE  AssetInv'
<1> USE AssetAssumption DEF AssetInv, AppliedIsKnown
<1>1. AssetStateOK'
  <2>1. carrier' \in [Carriers -> EdgeRounds]
    <3> SUFFICES ASSUME NEW m \in Carriers
                 PROVE  carrier'[m] \in EdgeRounds
      BY DEF AssetStateOK, PersistApplied
    <3>1. carrier[m] \in EdgeRounds /\ wanted[m] \in DesiredStates
      BY DEF AssetStateOK
    <3>2. CASE m = n
      BY <3>1, <3>2 DEF AssetStateOK, EdgeRounds, DesiredStates, PersistApplied
    <3>3. CASE m # n
      BY <3>1, <3>3 DEF AssetStateOK, PersistApplied
    <3> QED BY <3>2, <3>3
  <2> QED BY <2>1 DEF AssetStateOK, PersistApplied
<1>2. ChangeIsReversible'
  BY BindingsAreStates, NothingBound DEF AssetStateOK, ChangeIsReversible, BoundObjectsExist,
     PersistApplied
<1>3. UnsyncedIsKnown'
  BY DEF AssetStateOK, UnsyncedIsKnown, Synced, Unpublished, PersistApplied
<1>4. RoundKeepsObjects'
  BY DEF AssetStateOK, DesiredStates, EdgeRounds, RoundKeepsObjects, PersistApplied
<1>5. BoundObjectsExist'
  BY BindingsAreStates DEF AssetStateOK, ChangeIsReversible, BoundObjectsExist, PersistApplied
<1>6. ServedObjectsPresent'
  BY DEF AssetStateOK, DesiredStates, EdgeRounds, RoundKeepsObjects, ServedObjectsPresent,
     PersistApplied
<1>7. (leftBehind \/ ObjectsFetchable)'
  BY DEF AssetStateOK, DesiredStates, EdgeRounds, ChangeIsReversible, UnsyncedIsKnown, Synced,
     Unpublished,
         BoundObjectsExist, ObjectsFetchable, PersistApplied
<1>8. AppliedIsKnown'
  BY DEF AssetStateOK, DesiredStates, EdgeRounds, RoundKeepsObjects, PersistApplied
<1> QED BY <1>1, <1>2, <1>3, <1>4, <1>5, <1>6, <1>7, <1>8

LEMMA CleanUpKeeps ==
  ASSUME AssetInv, NEW n \in Carriers, CleanUp(n)
  PROVE  AssetInv'
<1> USE AssetAssumption DEF AssetInv, AppliedIsKnown
<1>1. AssetStateOK'
  <2>1. carrier' \in [Carriers -> EdgeRounds]
    <3> SUFFICES ASSUME NEW m \in Carriers
                 PROVE  carrier'[m] \in EdgeRounds
      BY DEF AssetStateOK, CleanUp
    <3>1. carrier[m] \in EdgeRounds
      BY DEF AssetStateOK
    <3>2. CASE m = n
      BY <3>1, <3>2 DEF AssetStateOK, EdgeRounds, CleanUp
    <3>3. CASE m # n
      BY <3>1, <3>3 DEF AssetStateOK, CleanUp
    <3> QED BY <3>2, <3>3
  <2> QED BY <2>1 DEF AssetStateOK, CleanUp
<1>2. ChangeIsReversible'
  BY BindingsAreStates, NothingBound DEF AssetStateOK, ChangeIsReversible, BoundObjectsExist,
     CleanUp
<1>3. UnsyncedIsKnown'
  BY DEF AssetStateOK, UnsyncedIsKnown, Synced, Unpublished, CleanUp
<1>4. RoundKeepsObjects'
  BY DEF AssetStateOK, DesiredStates, EdgeRounds, RoundKeepsObjects, CleanUp
<1>5. BoundObjectsExist'
  BY BindingsAreStates DEF AssetStateOK, ChangeIsReversible, BoundObjectsExist, CleanUp
<1>6. ServedObjectsPresent'
  BY DEF AssetStateOK, DesiredStates, EdgeRounds, RoundKeepsObjects, ServedObjectsPresent, CleanUp
<1>7. (leftBehind \/ ObjectsFetchable)'
  BY DEF AssetStateOK, DesiredStates, EdgeRounds, ChangeIsReversible, UnsyncedIsKnown, Synced,
     Unpublished,
         BoundObjectsExist, ObjectsFetchable, CleanUp
<1>8. AppliedIsKnown'
  BY DEF AssetStateOK, DesiredStates, EdgeRounds, RoundKeepsObjects, CleanUp
<1> QED BY <1>1, <1>2, <1>3, <1>4, <1>5, <1>6, <1>7, <1>8

LEMMA AbandonRoundKeeps ==
  ASSUME AssetInv, NEW n \in Carriers, AbandonRound(n)
  PROVE  AssetInv'
<1> USE AssetAssumption DEF AssetInv, AppliedIsKnown
<1>1. AssetStateOK'
  <2>1. carrier' \in [Carriers -> EdgeRounds]
    <3> SUFFICES ASSUME NEW m \in Carriers
                 PROVE  carrier'[m] \in EdgeRounds
      BY DEF AssetStateOK, AbandonRound
    <3>1. carrier[m] \in EdgeRounds
      BY DEF AssetStateOK
    <3>2. CASE m = n
      BY <3>1, <3>2 DEF AssetStateOK, EdgeRounds, AbandonRound
    <3>3. CASE m # n
      BY <3>1, <3>3 DEF AssetStateOK, AbandonRound
    <3> QED BY <3>2, <3>3
  <2> QED BY <2>1 DEF AssetStateOK, AbandonRound
<1>2. ChangeIsReversible'
  BY BindingsAreStates, NothingBound DEF AssetStateOK, ChangeIsReversible, BoundObjectsExist,
     AbandonRound, Mishap
<1>3. UnsyncedIsKnown'
  BY DEF AssetStateOK, UnsyncedIsKnown, Synced, Unpublished, AbandonRound, Mishap
<1>4. RoundKeepsObjects'
  BY DEF AssetStateOK, DesiredStates, EdgeRounds, RoundKeepsObjects, AbandonRound, Mishap
<1>5. BoundObjectsExist'
  BY BindingsAreStates DEF AssetStateOK, ChangeIsReversible, BoundObjectsExist, AbandonRound,
     Mishap
<1>6. ServedObjectsPresent'
  BY DEF AssetStateOK, DesiredStates, EdgeRounds, RoundKeepsObjects, ServedObjectsPresent,
     AbandonRound, Mishap
<1>7. (leftBehind \/ ObjectsFetchable)'
  BY DEF AssetStateOK, DesiredStates, EdgeRounds, ChangeIsReversible, UnsyncedIsKnown, Synced,
     Unpublished,
         BoundObjectsExist, ObjectsFetchable, AbandonRound, Mishap
<1>8. AppliedIsKnown'
  BY DEF AssetStateOK, DesiredStates, EdgeRounds, RoundKeepsObjects, AbandonRound, Mishap
<1> QED BY <1>1, <1>2, <1>3, <1>4, <1>5, <1>6, <1>7, <1>8

\* Every step of a request, a publication or an edge keeps the invariant.
LEMMA AssetStepKeeps ==
  ASSUME AssetInv, [AssetsNext]_assetVars
  PROVE  AssetInv'
<1>1. CASE WithdrawBinding
  BY <1>1, WithdrawBindingKeeps
<1>2. CASE Withdrawn
  BY <1>2, WithdrawnKeeps
<1>3. CASE PublishChange
  BY <1>3, PublishChangeKeeps
<1>4. CASE UndoChange
  BY <1>4, UndoChangeKeeps
<1>5. CASE DeleteRow
  BY <1>5, DeleteRowKeeps
<1>6. CASE DeleteFile
  BY <1>6, DeleteFileKeeps
<1>7. CASE KillRequest
  BY <1>7, KillRequestKeeps
<1>8. ASSUME NEW object \in Objects, Upload(object) \/ DeleteAsset(object)
      PROVE  AssetInv'
  BY <1>8, UploadKeeps, DeleteAssetKeeps
<1>9. ASSUME NEW p \in Paths, NEW object \in Objects, CreateBinding(p, object)
      PROVE  AssetInv'
  BY <1>9, CreateBindingKeeps
<1>10. ASSUME NEW p \in Paths, NEW q \in Paths, MoveBinding(p, q) \/ DeleteBinding(p)
       PROVE  AssetInv'
  BY <1>10, MoveBindingKeeps, DeleteBindingKeeps
<1>11. ASSUME NEW n \in Carriers, NEW object \in Objects, Download(n, object)
       PROVE  AssetInv'
  BY <1>11, DownloadKeeps
<1>12. ASSUME NEW n \in Carriers,
              \/ RebuildNode(n) \/ StartSync(n) \/ ReloadWith(n) \/ RollBack(n)
              \/ PersistApplied(n) \/ CleanUp(n) \/ AbandonRound(n)
       PROVE  AssetInv'
  BY <1>12, RebuildNodeKeeps, StartSyncKeeps, ReloadWithKeeps, RollBackKeeps, PersistAppliedKeeps,
     CleanUpKeeps, AbandonRoundKeeps
<1>13. CASE UNCHANGED assetVars
  BY <1>13 DEF assetVars, AssetInv, AssetStateOK, ChangeIsReversible, UnsyncedIsKnown, Synced,
     Unpublished,
     RoundKeepsObjects, BoundObjectsExist, ServedObjectsPresent, ObjectsFetchable, AppliedIsKnown
<1> QED
  BY <1>1, <1>2, <1>3, <1>4, <1>5, <1>6, <1>7, <1>8, <1>9, <1>10, <1>11, <1>12,
     <1>13 DEF AssetsNext

LEMMA AssetsStart ==
  ASSUME AssetsInit
  PROVE  AssetInv
<1> USE DEF AssetsInit
<1>1. AssetStateOK
  BY NothingBound DEF AssetStateOK, EdgeRounds, DesiredStates, NoChange
<1>2. \A n \in Carriers : /\ wanted[n].state = <<>> /\ carrier[n].serves = <<>> /\ carrier[n].at = "idle"
                          /\ carrier[n].applied = wanted[n].version
                          /\ carrier[n].next.version = wanted[n].version /\ wanted[n].version = 0
  OBVIOUS
<1>3. ChangeIsReversible /\ UnsyncedIsKnown /\ BoundObjectsExist
  BY <1>2, NothingBound DEF ChangeIsReversible, UnsyncedIsKnown, Synced, BoundObjectsExist,
     NoChange
<1>4. RoundKeepsObjects /\ AppliedIsKnown
  BY <1>2 DEF RoundKeepsObjects, AppliedIsKnown
<1>5. ServedObjectsPresent /\ ObjectsFetchable
  BY <1>2, NothingBound DEF ServedObjectsPresent, ObjectsFetchable
<1> QED BY <1>1, <1>3, <1>4, <1>5 DEF AssetInv

LEMMA AssetInvHolds ==
  ASSUME AssetInv
  PROVE  AssetsHold
<1>1. AssetTypeOK
  BY DEF AssetInv, AssetStateOK, EdgeRounds, DesiredStates, AppliedIsKnown, AssetTypeOK
<1> QED BY <1>1 DEF AssetInv, AssetsHold

\* Whatever requests, failures, kills, rollbacks and rebuilds come between: what is
\* bound is there, an edge's nginx serves only objects that the edge holds, and each
\* edge can fetch what its desired state refers to, unless a change of the bindings
\* was left unpublished (control/static_assets.go, edge/static_assets.go).
THEOREM AssetsAreThere == AssetsSpec => []AssetsHold
<1>1. AssetsInit => AssetInv
  BY AssetsStart
<1>2. AssetInv /\ [AssetsNext]_assetVars => AssetInv'
  BY AssetStepKeeps
<1>3. AssetInv => AssetsHold
  BY AssetInvHolds
<1> QED BY <1>1, <1>2, <1>3, PTL DEF AssetsSpec

-----------------------------------------------------------------------------
(* Bundles *)

Targets == InState("candidate") \union InState("current")
TaskBundles == {t.bundle : t \in {u \in orders.tasks : u.current}}

ArtifactStateOK ==
  /\ DOMAIN catalog \subseteq Bundles /\ Shelved \subseteq Bundles /\ announced \subseteq Bundles
  /\ \A b \in DOMAIN catalog : catalog[b] \in {"candidate", "current", "retired"}
  /\ offered \subseteq Bundles /\ \A b, c \in offered : b = c
  /\ checker \in [at : {"idle", "download", "save", "announce"}, bundle : SUBSET Bundles]
  /\ checker.at \in {"download", "save"} => \A b, c \in checker.bundle : b = c
  /\ collector \in [at : {"idle", "references", "remove"}, keep : SUBSET Bundles]
  /\ archive \in [at : {"idle", "snapshot", "archived"}, needs : SUBSET Bundles, holds : SUBSET Bundles]
  /\ orders \in [count : Nat, pending : SUBSET Bundles,
                 tasks : SUBSET [bundle : Bundles, current : BOOLEAN]]
  /\ stops \in Nat

OneOfEach ==
  /\ \A b, c \in InState("candidate") : b = c
  /\ \A b, c \in InState("current") : b = c
  /\ \A b, c \in DOMAIN catalog : Release[b] = Release[c] => b = c

\* Files are collected alone: no check and no backup is under way.
CollectedAlone == collector.at # "idle" => checker.at = "idle" /\ archive.at = "idle"

FilesKept ==
  /\ Targets \subseteq Shelved /\ TaskBundles \subseteq Shelved
  /\ checker.at = "save" => checker.bundle \subseteq Shelved
  /\ archive.at = "snapshot" => archive.needs \subseteq Shelved

\* The collection spares what is a target and what a task was created for.
CollectorSpares ==
  /\ collector.at # "idle" => Targets \subseteq collector.keep
  /\ collector.at = "remove" => TaskBundles \subseteq collector.keep

AnnouncedOrStopped ==
  stops > 0 \/ \A b \in Targets : b \in announced \/ (checker.at = "announce" /\ b \in checker.bundle)

ArtifactInv ==
  /\ ArtifactStateOK /\ OneOfEach /\ CollectedAlone /\ FilesKept /\ CollectorSpares
  /\ AnnouncedOrStopped /\ BackupComplete

\* Targets and what tasks use are bundles.
LEMMA TargetsAreBundles ==
  ASSUME ArtifactStateOK
  PROVE  Targets \subseteq Bundles /\ TaskBundles \subseteq Bundles
BY DEF ArtifactStateOK, Targets, TaskBundles, InState

\* A new task uses a bundle that matters only while it is the target.
LEMMA TaskUsesTarget ==
  ASSUME ArtifactStateOK, CreateTask
  PROVE  /\ TaskBundles' \subseteq TaskBundles \union InState("current")
         /\ orders' \in [count : Nat, pending : SUBSET Bundles,
                         tasks : SUBSET [bundle : Bundles, current : BOOLEAN]]
<1>1. PICK b \in orders.pending :
        orders' = [orders EXCEPT !.pending = {},
                     !.tasks = @ \union {[bundle |-> b, current |-> b \in InState("current")]}]
  BY DEF CreateTask
<1> DEFINE task == [bundle |-> b, current |-> b \in InState("current")]
<1>2. task \in [bundle : Bundles, current : BOOLEAN]
  <2>1. CASE b \in InState("current")
    BY <2>1 DEF ArtifactStateOK
  <2>2. CASE ~(b \in InState("current"))
    BY <2>2 DEF ArtifactStateOK
  <2> QED BY <2>1, <2>2
<1>3. /\ task.bundle = b /\ task.current = (b \in InState("current"))
      /\ orders'.tasks = orders.tasks \union {task}
  BY <1>1 DEF ArtifactStateOK
<1>4. orders' \in [count : Nat, pending : SUBSET Bundles,
                   tasks : SUBSET [bundle : Bundles, current : BOOLEAN]]
  <2> HIDE DEF task
  <2>1. orders' = [orders EXCEPT !.pending = {}, !.tasks = @ \union {task}]
    BY <1>1 DEF task
  <2> QED BY <1>2, <2>1 DEF ArtifactStateOK
<1>5. ASSUME NEW t \in orders'.tasks, t.current
      PROVE  t.bundle \in TaskBundles \union InState("current")
  <2> HIDE DEF task
  <2>1. CASE t \in orders.tasks
    BY <1>5, <2>1 DEF TaskBundles
  <2>2. CASE t = task
    BY <1>3, <1>5, <2>2
  <2> QED BY <1>3, <2>1, <2>2
<1> QED BY <1>4, <1>5 DEF TaskBundles

\* The check, the tasks, the collection and the backup, each on the conjuncts of
\* the invariant.
LEMMA PublishKeeps ==
  ASSUME ArtifactInv, Publish
  PROVE  ArtifactInv'
<1> USE BundleAssumption DEF ArtifactInv
<1>1. ArtifactStateOK'
  BY DEF ArtifactStateOK, Shelved, Publish
<1>2. OneOfEach'
  BY DEF OneOfEach, InState, Publish
<1>3. CollectedAlone'
  BY DEF CollectedAlone, Publish
<1>4. FilesKept'
  BY DEF ArtifactStateOK, FilesKept, CollectedAlone, CollectorSpares, Targets, TaskBundles,
     InState, Shelved, Publish
<1>5. CollectorSpares'
  BY DEF ArtifactStateOK, CollectorSpares, CollectedAlone, Targets, TaskBundles, InState, Publish
<1>6. AnnouncedOrStopped'
  BY DEF ArtifactStateOK, OneOfEach, AnnouncedOrStopped, Targets, InState, Publish
<1>7. BackupComplete'
  BY DEF BackupComplete, FilesKept, Publish
<1> QED BY <1>1, <1>2, <1>3, <1>4, <1>5, <1>6, <1>7

LEMMA StartCheckKeeps ==
  ASSUME ArtifactInv, StartCheck
  PROVE  ArtifactInv'
<1> USE BundleAssumption DEF ArtifactInv
<1>1. ArtifactStateOK'
  BY DEF ArtifactStateOK, Shelved, StartCheck, Newer
<1>2. OneOfEach'
  BY DEF OneOfEach, InState, StartCheck, Newer
<1>3. CollectedAlone'
  BY DEF CollectedAlone, StartCheck, Newer
<1>4. FilesKept'
  BY DEF ArtifactStateOK, FilesKept, CollectedAlone, CollectorSpares, Targets, TaskBundles,
     InState, Shelved, StartCheck, Newer
<1>5. CollectorSpares'
  BY DEF ArtifactStateOK, CollectorSpares, CollectedAlone, Targets, TaskBundles, InState,
     StartCheck, Newer
<1>6. AnnouncedOrStopped'
  BY DEF ArtifactStateOK, OneOfEach, AnnouncedOrStopped, Targets, InState, StartCheck, Newer
<1>7. BackupComplete'
  BY DEF BackupComplete, FilesKept, StartCheck, Newer
<1> QED BY <1>1, <1>2, <1>3, <1>4, <1>5, <1>6, <1>7

LEMMA DownloadBundleKeeps ==
  ASSUME ArtifactInv, DownloadBundle
  PROVE  ArtifactInv'
<1> USE BundleAssumption DEF ArtifactInv
<1>1. ArtifactStateOK'
  BY DEF ArtifactStateOK, Shelved, DownloadBundle, Shelved
<1>2. OneOfEach'
  BY DEF OneOfEach, InState, DownloadBundle, Shelved
<1>3. CollectedAlone'
  BY DEF CollectedAlone, DownloadBundle, Shelved
<1>4. FilesKept'
  BY DEF ArtifactStateOK, FilesKept, CollectedAlone, CollectorSpares, Targets, TaskBundles,
     InState, Shelved, DownloadBundle, Shelved
<1>5. CollectorSpares'
  BY DEF ArtifactStateOK, CollectorSpares, CollectedAlone, Targets, TaskBundles, InState,
     DownloadBundle, Shelved
<1>6. AnnouncedOrStopped'
  BY DEF ArtifactStateOK, OneOfEach, AnnouncedOrStopped, Targets, InState, DownloadBundle, Shelved
<1>7. BackupComplete'
  BY DEF BackupComplete, FilesKept, DownloadBundle, Shelved
<1> QED BY <1>1, <1>2, <1>3, <1>4, <1>5, <1>6, <1>7

LEMMA RefuseBundleKeeps ==
  ASSUME ArtifactInv, RefuseBundle
  PROVE  ArtifactInv'
<1> USE BundleAssumption DEF ArtifactInv
<1>1. ArtifactStateOK'
  BY DEF ArtifactStateOK, Shelved, RefuseBundle, NoCheck
<1>2. OneOfEach'
  BY DEF OneOfEach, InState, RefuseBundle, NoCheck
<1>3. CollectedAlone'
  BY DEF CollectedAlone, RefuseBundle, NoCheck
<1>4. FilesKept'
  BY DEF ArtifactStateOK, FilesKept, CollectedAlone, CollectorSpares, Targets, TaskBundles,
     InState, Shelved, RefuseBundle, NoCheck
<1>5. CollectorSpares'
  BY DEF ArtifactStateOK, CollectorSpares, CollectedAlone, Targets, TaskBundles, InState,
     RefuseBundle, NoCheck
<1>6. AnnouncedOrStopped'
  BY DEF ArtifactStateOK, OneOfEach, AnnouncedOrStopped, Targets, InState, RefuseBundle, NoCheck
<1>7. BackupComplete'
  BY DEF BackupComplete, FilesKept, RefuseBundle, NoCheck
<1> QED BY <1>1, <1>2, <1>3, <1>4, <1>5, <1>6, <1>7

LEMMA SaveCandidateKeeps ==
  ASSUME ArtifactInv, SaveCandidate
  PROVE  ArtifactInv'
<1> USE BundleAssumption DEF ArtifactInv
<1>1. ArtifactStateOK'
  BY DEF ArtifactStateOK, Shelved, SaveCandidate, SavedCandidate, NoCheck
<1>2. OneOfEach'
  BY DEF OneOfEach, InState, SaveCandidate, SavedCandidate, NoCheck
<1>3. CollectedAlone'
  BY DEF CollectedAlone, SaveCandidate, SavedCandidate, NoCheck
<1>4. FilesKept'
  BY DEF ArtifactStateOK, FilesKept, CollectedAlone, CollectorSpares, Targets, TaskBundles,
     InState, Shelved, SaveCandidate, SavedCandidate, NoCheck
<1>5. CollectorSpares'
  BY DEF ArtifactStateOK, CollectorSpares, CollectedAlone, Targets, TaskBundles, InState,
     SaveCandidate, SavedCandidate, NoCheck
<1>6. AnnouncedOrStopped'
  BY DEF ArtifactStateOK, OneOfEach, AnnouncedOrStopped, Targets, InState, SaveCandidate,
     SavedCandidate, NoCheck
<1>7. BackupComplete'
  BY DEF BackupComplete, FilesKept, SaveCandidate, SavedCandidate, NoCheck
<1> QED BY <1>1, <1>2, <1>3, <1>4, <1>5, <1>6, <1>7

LEMMA AnnounceKeeps ==
  ASSUME ArtifactInv, Announce
  PROVE  ArtifactInv'
<1> USE BundleAssumption DEF ArtifactInv
<1>1. ArtifactStateOK'
  BY DEF ArtifactStateOK, Shelved, Announce, NoCheck
<1>2. OneOfEach'
  BY DEF OneOfEach, InState, Announce, NoCheck
<1>3. CollectedAlone'
  BY DEF CollectedAlone, Announce, NoCheck
<1>4. FilesKept'
  BY DEF ArtifactStateOK, FilesKept, CollectedAlone, CollectorSpares, Targets, TaskBundles,
     InState, Shelved, Announce, NoCheck
<1>5. CollectorSpares'
  BY DEF ArtifactStateOK, CollectorSpares, CollectedAlone, Targets, TaskBundles, InState,
     Announce, NoCheck
<1>6. AnnouncedOrStopped'
  BY DEF ArtifactStateOK, OneOfEach, AnnouncedOrStopped, Targets, InState, Announce, NoCheck
<1>7. BackupComplete'
  BY DEF BackupComplete, FilesKept, Announce, NoCheck
<1> QED BY <1>1, <1>2, <1>3, <1>4, <1>5, <1>6, <1>7

LEMMA CreateTaskKeeps ==
  ASSUME ArtifactInv, CreateTask
  PROVE  ArtifactInv'
<1> USE BundleAssumption DEF ArtifactInv
<1>1. ArtifactStateOK'
  BY TaskUsesTarget DEF ArtifactStateOK, Shelved, CreateTask
<1>2. OneOfEach'
  BY DEF OneOfEach, InState, CreateTask
<1>3. CollectedAlone'
  BY DEF CollectedAlone, CreateTask
<1>4. FilesKept'
  BY TaskUsesTarget DEF FilesKept, Targets, InState, Shelved, CreateTask
<1>5. CollectorSpares'
  BY TaskUsesTarget DEF CollectorSpares, Targets, InState, CreateTask
<1>6. AnnouncedOrStopped'
  BY DEF ArtifactStateOK, OneOfEach, AnnouncedOrStopped, Targets, InState, CreateTask
<1>7. BackupComplete'
  BY DEF BackupComplete, FilesKept, CreateTask
<1> QED BY <1>1, <1>2, <1>3, <1>4, <1>5, <1>6, <1>7

LEMMA EndTaskKeeps ==
  ASSUME ArtifactInv, EndTask
  PROVE  ArtifactInv'
<1> USE BundleAssumption DEF ArtifactInv
<1>1. ArtifactStateOK'
  BY DEF ArtifactStateOK, Shelved, EndTask
<1>2. OneOfEach'
  BY DEF OneOfEach, InState, EndTask
<1>3. CollectedAlone'
  BY DEF CollectedAlone, EndTask
<1>4. FilesKept'
  BY DEF ArtifactStateOK, FilesKept, CollectedAlone, CollectorSpares, Targets, TaskBundles,
     InState, Shelved, EndTask
<1>5. CollectorSpares'
  BY DEF ArtifactStateOK, CollectorSpares, CollectedAlone, Targets, TaskBundles, InState, EndTask
<1>6. AnnouncedOrStopped'
  BY DEF ArtifactStateOK, OneOfEach, AnnouncedOrStopped, Targets, InState, EndTask
<1>7. BackupComplete'
  BY DEF BackupComplete, FilesKept, EndTask
<1> QED BY <1>1, <1>2, <1>3, <1>4, <1>5, <1>6, <1>7

LEMMA ListCatalogKeeps ==
  ASSUME ArtifactInv, ListCatalog
  PROVE  ArtifactInv'
<1> USE BundleAssumption DEF ArtifactInv
<1>1. ArtifactStateOK'
  <2>1. collector' = [at |-> "references", keep |-> Targets]
    BY DEF ListCatalog, Targets
  <2> QED BY <2>1, TargetsAreBundles DEF ArtifactStateOK, Shelved, ListCatalog
<1>2. OneOfEach'
  BY DEF OneOfEach, InState, ListCatalog, LockedForCollection
<1>3. CollectedAlone'
  BY DEF CollectedAlone, ListCatalog, LockedForCollection
<1>4. FilesKept'
  BY DEF ArtifactStateOK, FilesKept, CollectedAlone, CollectorSpares, Targets, TaskBundles,
     InState, Shelved, ListCatalog, LockedForCollection
<1>5. CollectorSpares'
  BY DEF ArtifactStateOK, CollectorSpares, CollectedAlone, Targets, TaskBundles, InState,
     ListCatalog, LockedForCollection
<1>6. AnnouncedOrStopped'
  BY DEF ArtifactStateOK, OneOfEach, AnnouncedOrStopped, Targets, InState, ListCatalog,
     LockedForCollection
<1>7. BackupComplete'
  BY DEF BackupComplete, FilesKept, ListCatalog, LockedForCollection
<1> QED BY <1>1, <1>2, <1>3, <1>4, <1>5, <1>6, <1>7

LEMMA ReadReferencesKeeps ==
  ASSUME ArtifactInv, ReadReferences
  PROVE  ArtifactInv'
<1> USE BundleAssumption DEF ArtifactInv
<1>1. ArtifactStateOK'
  BY DEF ArtifactStateOK, Shelved, ReadReferences, InUse, Referenced
<1>2. OneOfEach'
  BY DEF OneOfEach, InState, ReadReferences, InUse, Referenced
<1>3. CollectedAlone'
  BY DEF CollectedAlone, ReadReferences, InUse, Referenced
<1>4. FilesKept'
  BY DEF ArtifactStateOK, FilesKept, CollectedAlone, CollectorSpares, Targets, TaskBundles,
     InState, Shelved, ReadReferences, InUse, Referenced
<1>5. CollectorSpares'
  BY DEF ArtifactStateOK, CollectorSpares, CollectedAlone, Targets, TaskBundles, InState,
     ReadReferences, InUse, Referenced
<1>6. AnnouncedOrStopped'
  BY DEF ArtifactStateOK, OneOfEach, AnnouncedOrStopped, Targets, InState, ReadReferences, InUse,
     Referenced
<1>7. BackupComplete'
  BY DEF BackupComplete, FilesKept, ReadReferences, InUse, Referenced
<1> QED BY <1>1, <1>2, <1>3, <1>4, <1>5, <1>6, <1>7

LEMMA RemoveFileKeeps ==
  ASSUME ArtifactInv, RemoveFile
  PROVE  ArtifactInv'
<1> USE BundleAssumption DEF ArtifactInv
<1>1. ArtifactStateOK'
  BY DEF ArtifactStateOK, Shelved, RemoveFile, Collectable, Shelved
<1>2. OneOfEach'
  BY DEF OneOfEach, InState, RemoveFile, Collectable, Shelved
<1>3. CollectedAlone'
  BY DEF CollectedAlone, RemoveFile, Collectable, Shelved
<1>4. FilesKept'
  BY DEF ArtifactStateOK, FilesKept, CollectedAlone, CollectorSpares, Targets, TaskBundles,
     InState, Shelved, RemoveFile, Collectable, Shelved
<1>5. CollectorSpares'
  BY DEF ArtifactStateOK, CollectorSpares, CollectedAlone, Targets, TaskBundles, InState,
     RemoveFile, Collectable, Shelved
<1>6. AnnouncedOrStopped'
  BY DEF ArtifactStateOK, OneOfEach, AnnouncedOrStopped, Targets, InState, RemoveFile,
     Collectable, Shelved
<1>7. BackupComplete'
  BY DEF BackupComplete, FilesKept, RemoveFile, Collectable, Shelved
<1> QED BY <1>1, <1>2, <1>3, <1>4, <1>5, <1>6, <1>7

LEMMA EndCollectionKeeps ==
  ASSUME ArtifactInv, EndCollection
  PROVE  ArtifactInv'
<1> USE BundleAssumption DEF ArtifactInv
<1>1. ArtifactStateOK'
  BY DEF ArtifactStateOK, Shelved, EndCollection, NoCollection
<1>2. OneOfEach'
  BY DEF OneOfEach, InState, EndCollection, NoCollection
<1>3. CollectedAlone'
  BY DEF CollectedAlone, EndCollection, NoCollection
<1>4. FilesKept'
  BY DEF ArtifactStateOK, FilesKept, CollectedAlone, CollectorSpares, Targets, TaskBundles,
     InState, Shelved, EndCollection, NoCollection
<1>5. CollectorSpares'
  BY DEF ArtifactStateOK, CollectorSpares, CollectedAlone, Targets, TaskBundles, InState,
     EndCollection, NoCollection
<1>6. AnnouncedOrStopped'
  BY DEF ArtifactStateOK, OneOfEach, AnnouncedOrStopped, Targets, InState, EndCollection,
     NoCollection
<1>7. BackupComplete'
  BY DEF BackupComplete, FilesKept, EndCollection, NoCollection
<1> QED BY <1>1, <1>2, <1>3, <1>4, <1>5, <1>6, <1>7

LEMMA SnapshotKeeps ==
  ASSUME ArtifactInv, Snapshot
  PROVE  ArtifactInv'
<1> USE BundleAssumption DEF ArtifactInv
<1>1. ArtifactStateOK'
  <2>1. archive' = [at |-> "snapshot", needs |-> Targets \union TaskBundles, holds |-> {}]
    BY DEF Snapshot, NoBackup, Targets, TaskBundles
  <2>2. archive' \in [at : {"idle", "snapshot", "archived"}, needs : SUBSET Bundles,
                      holds : SUBSET Bundles]
    <3>1. Targets \union TaskBundles \in SUBSET Bundles /\ {} \in SUBSET Bundles
      BY TargetsAreBundles
    <3> QED BY <2>1, <3>1
  <2> QED BY <2>2 DEF ArtifactStateOK, Shelved, Snapshot
<1>2. OneOfEach'
  BY DEF OneOfEach, InState, Snapshot, NoBackup
<1>3. CollectedAlone'
  BY DEF CollectedAlone, Snapshot, NoBackup
<1>4. FilesKept'
  BY DEF ArtifactStateOK, FilesKept, CollectedAlone, CollectorSpares, Targets, TaskBundles,
     InState, Shelved, Snapshot, NoBackup
<1>5. CollectorSpares'
  BY DEF ArtifactStateOK, CollectorSpares, CollectedAlone, Targets, TaskBundles, InState,
     Snapshot, NoBackup
<1>6. AnnouncedOrStopped'
  BY DEF ArtifactStateOK, OneOfEach, AnnouncedOrStopped, Targets, InState, Snapshot, NoBackup
<1>7. BackupComplete'
  BY DEF BackupComplete, FilesKept, Snapshot, NoBackup
<1> QED BY <1>1, <1>2, <1>3, <1>4, <1>5, <1>6, <1>7

LEMMA ArchiveFilesKeeps ==
  ASSUME ArtifactInv, ArchiveFiles
  PROVE  ArtifactInv'
<1> USE BundleAssumption DEF ArtifactInv
<1>1. ArtifactStateOK'
  BY DEF ArtifactStateOK, Shelved, ArchiveFiles, Shelved
<1>2. OneOfEach'
  BY DEF OneOfEach, InState, ArchiveFiles, Shelved
<1>3. CollectedAlone'
  BY DEF CollectedAlone, ArchiveFiles, Shelved
<1>4. FilesKept'
  BY DEF ArtifactStateOK, FilesKept, CollectedAlone, CollectorSpares, Targets, TaskBundles,
     InState, Shelved, ArchiveFiles, Shelved
<1>5. CollectorSpares'
  BY DEF ArtifactStateOK, CollectorSpares, CollectedAlone, Targets, TaskBundles, InState,
     ArchiveFiles, Shelved
<1>6. AnnouncedOrStopped'
  BY DEF ArtifactStateOK, OneOfEach, AnnouncedOrStopped, Targets, InState, ArchiveFiles, Shelved
<1>7. BackupComplete'
  BY DEF BackupComplete, FilesKept, ArchiveFiles, Shelved
<1> QED BY <1>1, <1>2, <1>3, <1>4, <1>5, <1>6, <1>7

LEMMA EndBackupKeeps ==
  ASSUME ArtifactInv, EndBackup
  PROVE  ArtifactInv'
<1> USE BundleAssumption DEF ArtifactInv
<1>1. ArtifactStateOK'
  BY DEF ArtifactStateOK, Shelved, EndBackup, NoBackup
<1>2. OneOfEach'
  BY DEF OneOfEach, InState, EndBackup, NoBackup
<1>3. CollectedAlone'
  BY DEF CollectedAlone, EndBackup, NoBackup
<1>4. FilesKept'
  BY DEF ArtifactStateOK, FilesKept, CollectedAlone, CollectorSpares, Targets, TaskBundles,
     InState, Shelved, EndBackup, NoBackup
<1>5. CollectorSpares'
  BY DEF ArtifactStateOK, CollectorSpares, CollectedAlone, Targets, TaskBundles, InState,
     EndBackup, NoBackup
<1>6. AnnouncedOrStopped'
  BY DEF ArtifactStateOK, OneOfEach, AnnouncedOrStopped, Targets, InState, EndBackup, NoBackup
<1>7. BackupComplete'
  BY DEF BackupComplete, FilesKept, EndBackup, NoBackup
<1> QED BY <1>1, <1>2, <1>3, <1>4, <1>5, <1>6, <1>7

LEMMA StopControllerKeeps ==
  ASSUME ArtifactInv, StopController
  PROVE  ArtifactInv'
<1> USE BundleAssumption DEF ArtifactInv
<1>1. ArtifactStateOK'
  BY DEF ArtifactStateOK, Shelved, StopController, Stop, NoCheck, NoCollection
<1>2. OneOfEach'
  BY DEF OneOfEach, InState, StopController, Stop, NoCheck, NoCollection
<1>3. CollectedAlone'
  BY DEF CollectedAlone, StopController, Stop, NoCheck, NoCollection
<1>4. FilesKept'
  BY DEF ArtifactStateOK, FilesKept, CollectedAlone, CollectorSpares, Targets, TaskBundles,
     InState, Shelved, StopController, Stop, NoCheck, NoCollection
<1>5. CollectorSpares'
  BY DEF ArtifactStateOK, CollectorSpares, CollectedAlone, Targets, TaskBundles, InState,
     StopController, Stop, NoCheck, NoCollection
<1>6. AnnouncedOrStopped'
  BY DEF ArtifactStateOK, OneOfEach, AnnouncedOrStopped, Targets, InState, StopController, Stop,
     NoCheck, NoCollection
<1>7. BackupComplete'
  BY DEF BackupComplete, FilesKept, StopController, Stop, NoCheck, NoCollection
<1> QED BY <1>1, <1>2, <1>3, <1>4, <1>5, <1>6, <1>7

LEMMA PromoteKeeps ==
  ASSUME ArtifactInv, NEW b \in Bundles, Promote(b)
  PROVE  ArtifactInv'
<1> USE BundleAssumption DEF ArtifactInv
<1>1. ArtifactStateOK'
  BY DEF ArtifactStateOK, Shelved, Promote
<1>2. OneOfEach'
  BY DEF OneOfEach, InState, Promote
<1>3. CollectedAlone'
  BY DEF CollectedAlone, Promote
<1>4. FilesKept'
  BY DEF ArtifactStateOK, FilesKept, CollectedAlone, CollectorSpares, Targets, TaskBundles,
     InState, Shelved, Promote
<1>5. CollectorSpares'
  BY DEF ArtifactStateOK, CollectorSpares, CollectedAlone, Targets, TaskBundles, InState, Promote
<1>6. AnnouncedOrStopped'
  BY DEF ArtifactStateOK, OneOfEach, AnnouncedOrStopped, Targets, InState, Promote
<1>7. BackupComplete'
  BY DEF BackupComplete, FilesKept, Promote
<1> QED BY <1>1, <1>2, <1>3, <1>4, <1>5, <1>6, <1>7

LEMMA ReadTargetKeeps ==
  ASSUME ArtifactInv, NEW b \in Bundles, ReadTarget(b)
  PROVE  ArtifactInv'
<1> USE BundleAssumption DEF ArtifactInv
<1>1. ArtifactStateOK'
  <2>1. orders' \in [count : Nat, pending : SUBSET Bundles,
                     tasks : SUBSET [bundle : Bundles, current : BOOLEAN]]
    <3>1. orders.count + 1 \in Nat /\ {b} \in SUBSET Bundles
      BY DEF ArtifactStateOK
    <3>2. orders' = [orders EXCEPT !.count = @ + 1, !.pending = {b}]
      BY DEF ReadTarget
    <3> QED BY <3>1, <3>2 DEF ArtifactStateOK
  <2> QED BY <2>1 DEF ArtifactStateOK, Shelved, ReadTarget
<1>2. OneOfEach'
  BY DEF OneOfEach, InState, ReadTarget
<1>3. CollectedAlone'
  BY DEF CollectedAlone, ReadTarget
<1>4. FilesKept'
  BY DEF ArtifactStateOK, FilesKept, CollectedAlone, CollectorSpares, Targets, TaskBundles,
     InState, Shelved, ReadTarget
<1>5. CollectorSpares'
  BY DEF ArtifactStateOK, CollectorSpares, CollectedAlone, Targets, TaskBundles, InState,
     ReadTarget
<1>6. AnnouncedOrStopped'
  BY DEF ArtifactStateOK, OneOfEach, AnnouncedOrStopped, Targets, InState, ReadTarget
<1>7. BackupComplete'
  BY DEF BackupComplete, FilesKept, ReadTarget
<1> QED BY <1>1, <1>2, <1>3, <1>4, <1>5, <1>6, <1>7

LEMMA AgeKeeps ==
  ASSUME ArtifactInv, NEW b \in Bundles, Age(b)
  PROVE  ArtifactInv'
<1> USE BundleAssumption DEF ArtifactInv
<1>1. ArtifactStateOK'
  BY DEF ArtifactStateOK, Shelved, Age, Shelved
<1>2. OneOfEach'
  BY DEF OneOfEach, InState, Age, Shelved
<1>3. CollectedAlone'
  BY DEF CollectedAlone, Age, Shelved
<1>4. FilesKept'
  BY DEF ArtifactStateOK, FilesKept, CollectedAlone, CollectorSpares, Targets, TaskBundles,
     InState, Shelved, Age, Shelved
<1>5. CollectorSpares'
  BY DEF ArtifactStateOK, CollectorSpares, CollectedAlone, Targets, TaskBundles, InState, Age,
     Shelved
<1>6. AnnouncedOrStopped'
  BY DEF ArtifactStateOK, OneOfEach, AnnouncedOrStopped, Targets, InState, Age, Shelved
<1>7. BackupComplete'
  BY DEF BackupComplete, FilesKept, Age, Shelved
<1> QED BY <1>1, <1>2, <1>3, <1>4, <1>5, <1>6, <1>7

\* Every step of the bundles' life keeps the invariant.
LEMMA ArtifactStepKeeps ==
  ASSUME ArtifactInv, [ArtifactsNext]_artifactVars
  PROVE  ArtifactInv'
<1>1. CASE Publish
  BY <1>1, PublishKeeps
<1>2. CASE StartCheck
  BY <1>2, StartCheckKeeps
<1>3. CASE DownloadBundle
  BY <1>3, DownloadBundleKeeps
<1>4. CASE RefuseBundle
  BY <1>4, RefuseBundleKeeps
<1>5. CASE SaveCandidate
  BY <1>5, SaveCandidateKeeps
<1>6. CASE Announce
  BY <1>6, AnnounceKeeps
<1>7. CASE CreateTask
  BY <1>7, CreateTaskKeeps
<1>8. CASE EndTask
  BY <1>8, EndTaskKeeps
<1>9. CASE ListCatalog
  BY <1>9, ListCatalogKeeps
<1>10. CASE ReadReferences
  BY <1>10, ReadReferencesKeeps
<1>11. CASE RemoveFile
  BY <1>11, RemoveFileKeeps
<1>12. CASE EndCollection
  BY <1>12, EndCollectionKeeps
<1>13. CASE Snapshot
  BY <1>13, SnapshotKeeps
<1>14. CASE ArchiveFiles
  BY <1>14, ArchiveFilesKeeps
<1>15. CASE EndBackup
  BY <1>15, EndBackupKeeps
<1>16. CASE StopController
  BY <1>16, StopControllerKeeps
<1>17. ASSUME NEW b \in Bundles, Promote(b) \/ ReadTarget(b) \/ Age(b)
       PROVE  ArtifactInv'
  BY <1>17, PromoteKeeps, ReadTargetKeeps, AgeKeeps
<1>18. CASE UNCHANGED artifactVars
  BY <1>18 DEF artifactVars, ArtifactInv, ArtifactStateOK, OneOfEach, CollectedAlone, FilesKept,
     CollectorSpares,
     AnnouncedOrStopped, BackupComplete, Targets, TaskBundles, InState, Shelved
<1> QED
  BY <1>1, <1>2, <1>3, <1>4, <1>5, <1>6, <1>7, <1>8, <1>9, <1>10, <1>11, <1>12, <1>13, <1>14,
     <1>15,
     <1>16, <1>17, <1>18 DEF ArtifactsNext

LEMMA ArtifactsStart ==
  ASSUME ArtifactsInit
  PROVE  ArtifactInv
BY DEF ArtifactsInit, ArtifactInv, ArtifactStateOK, OneOfEach, CollectedAlone, FilesKept,
   CollectorSpares,
   AnnouncedOrStopped, BackupComplete, Targets, TaskBundles, InState, Shelved, NoCheck, NoCollection,
   NoBackup

\* A set whose members are all the same has at most one.
LEMMA AtMostOne ==
  ASSUME NEW S, \A b, c \in S : b = c
  PROVE  Cardinality(S) <= 1
<1>1. CASE S = {}
  BY <1>1, FS_EmptySet
<1>2. CASE S # {}
  <2>1. PICK b : S = {b}
    BY <1>2
  <2> QED BY <2>1, FS_Singleton
<1> QED BY <1>1, <1>2

LEMMA ArtifactInvHolds ==
  ASSUME ArtifactInv
  PROVE  BundlesKept
<1>1. ArtifactTypeOK
  BY DEF ArtifactInv, ArtifactStateOK, ArtifactTypeOK
<1>2. TargetsReady
  BY AtMostOne DEF ArtifactInv, OneOfEach, FilesKept, Targets, TargetsReady
<1>3. TasksKeepBundles
  BY DEF ArtifactInv, FilesKept, TaskBundles, TasksKeepBundles
<1>4. TargetsAnnounced
  BY DEF ArtifactInv, AnnouncedOrStopped, Targets, TargetsAnnounced
<1> QED BY <1>1, <1>2, <1>3, <1>4 DEF ArtifactInv, BundlesKept

\* Whatever checks, promotions, upgrades, collections, backups and kills come
\* between: one target and one candidate at most, their files and those of the
\* upgrades in flight are there, and a backup holds what its snapshot refers to
\* (control/nginx_updates.go, Check, Promote and GC).
THEOREM BundlesAreKept == ArtifactsSpec => []BundlesKept
<1>1. ArtifactsInit => ArtifactInv
  BY ArtifactsStart
<1>2. ArtifactInv /\ [ArtifactsNext]_artifactVars => ArtifactInv'
  BY ArtifactStepKeeps
<1>3. ArtifactInv => BundlesKept
  BY ArtifactInvHolds
<1> QED BY <1>1, <1>2, <1>3, PTL DEF ArtifactsSpec
=============================================================================
