-------------------------- MODULE NodeLifecycleProofs --------------------------
(* Theorems about NodeLifecycle, for any number of uninstall commands, of  *)
(* changes and of mishaps.                                                 *)
EXTENDS NodeLifecycle, TLAPS

-------------------------------------------------------------------------------
(* The shape of the rows *)

NodeStatuses == {"pending", "active", "draining", "gone"} \union Retired
NodeRows == [status : NodeStatuses, auto : BOOLEAN, cert : 0..3, marker : BOOLEAN]

JobStatuses ==
  {"none", "preparing", "ready", "running", "failed", "succeeded", "forced", "canceled"}
JobRows ==
  [status : JobStatuses, previous : {"none", "draining", "revoked"}, token : 0..MaxTokens,
   expired : BOOLEAN, waiting : BOOLEAN, started : BOOLEAN, affected : BOOLEAN]

HostStates == {"none", "installed", "stopped", "cleaned"}
Hosts == [state : HostStates, cert : 0..3, upgrading : BOOLEAN]
Scripts ==
  [pc : {"off", "start", "stop", "clean", "fail", "complete"}, token : 0..MaxTokens,
   found : HostStates]

Typed ==
  /\ node \in NodeRows /\ job \in JobRows /\ host \in Hosts /\ script \in Scripts
  /\ banned \in BOOLEAN /\ task \in BOOLEAN /\ otherUp \in BOOLEAN
  /\ draft \in Site /\ live \in Site
  /\ issued \in 0..MaxTokens /\ invite \in {"none", "fresh", "used"}
  /\ request \in {"none", "enroll", "renew", "heartbeat"}
  /\ edits \in 0..MaxEdits /\ mishaps \in 0..MaxMishaps

LEMMA TypeOfRows == LifecycleTypeOK <=> Typed
BY DEF LifecycleTypeOK, Typed, NodeRows, NodeStatuses, JobRows, JobStatuses, Hosts, HostStates, Scripts

-------------------------------------------------------------------------------
(* The inductive invariant *)

Needed == "node" \in draft.nodes \union live.nodes

\* The row of the job and that of the node agree about the uninstallation.
JobMatchesNode ==
  /\ node.status = "uninstalling" <=> job.status = "running"
  /\ node.status = "uninstalled" <=> job.status \in {"succeeded", "forced"}
  /\ node.status = "gone" => job.status = "none"

\* From the first command on no site needs the node; before, only one that
\* needed it when the job was made.
JobExcludesSites ==
  /\ job.status \in {"ready", "running", "failed", "succeeded", "forced"} => ~Needed
  /\ Blocks(job.status) /\ ~job.affected => ~Needed

JobExcludesUpgrade == job.status \notin {"none", "canceled"} => ~task

\* A script past its first call works on a node that is on its way out, and its
\* last steps leave no way back.
ScriptMayClean ==
  /\ script.pc \in {"stop", "clean", "complete"} =>
       node.status \in {"uninstalling", "uninstalled", "gone"}
  /\ script.pc = "fail" => host.state # "cleaned"
  /\ host.state = "cleaned" => node.status \in {"uninstalling", "uninstalled", "gone"}

\* A failed uninstallation leads back to the status the node had, revoked if it
\* was revoked before or meanwhile.
WayBack ==
  /\ Blocks(job.status) => job.previous # "none"
  /\ banned /\ Blocks(job.status) => job.previous = "revoked"

LifecycleInv ==
  /\ LifecycleTypeOK /\ JobMatchesNode /\ JobExcludesSites /\ JobExcludesUpgrade
  /\ ScriptMayClean /\ WayBack /\ RevocationSticks

LEMMA BoundsType ==
    ASSUME LifecycleTypeOK
    PROVE  /\ Edit => edits' \in 0..MaxEdits
           /\ Mishap => mishaps' \in 0..MaxMishaps
BY LifecycleAssumption DEF LifecycleTypeOK, Edit, Mishap

-------------------------------------------------------------------------------
(* The steps *)

\* What the operations write into the rows.
LEMMA JobUpdates ==
    ASSUME NEW row \in JobRows
    PROVE  /\ \A status \in JobStatuses : [row EXCEPT !.status = status] \in JobRows
           /\ \A previous \in {"draining", "revoked"} : [row EXCEPT !.previous = previous] \in JobRows
           /\ \A flag \in BOOLEAN : /\ [row EXCEPT !.waiting = flag] \in JobRows
                                    /\ [row EXCEPT !.expired = flag] \in JobRows
                                    /\ [row EXCEPT !.started = flag] \in JobRows
           /\ \A status \in JobStatuses, flag \in BOOLEAN :
                [row EXCEPT !.status = status, !.started = flag] \in JobRows
           /\ \A status \in JobStatuses, t \in 0..MaxTokens, flag \in BOOLEAN :
                [row EXCEPT !.status = status, !.token = t, !.expired = flag] \in JobRows
           /\ \A status \in JobStatuses, previous \in {"draining", "revoked"}, flag \in BOOLEAN,
                 other \in BOOLEAN :
                [row EXCEPT !.status = status, !.previous = previous, !.waiting = flag,
                            !.affected = other] \in JobRows
BY DEF JobRows, JobStatuses

LEMMA NodeUpdates ==
    ASSUME NEW row \in NodeRows
    PROVE  /\ \A status \in NodeStatuses : [row EXCEPT !.status = status] \in NodeRows
           /\ \A flag \in BOOLEAN : [row EXCEPT !.auto = flag] \in NodeRows
           /\ \A c \in 0..3 : [row EXCEPT !.cert = c] \in NodeRows
           /\ \A status \in NodeStatuses, flag \in BOOLEAN :
                /\ [row EXCEPT !.status = status, !.auto = flag] \in NodeRows
                /\ [row EXCEPT !.status = status, !.marker = flag] \in NodeRows
           /\ \A status \in NodeStatuses, c \in 0..3 :
                [row EXCEPT !.status = status, !.cert = c] \in NodeRows
BY DEF NodeRows, NodeStatuses

LEMMA NewNodeRows ==
    ASSUME NEW status \in NodeStatuses, NEW c \in 0..3
    PROVE  [status |-> status, auto |-> FALSE, cert |-> c, marker |-> FALSE] \in NodeRows
BY DEF NodeRows, NodeStatuses

LEMMA HostUpdates ==
    ASSUME NEW row \in Hosts
    PROVE  /\ \A state \in HostStates : [row EXCEPT !.state = state] \in Hosts
           /\ \A c \in 0..3 : [row EXCEPT !.cert = c] \in Hosts
           /\ \A flag \in BOOLEAN : [row EXCEPT !.upgrading = flag] \in Hosts
           /\ \A state \in HostStates, flag \in BOOLEAN :
                [row EXCEPT !.state = state, !.upgrading = flag] \in Hosts
BY DEF Hosts, HostStates

LEMMA NewHosts ==
    ASSUME NEW state \in HostStates, NEW c \in 0..3
    PROVE  [state |-> state, cert |-> c, upgrading |-> FALSE] \in Hosts
BY DEF Hosts, HostStates

LEMMA EmptyRows ==
    /\ NoJob \in JobRows /\ NoScript \in Scripts
    /\ 0 \in 0..MaxTokens /\ 0 \in 0..3 /\ 1 \in 0..3
BY LifecycleAssumption DEF NoJob, NoScript, JobRows, JobStatuses, Scripts, HostStates

LEMMA NewCertificateType == NewCertificate \in 1..3
<1>1. \E c \in 1..3 : c \notin {node.cert, host.cert}
  OBVIOUS
<1> QED BY <1>1 DEF NewCertificate

LEMMA LifecycleStarts == LifecycleInit => LifecycleInv
<1> SUFFICES ASSUME LifecycleInit PROVE LifecycleInv
  OBVIOUS
<1> USE DEF LifecycleInit
<1>1. node \in NodeRows
  <2>1. [status |-> "pending", auto |-> FALSE, cert |-> 0, marker |-> FALSE] \in NodeRows
    <3>1. "pending" \in NodeStatuses
      BY DEF NodeStatuses
    <3> QED BY <3>1, EmptyRows, NewNodeRows, Zenon
  <2>2. [status |-> "active", auto |-> FALSE, cert |-> 1, marker |-> FALSE] \in NodeRows
    <3>1. "active" \in NodeStatuses
      BY DEF NodeStatuses
    <3> QED BY <3>1, EmptyRows, NewNodeRows, Zenon
  <2> QED BY <2>1, <2>2
<1>2. host \in Hosts
  BY NewHosts, EmptyRows DEF HostStates
<1>3. draft \in Site
  BY DEF Site
<1>4. live \in Site
  <2>1. [nodes |-> {}, enabled |-> FALSE] \in Site
    BY DEF Site
  <2> QED BY <1>3, <2>1
<1>5. Typed
  <2>1. job \in JobRows /\ script \in Scripts
    BY EmptyRows
  <2>2. issued \in 0..MaxTokens /\ edits \in 0..MaxEdits /\ mishaps \in 0..MaxMishaps
    BY LifecycleAssumption
  <2>3. banned \in BOOLEAN /\ task \in BOOLEAN /\ otherUp \in BOOLEAN
    OBVIOUS
  <2>4. invite \in {"none", "fresh", "used"} /\ request \in {"none", "enroll", "renew", "heartbeat"}
    OBVIOUS
  <2> QED BY <1>1, <1>2, <1>3, <1>4, <2>1, <2>2, <2>3, <2>4, Zenon DEF Typed
<1>6. LifecycleTypeOK
  BY <1>5, TypeOfRows
<1> QED
  BY <1>6 DEF LifecycleInv, JobMatchesNode, JobExcludesSites, JobExcludesUpgrade, ScriptMayClean,
              WayBack, RevocationSticks, Needed, Blocks, Retired, NoJob, NoScript

\* Enrollment, renewal and heartbeats: a certificate is signed only for a node
\* that is neither retired nor about to be uninstalled.
LEMMA IdentityKeeps ==
    ASSUME LifecycleInv,
           \/ CreateEnrollmentToken
           \/ InstallEdge
           \/ ConsumeEnrollmentToken
           \/ \E kind \in {"renew", "heartbeat"} : BeginRequest(kind)
           \/ IssueCertificate
           \/ RecordHeartbeat
    PROVE  LifecycleInv'
<1> USE DEF LifecycleInv
<1>1. CASE CreateEnrollmentToken
  <2> USE <1>1 DEF CreateEnrollmentToken, Admitted
  <2>1. LifecycleTypeOK'
    <3>1. /\ node \in NodeRows /\ job \in JobRows /\ host \in Hosts /\ script \in Scripts
          /\ draft \in Site /\ live \in Site /\ issued \in 0..MaxTokens
      BY TypeOfRows DEF Typed
    <3>2. /\ draft' \in Site /\ live' \in Site /\ banned' \in BOOLEAN /\ task' \in BOOLEAN
          /\ otherUp' \in BOOLEAN /\ issued' \in 0..MaxTokens /\ invite' \in {"none", "fresh", "used"}
          /\ request' \in {"none", "enroll", "renew", "heartbeat"}
          /\ edits' \in 0..MaxEdits /\ mishaps' \in 0..MaxMishaps
      BY <3>1, BoundsType, LifecycleAssumption DEF LifecycleTypeOK
    <3> QED BY <3>1, <3>2 DEF LifecycleTypeOK, NodeRows, NodeStatuses, JobRows,
      JobStatuses, Hosts, HostStates, Scripts
  <2>2. JobMatchesNode' /\ JobExcludesSites' /\ JobExcludesUpgrade'
    BY SMTT(30) DEF LifecycleTypeOK, JobMatchesNode, JobExcludesSites, JobExcludesUpgrade, Needed,
           NoJob, Blocks, Retired
  <2>3. ScriptMayClean' /\ WayBack' /\ RevocationSticks'
    BY DEF LifecycleTypeOK, JobMatchesNode, ScriptMayClean, WayBack, RevocationSticks, NoJob, NoScript,
           Blocks, Retired
  <2> QED BY <2>1, <2>2, <2>3
<1>2. CASE InstallEdge
  <2> USE <1>2 DEF InstallEdge
  <2>1. LifecycleTypeOK'
    <3>1. /\ node \in NodeRows /\ job \in JobRows /\ host \in Hosts /\ script \in Scripts
          /\ draft \in Site /\ live \in Site /\ issued \in 0..MaxTokens
      BY TypeOfRows DEF Typed
    <3>2. host' \in Hosts
      BY <3>1, HostUpdates, NewHosts, EmptyRows DEF HostStates
    <3>3. /\ draft' \in Site /\ live' \in Site /\ banned' \in BOOLEAN /\ task' \in BOOLEAN
          /\ otherUp' \in BOOLEAN /\ issued' \in 0..MaxTokens /\ invite' \in {"none", "fresh", "used"}
          /\ request' \in {"none", "enroll", "renew", "heartbeat"}
          /\ edits' \in 0..MaxEdits /\ mishaps' \in 0..MaxMishaps
      BY <3>1, BoundsType, LifecycleAssumption DEF LifecycleTypeOK
    <3> QED BY <3>1, <3>2, <3>3 DEF LifecycleTypeOK, NodeRows, NodeStatuses, JobRows,
      JobStatuses, Hosts, HostStates, Scripts
  <2>2. JobMatchesNode' /\ JobExcludesSites' /\ JobExcludesUpgrade'
    BY SMTT(30) DEF LifecycleTypeOK, JobMatchesNode, JobExcludesSites, JobExcludesUpgrade, Needed,
           NoJob, Blocks, Retired
  <2>3. ScriptMayClean' /\ WayBack' /\ RevocationSticks'
    BY DEF LifecycleTypeOK, JobMatchesNode, ScriptMayClean, WayBack, RevocationSticks, NoJob, NoScript,
           Blocks, Retired
  <2> QED BY <2>1, <2>2, <2>3
<1>3. CASE ConsumeEnrollmentToken
  <2> USE <1>3 DEF ConsumeEnrollmentToken, Admitted
  <2>1. LifecycleTypeOK'
    <3>1. /\ node \in NodeRows /\ job \in JobRows /\ host \in Hosts /\ script \in Scripts
          /\ draft \in Site /\ live \in Site /\ issued \in 0..MaxTokens
      BY TypeOfRows DEF Typed
    <3>2. /\ draft' \in Site /\ live' \in Site /\ banned' \in BOOLEAN /\ task' \in BOOLEAN
          /\ otherUp' \in BOOLEAN /\ issued' \in 0..MaxTokens /\ invite' \in {"none", "fresh", "used"}
          /\ request' \in {"none", "enroll", "renew", "heartbeat"}
          /\ edits' \in 0..MaxEdits /\ mishaps' \in 0..MaxMishaps
      BY <3>1, BoundsType, LifecycleAssumption DEF LifecycleTypeOK
    <3> QED BY <3>1, <3>2 DEF LifecycleTypeOK, NodeRows, NodeStatuses, JobRows,
      JobStatuses, Hosts, HostStates, Scripts
  <2>2. JobMatchesNode' /\ JobExcludesSites' /\ JobExcludesUpgrade'
    BY SMTT(30) DEF LifecycleTypeOK, JobMatchesNode, JobExcludesSites, JobExcludesUpgrade, Needed,
           NoJob, Blocks, Retired
  <2>3. ScriptMayClean' /\ WayBack' /\ RevocationSticks'
    BY DEF LifecycleTypeOK, JobMatchesNode, ScriptMayClean, WayBack, RevocationSticks, NoJob, NoScript,
           Blocks, Retired
  <2> QED BY <2>1, <2>2, <2>3
<1>4. ASSUME NEW kind \in {"renew", "heartbeat"}, BeginRequest(kind) PROVE LifecycleInv'
  <2> USE <1>4 DEF BeginRequest, Authorised
  <2>1. LifecycleTypeOK'
    <3>1. /\ node \in NodeRows /\ job \in JobRows /\ host \in Hosts /\ script \in Scripts
          /\ draft \in Site /\ live \in Site /\ issued \in 0..MaxTokens
      BY TypeOfRows DEF Typed
    <3>2. /\ draft' \in Site /\ live' \in Site /\ banned' \in BOOLEAN /\ task' \in BOOLEAN
          /\ otherUp' \in BOOLEAN /\ issued' \in 0..MaxTokens /\ invite' \in {"none", "fresh", "used"}
          /\ request' \in {"none", "enroll", "renew", "heartbeat"}
          /\ edits' \in 0..MaxEdits /\ mishaps' \in 0..MaxMishaps
      BY <3>1, BoundsType, LifecycleAssumption DEF LifecycleTypeOK
    <3> QED BY <3>1, <3>2 DEF LifecycleTypeOK, NodeRows, NodeStatuses, JobRows,
      JobStatuses, Hosts, HostStates, Scripts
  <2>2. JobMatchesNode' /\ JobExcludesSites' /\ JobExcludesUpgrade'
    BY SMTT(30) DEF LifecycleTypeOK, JobMatchesNode, JobExcludesSites, JobExcludesUpgrade, Needed,
           NoJob, Blocks, Retired
  <2>3. ScriptMayClean' /\ WayBack' /\ RevocationSticks'
    BY DEF LifecycleTypeOK, JobMatchesNode, ScriptMayClean, WayBack, RevocationSticks, NoJob, NoScript,
           Blocks, Retired
  <2> QED BY <2>1, <2>2, <2>3
<1>5. CASE IssueCertificate
  <2> USE <1>5 DEF IssueCertificate, Signed, Admitted
  <2>1. LifecycleTypeOK'
    <3>1. /\ node \in NodeRows /\ job \in JobRows /\ host \in Hosts /\ script \in Scripts
          /\ draft \in Site /\ live \in Site /\ issued \in 0..MaxTokens
      BY TypeOfRows DEF Typed
    <3>2. node' \in NodeRows
      <4>1. node' = node \/ node' = [node EXCEPT !.cert = NewCertificate]
        OBVIOUS
      <4>2. NewCertificate \in 0..3
        BY NewCertificateType
      <4> QED BY <3>1, <4>1, <4>2, NodeUpdates, Zenon
    <3>3. host' \in Hosts
      <4>1. node'.cert \in 0..3
        BY <3>2 DEF NodeRows
      <4>2. host' = host \/ host' = [host EXCEPT !.cert = node'.cert]
        OBVIOUS
      <4> QED BY <3>1, <4>1, <4>2, HostUpdates, ZenonT(30)
    <3>4. /\ draft' \in Site /\ live' \in Site /\ banned' \in BOOLEAN /\ task' \in BOOLEAN
          /\ otherUp' \in BOOLEAN /\ issued' \in 0..MaxTokens /\ invite' \in {"none", "fresh", "used"}
          /\ request' \in {"none", "enroll", "renew", "heartbeat"}
          /\ edits' \in 0..MaxEdits /\ mishaps' \in 0..MaxMishaps
      BY <3>1, BoundsType, LifecycleAssumption DEF LifecycleTypeOK
    <3> QED BY <3>1, <3>2, <3>3, <3>4 DEF LifecycleTypeOK, NodeRows, NodeStatuses, JobRows,
      JobStatuses, Hosts, HostStates, Scripts
  <2>2. JobMatchesNode' /\ JobExcludesSites' /\ JobExcludesUpgrade'
    BY SMTT(30) DEF LifecycleTypeOK, JobMatchesNode, JobExcludesSites, JobExcludesUpgrade, Needed,
           NoJob, Blocks, Retired
  <2>3. ScriptMayClean' /\ WayBack' /\ RevocationSticks'
    BY DEF LifecycleTypeOK, JobMatchesNode, ScriptMayClean, WayBack, RevocationSticks, NoJob, NoScript,
           Blocks, Retired
  <2> QED BY <2>1, <2>2, <2>3
<1>6. CASE RecordHeartbeat
  <2> USE <1>6 DEF RecordHeartbeat
  <2>1. LifecycleTypeOK'
    <3>1. /\ node \in NodeRows /\ job \in JobRows /\ host \in Hosts /\ script \in Scripts
          /\ draft \in Site /\ live \in Site /\ issued \in 0..MaxTokens
      BY TypeOfRows DEF Typed
    <3>2. node' \in NodeRows
      <4> DEFINE status == IF node.status = "pending" THEN "active" ELSE node.status
      <4>1. node' = node \/ node' = [node EXCEPT !.status = status, !.marker = host.upgrading]
        OBVIOUS
      <4>2. status \in NodeStatuses /\ host.upgrading \in BOOLEAN
        BY <3>1 DEF NodeRows, NodeStatuses, Hosts
      <4> HIDE DEF status
      <4> QED BY <3>1, <4>1, <4>2, NodeUpdates
    <3>3. /\ draft' \in Site /\ live' \in Site /\ banned' \in BOOLEAN /\ task' \in BOOLEAN
          /\ otherUp' \in BOOLEAN /\ issued' \in 0..MaxTokens /\ invite' \in {"none", "fresh", "used"}
          /\ request' \in {"none", "enroll", "renew", "heartbeat"}
          /\ edits' \in 0..MaxEdits /\ mishaps' \in 0..MaxMishaps
      BY <3>1, BoundsType, LifecycleAssumption DEF LifecycleTypeOK
    <3> QED BY <3>1, <3>2, <3>3 DEF LifecycleTypeOK, NodeRows, NodeStatuses, JobRows,
      JobStatuses, Hosts, HostStates, Scripts
  <2>2. JobMatchesNode' /\ JobExcludesSites' /\ JobExcludesUpgrade'
    BY SMTT(30) DEF LifecycleTypeOK, JobMatchesNode, JobExcludesSites, JobExcludesUpgrade, Needed,
           NoJob, Blocks, Retired
  <2>3. ScriptMayClean' /\ WayBack' /\ RevocationSticks'
    BY DEF LifecycleTypeOK, JobMatchesNode, ScriptMayClean, WayBack, RevocationSticks, NoJob, NoScript,
           Blocks, Retired
  <2> QED BY <2>1, <2>2, <2>3
<1> QED BY <1>1, <1>2, <1>3, <1>4, <1>5, <1>6

\* The administrator and smart routing change the status, and upgrades begin.
LEMMA StatusKeeps ==
    ASSUME LifecycleInv,
           \/ \E status \in {"active", "draining", "revoked"} : SetStatus(status)
           \/ RouteAround
           \/ StartUpgrade
           \/ UpgradeProceeds
    PROVE  LifecycleInv'
<1> USE DEF LifecycleInv
<1>1. ASSUME NEW status \in {"active", "draining", "revoked"}, SetStatus(status) PROVE LifecycleInv'
  <2> USE <1>1 DEF SetStatus, JobOnRevocation
  <2>1. LifecycleTypeOK'
    <3>1. /\ node \in NodeRows /\ job \in JobRows /\ host \in Hosts /\ script \in Scripts
          /\ draft \in Site /\ live \in Site /\ issued \in 0..MaxTokens
      BY TypeOfRows DEF Typed
    <3>2. node' \in NodeRows
      BY <3>1, NodeUpdates, NewNodeRows, EmptyRows DEF NodeStatuses, Retired
    <3>3. job' \in JobRows
      BY <3>1, JobUpdates, EmptyRows DEF JobStatuses, Blocks
    <3>4. /\ draft' \in Site /\ live' \in Site /\ banned' \in BOOLEAN /\ task' \in BOOLEAN
          /\ otherUp' \in BOOLEAN /\ issued' \in 0..MaxTokens /\ invite' \in {"none", "fresh", "used"}
          /\ request' \in {"none", "enroll", "renew", "heartbeat"}
          /\ edits' \in 0..MaxEdits /\ mishaps' \in 0..MaxMishaps
      BY <3>1, BoundsType, LifecycleAssumption DEF LifecycleTypeOK
    <3> QED BY <3>1, <3>2, <3>3, <3>4 DEF LifecycleTypeOK, NodeRows, NodeStatuses, JobRows,
      JobStatuses, Hosts, HostStates, Scripts
  <2>2. JobMatchesNode' /\ JobExcludesSites' /\ JobExcludesUpgrade'
    BY SMTT(30) DEF LifecycleTypeOK, JobMatchesNode, JobExcludesSites, JobExcludesUpgrade, Needed,
           NoJob, Blocks, Retired
  <2>3. ScriptMayClean' /\ WayBack' /\ RevocationSticks'
    BY DEF LifecycleTypeOK, JobMatchesNode, ScriptMayClean, WayBack, RevocationSticks, NoJob, NoScript,
           Blocks, Retired
  <2> QED BY <2>1, <2>2, <2>3
<1>2. CASE RouteAround
  <2> USE <1>2 DEF RouteAround
  <2>1. LifecycleTypeOK'
    <3>1. /\ node \in NodeRows /\ job \in JobRows /\ host \in Hosts /\ script \in Scripts
          /\ draft \in Site /\ live \in Site /\ issued \in 0..MaxTokens
      BY TypeOfRows DEF Typed
    <3>2. node' \in NodeRows
      BY <3>1, NodeUpdates, NewNodeRows, EmptyRows DEF NodeStatuses, Retired
    <3>3. /\ draft' \in Site /\ live' \in Site /\ banned' \in BOOLEAN /\ task' \in BOOLEAN
          /\ otherUp' \in BOOLEAN /\ issued' \in 0..MaxTokens /\ invite' \in {"none", "fresh", "used"}
          /\ request' \in {"none", "enroll", "renew", "heartbeat"}
          /\ edits' \in 0..MaxEdits /\ mishaps' \in 0..MaxMishaps
      BY <3>1, BoundsType, LifecycleAssumption DEF LifecycleTypeOK
    <3> QED BY <3>1, <3>2, <3>3 DEF LifecycleTypeOK, NodeRows, NodeStatuses, JobRows,
      JobStatuses, Hosts, HostStates, Scripts
  <2>2. JobMatchesNode' /\ JobExcludesSites' /\ JobExcludesUpgrade'
    BY ZenonT(30) DEF LifecycleTypeOK, JobMatchesNode, JobExcludesSites, JobExcludesUpgrade, Needed,
           NoJob, Blocks, Retired
  <2>3. ScriptMayClean' /\ WayBack' /\ RevocationSticks'
    BY DEF LifecycleTypeOK, JobMatchesNode, ScriptMayClean, WayBack, RevocationSticks, NoJob, NoScript,
           Blocks, Retired
  <2> QED BY <2>1, <2>2, <2>3
<1>3. CASE StartUpgrade
  <2> USE <1>3 DEF StartUpgrade, Upgradable
  <2>1. LifecycleTypeOK'
    <3>1. /\ node \in NodeRows /\ job \in JobRows /\ host \in Hosts /\ script \in Scripts
          /\ draft \in Site /\ live \in Site /\ issued \in 0..MaxTokens
      BY TypeOfRows DEF Typed
    <3>2. /\ draft' \in Site /\ live' \in Site /\ banned' \in BOOLEAN /\ task' \in BOOLEAN
          /\ otherUp' \in BOOLEAN /\ issued' \in 0..MaxTokens /\ invite' \in {"none", "fresh", "used"}
          /\ request' \in {"none", "enroll", "renew", "heartbeat"}
          /\ edits' \in 0..MaxEdits /\ mishaps' \in 0..MaxMishaps
      BY <3>1, BoundsType, LifecycleAssumption DEF LifecycleTypeOK
    <3> QED BY <3>1, <3>2 DEF LifecycleTypeOK, NodeRows, NodeStatuses, JobRows,
      JobStatuses, Hosts, HostStates, Scripts
  <2>2. JobMatchesNode' /\ JobExcludesSites' /\ JobExcludesUpgrade'
    BY SMTT(30) DEF LifecycleTypeOK, JobMatchesNode, JobExcludesSites, JobExcludesUpgrade, Needed,
           NoJob, Blocks, Retired
  <2>3. ScriptMayClean' /\ WayBack' /\ RevocationSticks'
    BY DEF LifecycleTypeOK, JobMatchesNode, ScriptMayClean, WayBack, RevocationSticks, NoJob, NoScript,
           Blocks, Retired
  <2> QED BY <2>1, <2>2, <2>3
<1>4. CASE UpgradeProceeds
  <2> USE <1>4 DEF UpgradeProceeds, Authorised
  <2>1. LifecycleTypeOK'
    <3>1. /\ node \in NodeRows /\ job \in JobRows /\ host \in Hosts /\ script \in Scripts
          /\ draft \in Site /\ live \in Site /\ issued \in 0..MaxTokens
      BY TypeOfRows DEF Typed
    <3>2. host' \in Hosts
      BY <3>1, HostUpdates, NewHosts, EmptyRows DEF HostStates
    <3>3. /\ draft' \in Site /\ live' \in Site /\ banned' \in BOOLEAN /\ task' \in BOOLEAN
          /\ otherUp' \in BOOLEAN /\ issued' \in 0..MaxTokens /\ invite' \in {"none", "fresh", "used"}
          /\ request' \in {"none", "enroll", "renew", "heartbeat"}
          /\ edits' \in 0..MaxEdits /\ mishaps' \in 0..MaxMishaps
      BY <3>1, BoundsType, LifecycleAssumption DEF LifecycleTypeOK
    <3> QED BY <3>1, <3>2, <3>3 DEF LifecycleTypeOK, NodeRows, NodeStatuses, JobRows,
      JobStatuses, Hosts, HostStates, Scripts
  <2>2. JobMatchesNode' /\ JobExcludesSites' /\ JobExcludesUpgrade'
    BY SMTT(30) DEF LifecycleTypeOK, JobMatchesNode, JobExcludesSites, JobExcludesUpgrade, Needed,
           NoJob, Blocks, Retired
  <2>3. ScriptMayClean' /\ WayBack' /\ RevocationSticks'
    BY DEF LifecycleTypeOK, JobMatchesNode, ScriptMayClean, WayBack, RevocationSticks, NoJob, NoScript,
           Blocks, Retired
  <2> QED BY <2>1, <2>2, <2>3
<1> QED BY <1>1, <1>2, <1>3, <1>4

\* A site gets the node only while nobody uninstalls it.
LEMMA SitesKeep ==
    ASSUME LifecycleInv,
           \/ \E site \in Site : UpdateSite(site)
           \/ PublishSite
           \/ OtherNodeChanges
    PROVE  LifecycleInv'
<1> USE DEF LifecycleInv
<1>1. ASSUME NEW site \in Site, UpdateSite(site) PROVE LifecycleInv'
  <2> USE <1>1 DEF UpdateSite, Assignable, Admitted, Released
  <2>1. LifecycleTypeOK'
    <3>1. /\ node \in NodeRows /\ job \in JobRows /\ host \in Hosts /\ script \in Scripts
          /\ draft \in Site /\ live \in Site /\ issued \in 0..MaxTokens
      BY TypeOfRows DEF Typed
    <3>2. /\ draft' \in Site /\ live' \in Site /\ banned' \in BOOLEAN /\ task' \in BOOLEAN
          /\ otherUp' \in BOOLEAN /\ issued' \in 0..MaxTokens /\ invite' \in {"none", "fresh", "used"}
          /\ request' \in {"none", "enroll", "renew", "heartbeat"}
          /\ edits' \in 0..MaxEdits /\ mishaps' \in 0..MaxMishaps
      BY <3>1, BoundsType, LifecycleAssumption DEF LifecycleTypeOK
    <3> QED BY <3>1, <3>2 DEF LifecycleTypeOK, NodeRows, NodeStatuses, JobRows,
      JobStatuses, Hosts, HostStates, Scripts
  <2>2. JobMatchesNode' /\ JobExcludesSites' /\ JobExcludesUpgrade'
    BY SMTT(30) DEF LifecycleTypeOK, JobMatchesNode, JobExcludesSites, JobExcludesUpgrade, Needed,
           NoJob, Blocks, Retired
  <2>3. ScriptMayClean' /\ WayBack' /\ RevocationSticks'
    BY DEF LifecycleTypeOK, JobMatchesNode, ScriptMayClean, WayBack, RevocationSticks, NoJob, NoScript,
           Blocks, Retired
  <2> QED BY <2>1, <2>2, <2>3
<1>2. CASE PublishSite
  <2> USE <1>2 DEF PublishSite
  <2>1. LifecycleTypeOK'
    <3>1. /\ node \in NodeRows /\ job \in JobRows /\ host \in Hosts /\ script \in Scripts
          /\ draft \in Site /\ live \in Site /\ issued \in 0..MaxTokens
      BY TypeOfRows DEF Typed
    <3>2. /\ draft' \in Site /\ live' \in Site /\ banned' \in BOOLEAN /\ task' \in BOOLEAN
          /\ otherUp' \in BOOLEAN /\ issued' \in 0..MaxTokens /\ invite' \in {"none", "fresh", "used"}
          /\ request' \in {"none", "enroll", "renew", "heartbeat"}
          /\ edits' \in 0..MaxEdits /\ mishaps' \in 0..MaxMishaps
      BY <3>1, BoundsType, LifecycleAssumption DEF LifecycleTypeOK
    <3> QED BY <3>1, <3>2 DEF LifecycleTypeOK, NodeRows, NodeStatuses, JobRows,
      JobStatuses, Hosts, HostStates, Scripts
  <2>2. JobMatchesNode' /\ JobExcludesSites' /\ JobExcludesUpgrade'
    BY SMTT(30) DEF LifecycleTypeOK, JobMatchesNode, JobExcludesSites, JobExcludesUpgrade, Needed,
           NoJob, Blocks, Retired
  <2>3. ScriptMayClean' /\ WayBack' /\ RevocationSticks'
    BY DEF LifecycleTypeOK, JobMatchesNode, ScriptMayClean, WayBack, RevocationSticks, NoJob, NoScript,
           Blocks, Retired
  <2> QED BY <2>1, <2>2, <2>3
<1>3. CASE OtherNodeChanges
  <2> USE <1>3 DEF OtherNodeChanges
  <2>1. LifecycleTypeOK'
    <3>1. /\ node \in NodeRows /\ job \in JobRows /\ host \in Hosts /\ script \in Scripts
          /\ draft \in Site /\ live \in Site /\ issued \in 0..MaxTokens
      BY TypeOfRows DEF Typed
    <3>2. /\ draft' \in Site /\ live' \in Site /\ banned' \in BOOLEAN /\ task' \in BOOLEAN
          /\ otherUp' \in BOOLEAN /\ issued' \in 0..MaxTokens /\ invite' \in {"none", "fresh", "used"}
          /\ request' \in {"none", "enroll", "renew", "heartbeat"}
          /\ edits' \in 0..MaxEdits /\ mishaps' \in 0..MaxMishaps
      BY <3>1, BoundsType, LifecycleAssumption DEF LifecycleTypeOK
    <3> QED BY <3>1, <3>2 DEF LifecycleTypeOK, NodeRows, NodeStatuses, JobRows,
      JobStatuses, Hosts, HostStates, Scripts
  <2>2. JobMatchesNode' /\ JobExcludesSites' /\ JobExcludesUpgrade'
    BY SMTT(30) DEF LifecycleTypeOK, JobMatchesNode, JobExcludesSites, JobExcludesUpgrade, Needed,
           NoJob, Blocks, Retired
  <2>3. ScriptMayClean' /\ WayBack' /\ RevocationSticks'
    BY DEF LifecycleTypeOK, JobMatchesNode, ScriptMayClean, WayBack, RevocationSticks, NoJob, NoScript,
           Blocks, Retired
  <2> QED BY <2>1, <2>2, <2>3
<1> QED BY <1>1, <1>2, <1>3

\* The workflow in the controller.
LEMMA JobsKeep ==
    ASSUME LifecycleInv,
           \/ PrepareUninstall
           \/ DNSWaitOver
           \/ CreateUninstallCommand
           \/ TokenExpires
           \/ CancelUninstall
           \/ ForceCompleteUninstall
           \/ DeleteNode
    PROVE  LifecycleInv'
<1> USE DEF LifecycleInv
<1>1. CASE PrepareUninstall
  <2> USE <1>1 DEF PrepareUninstall
  <2>1. LifecycleTypeOK'
    <3>1. /\ node \in NodeRows /\ job \in JobRows /\ host \in Hosts /\ script \in Scripts
          /\ draft \in Site /\ live \in Site /\ issued \in 0..MaxTokens
      BY TypeOfRows DEF Typed
    <3>2. job' \in JobRows
      <4> DEFINE affected == "node" \in draft.nodes \union live.nodes
      <4>1. job' = [NoJob EXCEPT !.status = "preparing", !.previous = node.status, !.waiting = TRUE,
                      !.affected = affected]
        OBVIOUS
      <4>2. node.status \in {"draining", "revoked"} /\ affected \in BOOLEAN
            /\ "preparing" \in JobStatuses /\ TRUE \in BOOLEAN
        BY DEF JobStatuses
      <4> HIDE DEF affected
      <4>3. [NoJob EXCEPT !.status = "preparing", !.previous = node.status, !.waiting = TRUE,
               !.affected = affected] \in JobRows
        BY <4>2, EmptyRows, JobUpdates, ZenonT(30)
      <4> QED BY <4>1, <4>3
    <3>3. /\ draft' \in Site /\ live' \in Site /\ banned' \in BOOLEAN /\ task' \in BOOLEAN
          /\ otherUp' \in BOOLEAN /\ issued' \in 0..MaxTokens /\ invite' \in {"none", "fresh", "used"}
          /\ request' \in {"none", "enroll", "renew", "heartbeat"}
          /\ edits' \in 0..MaxEdits /\ mishaps' \in 0..MaxMishaps
      BY <3>1, BoundsType, LifecycleAssumption DEF LifecycleTypeOK
    <3> QED BY <3>1, <3>2, <3>3 DEF LifecycleTypeOK, NodeRows, NodeStatuses, JobRows,
      JobStatuses, Hosts, HostStates, Scripts
  <2>2. JobMatchesNode' /\ JobExcludesSites' /\ JobExcludesUpgrade'
    BY ZenonT(30) DEF LifecycleTypeOK, JobMatchesNode, JobExcludesSites, JobExcludesUpgrade, Needed,
           NoJob, Blocks, Retired
  <2>3. ScriptMayClean' /\ WayBack' /\ RevocationSticks'
    BY DEF LifecycleTypeOK, JobMatchesNode, ScriptMayClean, WayBack, RevocationSticks, NoJob, NoScript,
           Blocks, Retired
  <2> QED BY <2>1, <2>2, <2>3
<1>2. CASE DNSWaitOver
  <2> USE <1>2 DEF DNSWaitOver
  <2>1. LifecycleTypeOK'
    <3>1. /\ node \in NodeRows /\ job \in JobRows /\ host \in Hosts /\ script \in Scripts
          /\ draft \in Site /\ live \in Site /\ issued \in 0..MaxTokens
      BY TypeOfRows DEF Typed
    <3>2. job' \in JobRows
      BY <3>1, JobUpdates, EmptyRows DEF JobStatuses, Blocks
    <3>3. /\ draft' \in Site /\ live' \in Site /\ banned' \in BOOLEAN /\ task' \in BOOLEAN
          /\ otherUp' \in BOOLEAN /\ issued' \in 0..MaxTokens /\ invite' \in {"none", "fresh", "used"}
          /\ request' \in {"none", "enroll", "renew", "heartbeat"}
          /\ edits' \in 0..MaxEdits /\ mishaps' \in 0..MaxMishaps
      BY <3>1, BoundsType, LifecycleAssumption DEF LifecycleTypeOK
    <3> QED BY <3>1, <3>2, <3>3 DEF LifecycleTypeOK, NodeRows, NodeStatuses, JobRows,
      JobStatuses, Hosts, HostStates, Scripts
  <2>2. JobMatchesNode' /\ JobExcludesSites' /\ JobExcludesUpgrade'
    BY SMTT(30) DEF LifecycleTypeOK, JobMatchesNode, JobExcludesSites, JobExcludesUpgrade, Needed,
           NoJob, Blocks, Retired
  <2>3. ScriptMayClean' /\ WayBack' /\ RevocationSticks'
    BY DEF LifecycleTypeOK, JobMatchesNode, ScriptMayClean, WayBack, RevocationSticks, NoJob, NoScript,
           Blocks, Retired
  <2> QED BY <2>1, <2>2, <2>3
<1>3. CASE CreateUninstallCommand
  <2> USE <1>3 DEF CreateUninstallCommand, Unblocked
  <2>1. LifecycleTypeOK'
    <3>1. /\ node \in NodeRows /\ job \in JobRows /\ host \in Hosts /\ script \in Scripts
          /\ draft \in Site /\ live \in Site /\ issued \in 0..MaxTokens
      BY TypeOfRows DEF Typed
    <3>2. job' \in JobRows
      <4>1. job' = [job EXCEPT !.status = "ready", !.token = issued + 1, !.expired = FALSE]
        OBVIOUS
      <4>2. issued + 1 \in 0..MaxTokens /\ "ready" \in JobStatuses /\ FALSE \in BOOLEAN
        BY <3>1, LifecycleAssumption DEF JobStatuses
      <4>3. [job EXCEPT !.status = "ready", !.token = issued + 1, !.expired = FALSE] \in JobRows
        BY <3>1, <4>2, JobUpdates, ZenonT(30)
      <4> QED BY <4>1, <4>3
    <3>3. /\ draft' \in Site /\ live' \in Site /\ banned' \in BOOLEAN /\ task' \in BOOLEAN
          /\ otherUp' \in BOOLEAN /\ issued' \in 0..MaxTokens /\ invite' \in {"none", "fresh", "used"}
          /\ request' \in {"none", "enroll", "renew", "heartbeat"}
          /\ edits' \in 0..MaxEdits /\ mishaps' \in 0..MaxMishaps
      BY <3>1, BoundsType, LifecycleAssumption DEF LifecycleTypeOK
    <3> QED BY <3>1, <3>2, <3>3 DEF LifecycleTypeOK, NodeRows, NodeStatuses, JobRows,
      JobStatuses, Hosts, HostStates, Scripts
  <2>2. JobMatchesNode' /\ JobExcludesSites' /\ JobExcludesUpgrade'
    BY SMTT(30) DEF LifecycleTypeOK, JobMatchesNode, JobExcludesSites, JobExcludesUpgrade, Needed,
           NoJob, Blocks, Retired
  <2>3. ScriptMayClean' /\ WayBack' /\ RevocationSticks'
    BY DEF LifecycleTypeOK, JobMatchesNode, ScriptMayClean, WayBack, RevocationSticks, NoJob, NoScript,
           Blocks, Retired
  <2> QED BY <2>1, <2>2, <2>3
<1>4. CASE TokenExpires
  <2> USE <1>4 DEF TokenExpires
  <2>1. LifecycleTypeOK'
    <3>1. /\ node \in NodeRows /\ job \in JobRows /\ host \in Hosts /\ script \in Scripts
          /\ draft \in Site /\ live \in Site /\ issued \in 0..MaxTokens
      BY TypeOfRows DEF Typed
    <3>2. job' \in JobRows
      BY <3>1, JobUpdates, EmptyRows DEF JobStatuses, Blocks
    <3>3. /\ draft' \in Site /\ live' \in Site /\ banned' \in BOOLEAN /\ task' \in BOOLEAN
          /\ otherUp' \in BOOLEAN /\ issued' \in 0..MaxTokens /\ invite' \in {"none", "fresh", "used"}
          /\ request' \in {"none", "enroll", "renew", "heartbeat"}
          /\ edits' \in 0..MaxEdits /\ mishaps' \in 0..MaxMishaps
      BY <3>1, BoundsType, LifecycleAssumption DEF LifecycleTypeOK
    <3> QED BY <3>1, <3>2, <3>3 DEF LifecycleTypeOK, NodeRows, NodeStatuses, JobRows,
      JobStatuses, Hosts, HostStates, Scripts
  <2>2. JobMatchesNode' /\ JobExcludesSites' /\ JobExcludesUpgrade'
    BY SMTT(30) DEF LifecycleTypeOK, JobMatchesNode, JobExcludesSites, JobExcludesUpgrade, Needed,
           NoJob, Blocks, Retired
  <2>3. ScriptMayClean' /\ WayBack' /\ RevocationSticks'
    BY DEF LifecycleTypeOK, JobMatchesNode, ScriptMayClean, WayBack, RevocationSticks, NoJob, NoScript,
           Blocks, Retired
  <2> QED BY <2>1, <2>2, <2>3
<1>5. CASE CancelUninstall
  <2> USE <1>5 DEF CancelUninstall
  <2>1. LifecycleTypeOK'
    <3>1. /\ node \in NodeRows /\ job \in JobRows /\ host \in Hosts /\ script \in Scripts
          /\ draft \in Site /\ live \in Site /\ issued \in 0..MaxTokens
      BY TypeOfRows DEF Typed
    <3>2. job' \in JobRows
      BY <3>1, JobUpdates, EmptyRows DEF JobStatuses, Blocks
    <3>3. /\ draft' \in Site /\ live' \in Site /\ banned' \in BOOLEAN /\ task' \in BOOLEAN
          /\ otherUp' \in BOOLEAN /\ issued' \in 0..MaxTokens /\ invite' \in {"none", "fresh", "used"}
          /\ request' \in {"none", "enroll", "renew", "heartbeat"}
          /\ edits' \in 0..MaxEdits /\ mishaps' \in 0..MaxMishaps
      BY <3>1, BoundsType, LifecycleAssumption DEF LifecycleTypeOK
    <3> QED BY <3>1, <3>2, <3>3 DEF LifecycleTypeOK, NodeRows, NodeStatuses, JobRows,
      JobStatuses, Hosts, HostStates, Scripts
  <2>2. JobMatchesNode' /\ JobExcludesSites' /\ JobExcludesUpgrade'
    BY SMTT(30) DEF LifecycleTypeOK, JobMatchesNode, JobExcludesSites, JobExcludesUpgrade, Needed,
           NoJob, Blocks, Retired
  <2>3. ScriptMayClean' /\ WayBack' /\ RevocationSticks'
    BY DEF LifecycleTypeOK, JobMatchesNode, ScriptMayClean, WayBack, RevocationSticks, NoJob, NoScript,
           Blocks, Retired
  <2> QED BY <2>1, <2>2, <2>3
<1>6. CASE ForceCompleteUninstall
  <2> USE <1>6 DEF ForceCompleteUninstall, Forcible, Unblocked, Uninstalled
  <2>1. LifecycleTypeOK'
    <3>1. /\ node \in NodeRows /\ job \in JobRows /\ host \in Hosts /\ script \in Scripts
          /\ draft \in Site /\ live \in Site /\ issued \in 0..MaxTokens
      BY TypeOfRows DEF Typed
    <3>2. node' \in NodeRows
      BY <3>1, NodeUpdates, NewNodeRows, EmptyRows DEF NodeStatuses, Retired
    <3>3. job' \in JobRows
      BY <3>1, JobUpdates, EmptyRows DEF JobStatuses, Blocks
    <3>4. /\ draft' \in Site /\ live' \in Site /\ banned' \in BOOLEAN /\ task' \in BOOLEAN
          /\ otherUp' \in BOOLEAN /\ issued' \in 0..MaxTokens /\ invite' \in {"none", "fresh", "used"}
          /\ request' \in {"none", "enroll", "renew", "heartbeat"}
          /\ edits' \in 0..MaxEdits /\ mishaps' \in 0..MaxMishaps
      BY <3>1, BoundsType, LifecycleAssumption DEF LifecycleTypeOK
    <3> QED BY <3>1, <3>2, <3>3, <3>4 DEF LifecycleTypeOK, NodeRows, NodeStatuses, JobRows,
      JobStatuses, Hosts, HostStates, Scripts
  <2>2. JobMatchesNode' /\ JobExcludesSites' /\ JobExcludesUpgrade'
    BY SMTT(30) DEF LifecycleTypeOK, JobMatchesNode, JobExcludesSites, JobExcludesUpgrade, Needed,
           NoJob, Blocks, Retired
  <2>3. ScriptMayClean' /\ WayBack' /\ RevocationSticks'
    BY DEF LifecycleTypeOK, JobMatchesNode, ScriptMayClean, WayBack, RevocationSticks, NoJob, NoScript,
           Blocks, Retired
  <2> QED BY <2>1, <2>2, <2>3
<1>7. CASE DeleteNode
  <2> USE <1>7 DEF DeleteNode
  <2>1. LifecycleTypeOK'
    <3>1. /\ node \in NodeRows /\ job \in JobRows /\ host \in Hosts /\ script \in Scripts
          /\ draft \in Site /\ live \in Site /\ issued \in 0..MaxTokens
      BY TypeOfRows DEF Typed
    <3>2. node' \in NodeRows
      BY <3>1, NodeUpdates, NewNodeRows, EmptyRows DEF NodeStatuses, Retired
    <3>3. job' \in JobRows
      BY <3>1, JobUpdates, EmptyRows DEF JobStatuses, Blocks
    <3>4. /\ draft' \in Site /\ live' \in Site /\ banned' \in BOOLEAN /\ task' \in BOOLEAN
          /\ otherUp' \in BOOLEAN /\ issued' \in 0..MaxTokens /\ invite' \in {"none", "fresh", "used"}
          /\ request' \in {"none", "enroll", "renew", "heartbeat"}
          /\ edits' \in 0..MaxEdits /\ mishaps' \in 0..MaxMishaps
      BY <3>1, BoundsType, LifecycleAssumption DEF LifecycleTypeOK
    <3> QED BY <3>1, <3>2, <3>3, <3>4 DEF LifecycleTypeOK, NodeRows, NodeStatuses, JobRows,
      JobStatuses, Hosts, HostStates, Scripts
  <2>2. JobMatchesNode' /\ JobExcludesSites' /\ JobExcludesUpgrade'
    BY SMTT(30) DEF LifecycleTypeOK, JobMatchesNode, JobExcludesSites, JobExcludesUpgrade, Needed,
           NoJob, Blocks, Retired
  <2>3. ScriptMayClean' /\ WayBack' /\ RevocationSticks'
    BY DEF LifecycleTypeOK, JobMatchesNode, ScriptMayClean, WayBack, RevocationSticks, NoJob, NoScript,
           Blocks, Retired
  <2> QED BY <2>1, <2>2, <2>3
<1> QED BY <1>1, <1>2, <1>3, <1>4, <1>5, <1>6, <1>7

\* The script and what becomes of its calls.
LEMMA ScriptKeeps ==
    ASSUME LifecycleInv,
           \/ RunCommand
           \/ CallStart
           \/ StopServices
           \/ CleanHost
           \/ ScriptFails
           \/ CallFail
           \/ CallComplete
           \/ KillScript
    PROVE  LifecycleInv'
<1> USE DEF LifecycleInv
<1>1. CASE RunCommand
  <2> USE <1>1 DEF RunCommand
  <2>1. LifecycleTypeOK'
    <3>1. /\ node \in NodeRows /\ job \in JobRows /\ host \in Hosts /\ script \in Scripts
          /\ draft \in Site /\ live \in Site /\ issued \in 0..MaxTokens
      BY TypeOfRows DEF Typed
    <3>2. script' \in Scripts
      <4>1. PICK t \in 1..issued : script' = [pc |-> "start", token |-> t, found |-> host.state]
        OBVIOUS
      <4>2. t \in 0..MaxTokens /\ host.state \in HostStates
        BY <3>1, LifecycleAssumption DEF Hosts
      <4> QED BY <4>1, <4>2 DEF Scripts
    <3>3. /\ draft' \in Site /\ live' \in Site /\ banned' \in BOOLEAN /\ task' \in BOOLEAN
          /\ otherUp' \in BOOLEAN /\ issued' \in 0..MaxTokens /\ invite' \in {"none", "fresh", "used"}
          /\ request' \in {"none", "enroll", "renew", "heartbeat"}
          /\ edits' \in 0..MaxEdits /\ mishaps' \in 0..MaxMishaps
      BY <3>1, BoundsType, LifecycleAssumption DEF LifecycleTypeOK
    <3> QED BY <3>1, <3>2, <3>3 DEF LifecycleTypeOK, NodeRows, NodeStatuses, JobRows,
      JobStatuses, Hosts, HostStates, Scripts
  <2>2. JobMatchesNode' /\ JobExcludesSites' /\ JobExcludesUpgrade'
    BY SMTT(30) DEF LifecycleTypeOK, JobMatchesNode, JobExcludesSites, JobExcludesUpgrade, Needed,
           NoJob, Blocks, Retired
  <2>3. ScriptMayClean' /\ WayBack' /\ RevocationSticks'
    BY DEF LifecycleTypeOK, JobMatchesNode, ScriptMayClean, WayBack, RevocationSticks, NoJob, NoScript,
           Blocks, Retired
  <2> QED BY <2>1, <2>2, <2>3
<1>2. CASE CallStart
  <2> USE <1>2
  <2>1. /\ \/ /\ job.status \in {"ready", "running", "failed"}
              /\ job' = [job EXCEPT !.status = "running", !.started = TRUE]
              /\ node' = [node EXCEPT !.status = "uninstalling"]
           \/ /\ job.status = "forced" /\ node' = node
              /\ job' = [job EXCEPT !.started = TRUE]
           \/ job' = job /\ node' = node
        /\ \/ script' = NoScript
           \/ /\ script' = [script EXCEPT !.pc = "stop"]
              /\ job'.status \in {"running", "succeeded", "forced"}
        /\ mishaps' = mishaps \/ Mishap
        /\ UNCHANGED <<banned, task, draft, live, otherUp, issued, invite, request, host, edits>>
    <3>1. job.status \in JobStatuses /\ job \in JobRows
      BY TypeOfRows DEF Typed, JobRows
    <3>2. CASE StartAllowed /\ job.status \in {"ready", "running", "failed"}
      BY <3>1, <3>2 DEF CallStart, HandleStart, StartAllowed, Off, JobRows
    <3>3. CASE StartAllowed /\ job.status = "forced"
      BY <3>1, <3>3 DEF CallStart, HandleStart, StartAllowed, Off, JobRows
    <3>4. CASE StartAllowed /\ job.status = "succeeded"
      BY <3>4 DEF CallStart, HandleStart, StartAllowed, Off
    <3>5. CASE ~StartAllowed
      BY <3>5 DEF CallStart, HandleStart, Off
    <3> QED BY <3>2, <3>3, <3>4, <3>5 DEF StartAllowed
  <2>2. LifecycleTypeOK'
    <3>1. /\ node \in NodeRows /\ job \in JobRows /\ host \in Hosts /\ script \in Scripts
          /\ draft \in Site /\ live \in Site /\ issued \in 0..MaxTokens
      BY TypeOfRows DEF Typed
    <3>2. node' \in NodeRows
      <4>1. node' = node \/ node' = [node EXCEPT !.status = "uninstalling"]
        BY <2>1
      <4>2. "uninstalling" \in NodeStatuses
        BY DEF NodeStatuses, Retired
      <4>3. [node EXCEPT !.status = "uninstalling"] \in NodeRows
        BY <3>1, <4>2, NodeUpdates, ZenonT(30)
      <4> QED BY <3>1, <4>1, <4>3
    <3>3. job' \in JobRows
      <4>1. \/ job' = job
            \/ job' = [job EXCEPT !.started = TRUE]
            \/ job' = [job EXCEPT !.status = "running", !.started = TRUE]
        BY <2>1
      <4>2. "running" \in JobStatuses /\ TRUE \in BOOLEAN
        BY DEF JobStatuses
      <4> QED BY <3>1, <4>1, <4>2, JobUpdates, ZenonT(30)
    <3>4. script' \in Scripts
      BY <2>1, <3>1, EmptyRows DEF Scripts
    <3>5. /\ draft' \in Site /\ live' \in Site /\ banned' \in BOOLEAN /\ task' \in BOOLEAN
          /\ otherUp' \in BOOLEAN /\ issued' \in 0..MaxTokens /\ invite' \in {"none", "fresh", "used"}
          /\ request' \in {"none", "enroll", "renew", "heartbeat"}
          /\ edits' \in 0..MaxEdits /\ mishaps' \in 0..MaxMishaps
      BY <2>1, <3>1, BoundsType, LifecycleAssumption DEF LifecycleTypeOK
    <3> QED BY <2>1, <3>1, <3>2, <3>3, <3>4, <3>5 DEF LifecycleTypeOK, NodeRows, NodeStatuses, JobRows,
      JobStatuses, Hosts, HostStates, Scripts
  <2>3. /\ node \in NodeRows /\ job \in JobRows /\ script \in Scripts /\ host \in Hosts
    BY TypeOfRows DEF Typed
  <2>4. JobMatchesNode' /\ JobExcludesSites' /\ JobExcludesUpgrade'
    BY <2>1, <2>3 DEF NodeRows, JobRows, JobMatchesNode, JobExcludesSites, JobExcludesUpgrade,
                      Needed, Blocks, Retired
  <2>5. ScriptMayClean'
    <3>1. script'.pc # "off" => job'.status \in {"running", "succeeded", "forced"}
      BY <2>1 DEF NoScript
    <3>2. script'.pc # "off" => node'.status \in {"uninstalling", "uninstalled"}
      BY <2>4, <3>1 DEF JobMatchesNode
    <3>3. script'.pc \in {"off", "stop"}
      BY <2>1, <2>3 DEF Scripts, NoScript
    <3>4. host'.state = "cleaned" => node'.status \in {"uninstalling", "uninstalled", "gone"}
      BY <2>1, <2>3 DEF NodeRows, ScriptMayClean
    <3> QED BY <3>2, <3>3, <3>4 DEF ScriptMayClean
  <2>6. WayBack' /\ RevocationSticks'
    BY <2>1, <2>3 DEF NodeRows, JobRows, WayBack, RevocationSticks, Blocks, Retired
  <2> QED BY <2>2, <2>4, <2>5, <2>6
<1>3. CASE StopServices
  <2> USE <1>3 DEF StopServices
  <2>1. LifecycleTypeOK'
    <3>1. /\ node \in NodeRows /\ job \in JobRows /\ host \in Hosts /\ script \in Scripts
          /\ draft \in Site /\ live \in Site /\ issued \in 0..MaxTokens
      BY TypeOfRows DEF Typed
    <3>2. host' \in Hosts
      BY <3>1, HostUpdates, NewHosts, EmptyRows DEF HostStates
    <3>3. script' \in Scripts
      BY <3>1, EmptyRows DEF Scripts
    <3>4. /\ draft' \in Site /\ live' \in Site /\ banned' \in BOOLEAN /\ task' \in BOOLEAN
          /\ otherUp' \in BOOLEAN /\ issued' \in 0..MaxTokens /\ invite' \in {"none", "fresh", "used"}
          /\ request' \in {"none", "enroll", "renew", "heartbeat"}
          /\ edits' \in 0..MaxEdits /\ mishaps' \in 0..MaxMishaps
      BY <3>1, BoundsType, LifecycleAssumption DEF LifecycleTypeOK
    <3> QED BY <3>1, <3>2, <3>3, <3>4 DEF LifecycleTypeOK, NodeRows, NodeStatuses, JobRows,
      JobStatuses, Hosts, HostStates, Scripts
  <2>2. JobMatchesNode' /\ JobExcludesSites' /\ JobExcludesUpgrade'
    BY SMTT(30) DEF LifecycleTypeOK, JobMatchesNode, JobExcludesSites, JobExcludesUpgrade, Needed,
           NoJob, Blocks, Retired
  <2>3. ScriptMayClean' /\ WayBack' /\ RevocationSticks'
    BY DEF LifecycleTypeOK, JobMatchesNode, ScriptMayClean, WayBack, RevocationSticks, NoJob, NoScript,
           Blocks, Retired
  <2> QED BY <2>1, <2>2, <2>3
<1>4. CASE CleanHost
  <2> USE <1>4 DEF CleanHost
  <2>1. LifecycleTypeOK'
    <3>1. /\ node \in NodeRows /\ job \in JobRows /\ host \in Hosts /\ script \in Scripts
          /\ draft \in Site /\ live \in Site /\ issued \in 0..MaxTokens
      BY TypeOfRows DEF Typed
    <3>2. host' \in Hosts
      BY <3>1, HostUpdates, NewHosts, EmptyRows DEF HostStates
    <3>3. script' \in Scripts
      BY <3>1, EmptyRows DEF Scripts
    <3>4. /\ draft' \in Site /\ live' \in Site /\ banned' \in BOOLEAN /\ task' \in BOOLEAN
          /\ otherUp' \in BOOLEAN /\ issued' \in 0..MaxTokens /\ invite' \in {"none", "fresh", "used"}
          /\ request' \in {"none", "enroll", "renew", "heartbeat"}
          /\ edits' \in 0..MaxEdits /\ mishaps' \in 0..MaxMishaps
      BY <3>1, BoundsType, LifecycleAssumption DEF LifecycleTypeOK
    <3> QED BY <3>1, <3>2, <3>3, <3>4 DEF LifecycleTypeOK, NodeRows, NodeStatuses, JobRows,
      JobStatuses, Hosts, HostStates, Scripts
  <2>2. JobMatchesNode' /\ JobExcludesSites' /\ JobExcludesUpgrade'
    BY SMTT(30) DEF LifecycleTypeOK, JobMatchesNode, JobExcludesSites, JobExcludesUpgrade, Needed,
           NoJob, Blocks, Retired
  <2>3. ScriptMayClean' /\ WayBack' /\ RevocationSticks'
    BY DEF LifecycleTypeOK, JobMatchesNode, ScriptMayClean, WayBack, RevocationSticks, NoJob, NoScript,
           Blocks, Retired
  <2> QED BY <2>1, <2>2, <2>3
<1>5. CASE ScriptFails
  <2> USE <1>5 DEF ScriptFails, Uncommitted, Off
  <2>1. LifecycleTypeOK'
    <3>1. /\ node \in NodeRows /\ job \in JobRows /\ host \in Hosts /\ script \in Scripts
          /\ draft \in Site /\ live \in Site /\ issued \in 0..MaxTokens
      BY TypeOfRows DEF Typed
    <3>2. host' \in Hosts
      BY <3>1, HostUpdates, NewHosts, EmptyRows DEF HostStates
    <3>3. script' \in Scripts
      BY <3>1, EmptyRows DEF Scripts
    <3>4. /\ draft' \in Site /\ live' \in Site /\ banned' \in BOOLEAN /\ task' \in BOOLEAN
          /\ otherUp' \in BOOLEAN /\ issued' \in 0..MaxTokens /\ invite' \in {"none", "fresh", "used"}
          /\ request' \in {"none", "enroll", "renew", "heartbeat"}
          /\ edits' \in 0..MaxEdits /\ mishaps' \in 0..MaxMishaps
      BY <3>1, BoundsType, LifecycleAssumption DEF LifecycleTypeOK
    <3> QED BY <3>1, <3>2, <3>3, <3>4 DEF LifecycleTypeOK, NodeRows, NodeStatuses, JobRows,
      JobStatuses, Hosts, HostStates, Scripts
  <2>2. JobMatchesNode' /\ JobExcludesSites' /\ JobExcludesUpgrade'
    BY SMTT(30) DEF LifecycleTypeOK, JobMatchesNode, JobExcludesSites, JobExcludesUpgrade, Needed,
           NoJob, Blocks, Retired
  <2>3. ScriptMayClean' /\ WayBack' /\ RevocationSticks'
    BY DEF LifecycleTypeOK, JobMatchesNode, ScriptMayClean, WayBack, RevocationSticks, NoJob, NoScript,
           Blocks, Retired
  <2> QED BY <2>1, <2>2, <2>3
<1>6. CASE CallFail
  <2> USE <1>6 DEF CallFail, HandleFail, Valid, Off
  <2>1. LifecycleTypeOK'
    <3>1. /\ node \in NodeRows /\ job \in JobRows /\ host \in Hosts /\ script \in Scripts
          /\ draft \in Site /\ live \in Site /\ issued \in 0..MaxTokens
      BY TypeOfRows DEF Typed
    <3>2. node' \in NodeRows
      <4>1. \/ node' = node
            \/ node' = [node EXCEPT !.status = job.previous] /\ job.status \in {"running", "failed"}
        OBVIOUS
      <4>2. job.status \in {"running", "failed"} => job.previous \in {"draining", "revoked"}
        BY <3>1 DEF JobRows, WayBack, Blocks
      <4>3. CASE node' = node
        BY <3>1, <4>3
      <4>4. CASE node' = [node EXCEPT !.status = job.previous] /\ job.status \in {"running", "failed"}
        <5>1. job.previous \in NodeStatuses
          BY <4>2, <4>4 DEF NodeStatuses, Retired
        <5>2. [node EXCEPT !.status = job.previous] \in NodeRows
          BY <3>1, <5>1, NodeUpdates, ZenonT(30)
        <5> QED BY <4>4, <5>2
      <4> QED BY <4>1, <4>3, <4>4
    <3>3. job' \in JobRows
      <4>1. job' = job \/ job' = [job EXCEPT !.status = "failed"]
        OBVIOUS
      <4>2. "failed" \in JobStatuses
        BY DEF JobStatuses
      <4> QED BY <3>1, <4>1, <4>2, JobUpdates, ZenonT(30)
    <3>4. script' \in Scripts
      BY <3>1, EmptyRows DEF Scripts
    <3>5. /\ draft' \in Site /\ live' \in Site /\ banned' \in BOOLEAN /\ task' \in BOOLEAN
          /\ otherUp' \in BOOLEAN /\ issued' \in 0..MaxTokens /\ invite' \in {"none", "fresh", "used"}
          /\ request' \in {"none", "enroll", "renew", "heartbeat"}
          /\ edits' \in 0..MaxEdits /\ mishaps' \in 0..MaxMishaps
      BY <3>1, BoundsType, LifecycleAssumption DEF LifecycleTypeOK
    <3> QED BY <3>1, <3>2, <3>3, <3>4, <3>5 DEF LifecycleTypeOK, NodeRows, NodeStatuses, JobRows,
      JobStatuses, Hosts, HostStates, Scripts
  <2>2. JobMatchesNode' /\ JobExcludesSites' /\ JobExcludesUpgrade'
    BY SMTT(30) DEF LifecycleTypeOK, JobMatchesNode, JobExcludesSites, JobExcludesUpgrade, Needed,
           NoJob, Blocks, Retired
  <2>3. ScriptMayClean' /\ WayBack' /\ RevocationSticks'
    BY DEF LifecycleTypeOK, JobMatchesNode, ScriptMayClean, WayBack, RevocationSticks, NoJob, NoScript,
           Blocks, Retired
  <2> QED BY <2>1, <2>2, <2>3
<1>7. CASE CallComplete
  <2> USE <1>7 DEF CallComplete, HandleComplete, Valid, Uninstalled, Off
  <2>1. LifecycleTypeOK'
    <3>1. /\ node \in NodeRows /\ job \in JobRows /\ host \in Hosts /\ script \in Scripts
          /\ draft \in Site /\ live \in Site /\ issued \in 0..MaxTokens
      BY TypeOfRows DEF Typed
    <3>2. node' \in NodeRows
      <4>1. node' = node \/ node' = [node EXCEPT !.status = "uninstalled", !.cert = 0]
        OBVIOUS
      <4>2. "uninstalled" \in NodeStatuses
        BY DEF NodeStatuses, Retired
      <4>3. [node EXCEPT !.status = "uninstalled", !.cert = 0] \in NodeRows
        BY <3>1, <4>2, EmptyRows, NodeUpdates, Zenon
      <4> QED BY <3>1, <4>1, <4>3
    <3>3. job' \in JobRows
      <4>1. job' = job \/ job' = [job EXCEPT !.status = "succeeded"]
        OBVIOUS
      <4>2. "succeeded" \in JobStatuses
        BY DEF JobStatuses
      <4>3. [job EXCEPT !.status = "succeeded"] \in JobRows
        BY <3>1, <4>2, JobUpdates, ZenonT(30)
      <4> QED BY <3>1, <4>1, <4>3
    <3>4. script' \in Scripts
      BY <3>1, EmptyRows DEF Scripts
    <3>5. /\ draft' \in Site /\ live' \in Site /\ banned' \in BOOLEAN /\ task' \in BOOLEAN
          /\ otherUp' \in BOOLEAN /\ issued' \in 0..MaxTokens /\ invite' \in {"none", "fresh", "used"}
          /\ request' \in {"none", "enroll", "renew", "heartbeat"}
          /\ edits' \in 0..MaxEdits /\ mishaps' \in 0..MaxMishaps
      BY <3>1, BoundsType, LifecycleAssumption DEF LifecycleTypeOK
    <3> QED BY <3>1, <3>2, <3>3, <3>4, <3>5 DEF LifecycleTypeOK, NodeRows, NodeStatuses, JobRows,
      JobStatuses, Hosts, HostStates, Scripts
  <2>2. JobMatchesNode' /\ JobExcludesSites' /\ JobExcludesUpgrade'
    BY ZenonT(30) DEF LifecycleTypeOK, JobMatchesNode, JobExcludesSites, JobExcludesUpgrade, Needed,
           NoJob, Blocks, Retired
  <2>3. ScriptMayClean' /\ WayBack' /\ RevocationSticks'
    BY DEF LifecycleTypeOK, JobMatchesNode, ScriptMayClean, WayBack, RevocationSticks, NoJob, NoScript,
           Blocks, Retired
  <2> QED BY <2>1, <2>2, <2>3
<1>8. CASE KillScript
  <2> USE <1>8 DEF KillScript, Off
  <2>1. LifecycleTypeOK'
    <3>1. /\ node \in NodeRows /\ job \in JobRows /\ host \in Hosts /\ script \in Scripts
          /\ draft \in Site /\ live \in Site /\ issued \in 0..MaxTokens
      BY TypeOfRows DEF Typed
    <3>2. script' \in Scripts
      BY <3>1, EmptyRows DEF Scripts
    <3>3. /\ draft' \in Site /\ live' \in Site /\ banned' \in BOOLEAN /\ task' \in BOOLEAN
          /\ otherUp' \in BOOLEAN /\ issued' \in 0..MaxTokens /\ invite' \in {"none", "fresh", "used"}
          /\ request' \in {"none", "enroll", "renew", "heartbeat"}
          /\ edits' \in 0..MaxEdits /\ mishaps' \in 0..MaxMishaps
      BY <3>1, BoundsType, LifecycleAssumption DEF LifecycleTypeOK
    <3> QED BY <3>1, <3>2, <3>3 DEF LifecycleTypeOK, NodeRows, NodeStatuses, JobRows,
      JobStatuses, Hosts, HostStates, Scripts
  <2>2. JobMatchesNode' /\ JobExcludesSites' /\ JobExcludesUpgrade'
    BY SMTT(30) DEF LifecycleTypeOK, JobMatchesNode, JobExcludesSites, JobExcludesUpgrade, Needed,
           NoJob, Blocks, Retired
  <2>3. ScriptMayClean' /\ WayBack' /\ RevocationSticks'
    BY DEF LifecycleTypeOK, JobMatchesNode, ScriptMayClean, WayBack, RevocationSticks, NoJob, NoScript,
           Blocks, Retired
  <2> QED BY <2>1, <2>2, <2>3
<1> QED BY <1>1, <1>2, <1>3, <1>4, <1>5, <1>6, <1>7, <1>8

LEMMA LifecycleStepKeeps == LifecycleInv /\ [LifecycleNext]_lifecycleVars => LifecycleInv'
<1> SUFFICES ASSUME LifecycleInv, [LifecycleNext]_lifecycleVars PROVE LifecycleInv'
  OBVIOUS
<1>1. CASE UNCHANGED lifecycleVars
  BY <1>1 DEF lifecycleVars, LifecycleInv, LifecycleTypeOK, JobMatchesNode, JobExcludesSites,
              JobExcludesUpgrade, ScriptMayClean, WayBack, RevocationSticks, Needed, Blocks, Retired
<1>2. CASE LifecycleNext
  BY <1>2, IdentityKeeps, StatusKeeps, SitesKeep, JobsKeep, ScriptKeeps DEF LifecycleNext, ScriptStep
<1> QED BY <1>1, <1>2

LEMMA LifecycleInvariant == LifecycleSpec => []LifecycleInv
<1>1. LifecycleInit => LifecycleInv
  BY LifecycleStarts
<1>2. LifecycleInv /\ [LifecycleNext]_lifecycleVars => LifecycleInv'
  BY LifecycleStepKeeps
<1> QED BY <1>1, <1>2, PTL DEF LifecycleSpec

-------------------------------------------------------------------------------
(* The theorems *)

\* A node is uninstalled only when no draft, no publication and no upgrade needs
\* it, and a cleaned host is not taken for a working edge: for any number of
\* commands, lost or repeated calls and kills (store/uninstall.go,
\* uninstall-edge.sh).
THEOREM UninstallOnlyWhenUnneeded == LifecycleSpec => []LeavesUnneeded
<1>1. LifecycleInv => LeavesUnneeded
  BY DEF LifecycleInv, LeavesUnneeded, JobMatchesNode, JobExcludesSites, JobExcludesUpgrade,
         ScriptMayClean, Needed
<1> QED BY <1>1, LifecycleInvariant, PTL

\* A revoked node stays out until it is taken back, whatever was under way
\* (setNodeStatus, SetNodeCertificate, requireEdge).
THEOREM RevokedStaysOut == LifecycleSpec => []RevocationSticks
<1>1. LifecycleInv => RevocationSticks
  BY DEF LifecycleInv
<1> QED BY <1>1, LifecycleInvariant, PTL
===============================================================================
