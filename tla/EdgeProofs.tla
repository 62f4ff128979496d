------------------------------ MODULE EdgeProofs -------------------------------
(***************************************************************************)
(* Theorems about the edges, for every value of the constants: the apply   *)
(* transaction and the circuits of EdgeNginx, the tunnels, and the bans of  *)
(* SecurityBans.                                                           *)
(***************************************************************************)
EXTENDS EdgeNginx, WireGuardTunnels, SecurityBans, TLAPS, SequenceTheorems
LOCAL INSTANCE WellFoundedInduction

-------------------------------------------------------------------------------
(* Circuits *)

LEMMA StreakType ==
    /\ 0 \in 0..StreakLimit
    /\ \A n \in 0..StreakLimit : Longer(n) \in 0..StreakLimit
BY ConstantsAssumption DEF Longer

LEMMA NewRuntimeType == NewRuntime \in Runtime
BY StreakType DEF NewRuntime, Runtime, Streaks, Layers

LEMMA SucceededType ==
    ASSUME NEW r \in Runtime, NEW layer \in Layers
    PROVE  Succeeded(r, layer) \in Runtime
<1> DEFINE counted == [r EXCEPT !.successes[layer] = Longer(@), !.failures[layer] = 0]
           circuit == IF counted.circuit = "open" /\ Recovered(counted, 1)
                      THEN "recovering" ELSE counted.circuit
           last == IF circuit = "recovering" /\ Recovered(counted, RecoveryThreshold)
                   THEN "closed" ELSE circuit
<1>1. counted \in Runtime
  BY StreakType DEF Runtime, Streaks
<1> HIDE DEF counted
<1>2. last \in {"closed", "open", "recovering"}
  BY <1>1 DEF Runtime
<1> HIDE DEF last
<1>3. [counted EXCEPT !.circuit = last] \in Runtime
  BY <1>1, <1>2 DEF Runtime
<1> QED BY <1>3 DEF Succeeded, counted, last

LEMMA FailedType ==
    ASSUME NEW r \in Runtime, NEW layer \in Layers
    PROVE  Failed(r, layer) \in Runtime
<1> DEFINE counted == [r EXCEPT !.failures[layer] = Longer(@), !.successes[layer] = 0]
<1>1. counted \in Runtime
  BY StreakType DEF Runtime, Streaks
<1> HIDE DEF counted
<1>2. [counted EXCEPT !.circuit = "open", !.successes = [l \in Layers |-> 0]] \in Runtime
  BY <1>1, StreakType DEF Runtime, Streaks
<1> QED BY <1>1, <1>2 DEF Failed, counted

\* A map of runtimes has the pools of some set, and a result replaces one.
LEMMA RuntimesType ==
    ASSUME NEW rs \in Runtimes
    PROVE  /\ DOMAIN rs \subseteq Pools
           /\ \A p \in DOMAIN rs : rs[p] \in Runtime
           /\ \A p \in DOMAIN rs, r \in Runtime : [rs EXCEPT ![p] = r] \in Runtimes
<1>1. PICK used \in SUBSET Pools : rs \in [used -> Runtime]
  BY DEF Runtimes
<1>2. \A p \in DOMAIN rs, r \in Runtime : [rs EXCEPT ![p] = r] \in [used -> Runtime]
  BY <1>1
<1> QED BY <1>1, <1>2 DEF Runtimes

LEMMA NothingType ==
    /\ NoRuntimes \in Runtimes /\ NoFiles \in Files /\ NoWork \in Work
<1>1. NoRuntimes \in [{} -> Runtime]
  BY DEF NoRuntimes
<1>2. NoRuntimes \in Runtimes
  BY <1>1 DEF Runtimes
<1>3. NoFiles \in Files
  BY ConstantsAssumption DEF NoFiles, Files, Versions
<1>4. NoWork \in Work
  BY <1>2, <1>3, ConstantsAssumption DEF NoWork, Work, Versions
<1> QED BY <1>2, <1>3, <1>4

LEMMA PendingType ==
    ASSUME runtimes \in Runtimes, NEW v \in Versions
    PROVE  Pending(v) \in Runtimes
<1>1. Uses[v] \subseteq Pools
  BY ConstantsAssumption
<1>2. \A p \in Uses[v] : (IF p \in DOMAIN runtimes THEN runtimes[p] ELSE NewRuntime) \in Runtime
  BY RuntimesType, NewRuntimeType
<1>3. Pending(v) \in [Uses[v] -> Runtime]
  BY <1>2 DEF Pending
<1> QED BY <1>1, <1>3 DEF Runtimes

\* A change of the certificates, the configuration or the include files.
LEMMA FilesType ==
    ASSUME NEW f \in Files
    PROVE  /\ \A v \in Versions : /\ [f EXCEPT !.certificates = v] \in Files
                                  /\ [f EXCEPT !.config = v] \in Files
           /\ \A ps \in [Pools -> {"absent", "up", "down"}] : [f EXCEPT !.pools = ps] \in Files
BY DEF Files

LEMMA FaultType ==
    ASSUME TypeOK, Fault
    PROVE  faults' \in [kill : 0..MaxKills, failure : 0..MaxFailures]
<1>1. faults \in [kill : 0..MaxKills, failure : 0..MaxFailures]
  BY DEF TypeOK
<1>2. faults.failure + 1 \in 0..MaxFailures
  BY <1>1, ConstantsAssumption DEF Fault
<1> QED BY <1>1, <1>2 DEF Fault

LEMMA ReloadType ==
    ASSUME TypeOK, Adopted \/ NotAdopted, UNCHANGED disk
    PROVE  loaded' \in Files /\ faults' \in [kill : 0..MaxKills, failure : 0..MaxFailures]
BY FaultType DEF TypeOK, Adopted, NotAdopted

-------------------------------------------------------------------------------
(* Type correctness *)

LEMMA TypeInit == Init => TypeOK
<1> SUFFICES ASSUME Init PROVE TypeOK
  OBVIOUS
<1>1. 0 \in Versions /\ faults \in [kill : 0..MaxKills, failure : 0..MaxFailures]
  BY ConstantsAssumption DEF Init, Versions
<1> QED BY <1>1, NothingType DEF Init, TypeOK

\* The environment and the process.
LEMMA TypeOutside ==
    ASSUME TypeOK, OfferVersion \/ OriginChanges \/ Kill \/ Start
    PROVE  TypeOK'
<1>1. CASE OfferVersion
  <2>1. desired' \in Versions
    <3>1. desired \in 0..MaxVersion /\ MaxVersion \in Nat
      BY ConstantsAssumption DEF TypeOK, Versions
    <3> QED BY <1>1, <3>1 DEF OfferVersion, Versions
  <2> QED BY <1>1, <2>1 DEF OfferVersion, TypeOK, disk, section
<1>2. CASE OriginChanges
  BY <1>2 DEF OriginChanges, TypeOK, disk, section
<1>3. CASE Kill
  <2>1. faults' \in [kill : 0..MaxKills, failure : 0..MaxFailures]
    <3>1. faults \in [kill : 0..MaxKills, failure : 0..MaxFailures]
      BY DEF TypeOK
    <3>2. faults.kill + 1 \in 0..MaxKills
      BY <1>3, <3>1, ConstantsAssumption DEF Kill
    <3> QED BY <1>3, <3>1, <3>2 DEF Kill
  <2> QED BY <1>3, <2>1, NothingType DEF Kill, TypeOK, disk, Whole
<1>4. CASE Start
  BY <1>4 DEF Start, TypeOK, disk
<1> QED BY <1>1, <1>2, <1>3, <1>4

LEMMA TypeApply ==
    ASSUME TypeOK, BeginApply \/ Apply \/ ApplyFails
    PROVE  TypeOK'
<1>1. CASE BeginApply
  <2>1. work' \in Work
    BY <1>1, PendingType, ConstantsAssumption DEF BeginApply, TypeOK, Work
  <2> QED BY <1>1, <2>1 DEF BeginApply, TypeOK, disk
<1>2. work.version \in Versions /\ work.pending \in Runtimes
  BY DEF TypeOK, Work
<1>3. CASE StageCertificates
  BY <1>2, <1>3, FilesType DEF StageCertificates, TypeOK
<1>4. CASE WriteConfig
  BY <1>2, <1>4, FilesType DEF WriteConfig, TypeOK
<1>5. CASE StageOriginPools
  <2>1. files' \in Files
    <3> DEFINE ps == [p \in Pools |-> IF p \in Uses[work.version]
                                      THEN Directive(work.pending[p].circuit) ELSE files.pools[p]]
    <3>1. ps \in [Pools -> {"absent", "up", "down"}]
      BY DEF Directive, TypeOK, Files
    <3> HIDE DEF ps
    <3>2. files' = [files EXCEPT !.pools = ps]
      BY <1>5 DEF StageOriginPools, ps
    <3> QED BY <3>1, <3>2, FilesType DEF TypeOK
  <2> QED BY <1>5, <2>1 DEF StageOriginPools, TypeOK
<1>6. CASE Reload
  <2>1. loaded' \in Files /\ faults' \in [kill : 0..MaxKills, failure : 0..MaxFailures]
    BY <1>6, ReloadType DEF Reload
  <2>2. [work EXCEPT !.live = TRUE] \in Work
    BY DEF TypeOK, Work
  <2> QED BY <1>6, <2>1, <2>2 DEF Reload, TypeOK, disk
<1>7. CASE Listening
  BY <1>7 DEF Listening, TypeOK, disk
<1>8. CASE PersistPools
  BY <1>2, <1>8 DEF PersistPools, TypeOK
<1>9. CASE WriteAppliedVersion
  BY <1>2, <1>9 DEF WriteAppliedVersion, TypeOK
<1>10. CASE Commit
  <2>1. files' \in Files
    <3> DEFINE ps == [p \in Pools |-> IF p \in DOMAIN runtimes \ Uses[work.version]
                                      THEN "absent" ELSE files.pools[p]]
    <3>1. ps \in [Pools -> {"absent", "up", "down"}]
      BY DEF TypeOK, Files
    <3> HIDE DEF ps
    <3>2. files' = [files EXCEPT !.pools = ps]
      BY <1>10 DEF Commit, ps
    <3> QED BY <3>1, <3>2, FilesType DEF TypeOK
  <2> QED BY <1>2, <1>10, <2>1, NothingType DEF Commit, TypeOK
<1>11. CASE ApplyFails
  <2>1. faults' \in [kill : 0..MaxKills, failure : 0..MaxFailures]
    BY <1>11, FaultType DEF ApplyFails
  <2> DEFINE loadedNew == pc \in {"listen", "persist", "version"}
  <2>2. work' = [work EXCEPT !.live = loadedNew]
    BY <1>11 DEF ApplyFails
  <2>3. loadedNew \in BOOLEAN
    OBVIOUS
  <2> HIDE DEF loadedNew
  <2>4. work' \in Work
    BY <2>2, <2>3 DEF TypeOK, Work
  <2> QED BY <1>11, <2>1, <2>4 DEF ApplyFails, TypeOK, disk
<1> QED BY <1>1, <1>3, <1>4, <1>5, <1>6, <1>7, <1>8, <1>9, <1>10, <1>11 DEF Apply

LEMMA TypeUndo ==
    ASSUME TypeOK, Undo \/ UndoFails
    PROVE  TypeOK'
<1>1. /\ work.files \in Files /\ work.circuits \in Runtimes
      /\ work.files.certificates \in Versions /\ work.files.config \in Versions
      /\ work.files.pools \in [Pools -> {"absent", "up", "down"}]
  BY DEF TypeOK, Work, Files
<1>2. CASE UndoCertificates
  BY <1>1, <1>2, FilesType DEF UndoCertificates, TypeOK
<1>3. CASE UndoPools
  BY <1>1, <1>3, FilesType DEF UndoPools, TypeOK, AfterPools
<1>4. CASE UndoConfig
  BY <1>1, <1>4, FilesType DEF UndoConfig, TypeOK, AfterConfig
<1>5. CASE UndoReload
  <2>1. loaded' \in Files /\ faults' \in [kill : 0..MaxKills, failure : 0..MaxFailures]
    BY <1>5, ReloadType DEF UndoReload
  <2>2. torn' \in BOOLEAN
    BY <1>5 DEF UndoReload, TypeOK
  <2> QED BY <1>5, <2>1, <2>2 DEF UndoReload, TypeOK, disk
<1>6. CASE UndoCircuits
  BY <1>6, NothingType DEF UndoCircuits, TypeOK
<1>7. CASE Fail
  BY <1>7, NothingType DEF Fail, TypeOK, disk
<1>8. CASE UndoFails
  <2>1. faults' \in [kill : 0..MaxKills, failure : 0..MaxFailures]
    BY <1>8, FaultType DEF UndoFails
  <2> QED BY <1>8, <2>1, NothingType DEF UndoFails, TypeOK, disk, AfterPools, AfterConfig
<1> QED BY <1>2, <1>3, <1>4, <1>5, <1>6, <1>7, <1>8 DEF Undo

LEMMA TypeProbe ==
    ASSUME TypeOK, NEW p \in Pools, NEW layer \in Layers, Probe(p, layer)
    PROVE  TypeOK'
<1> DEFINE next == IF <<p, layer>> \in failing THEN Failed(runtimes[p], layer)
                                               ELSE Succeeded(runtimes[p], layer)
           pending == [runtimes EXCEPT ![p] = next]
<1>1. p \in DOMAIN runtimes /\ runtimes \in Runtimes
  BY DEF Probe, TypeOK
<1>2. next \in Runtime
  BY <1>1, RuntimesType, SucceededType, FailedType
<1> HIDE DEF next
<1>3. pending \in Runtimes
  BY <1>1, <1>2, RuntimesType
<1> HIDE DEF pending
<1>4. [NoWork EXCEPT !.pool = p, !.files = files, !.pending = pending] \in Work
  BY <1>3, NothingType DEF TypeOK, Work
<1>5. /\ circuits' \in {circuits, pending} /\ runtimes' \in {runtimes, pending}
      /\ pc' \in {"switch", "idle"}
      /\ work' \in {[NoWork EXCEPT !.pool = p, !.files = files, !.pending = pending], work}
      /\ UNCHANGED <<desired, failing, files, applied, loaded, torn, faults>>
  BY DEF Probe, next, pending
<1> QED BY <1>3, <1>4, <1>5 DEF TypeOK

LEMMA TypeSwitch ==
    ASSUME TypeOK, Switch \/ SwitchFails \/ SwitchReload
    PROVE  TypeOK'
<1>1. CASE Switch
  <2> DEFINE ps == [files.pools EXCEPT ![work.pool] = Directive(work.pending[work.pool].circuit)]
  <2>1. ps \in [Pools -> {"absent", "up", "down"}]
    BY DEF Directive, TypeOK, Files
  <2> HIDE DEF ps
  <2>2. files' = [files EXCEPT !.pools = ps]
    BY <1>1 DEF Switch, ps
  <2>3. files' \in Files
    BY <2>1, <2>2, FilesType DEF TypeOK
  <2> QED BY <1>1, <2>3 DEF Switch, TypeOK
<1>2. CASE SwitchFails
  <2>1. faults' \in [kill : 0..MaxKills, failure : 0..MaxFailures]
    BY <1>2, FaultType DEF SwitchFails
  <2> QED BY <1>2, <2>1 DEF SwitchFails, TypeOK, disk
<1>3. CASE SwitchReload
  <2>1. loaded' \in Files /\ faults' \in [kill : 0..MaxKills, failure : 0..MaxFailures]
    BY <1>3, ReloadType DEF SwitchReload
  <2>2. work.pending \in Runtimes
    BY DEF TypeOK, Work
  <2> QED BY <1>3, <2>1, <2>2, NothingType DEF SwitchReload, TypeOK, disk
<1> QED BY <1>1, <1>2, <1>3

LEMMA TypeNext ==
    ASSUME TypeOK, [Next]_vars
    PROVE  TypeOK'
<1>1. CASE Next
  BY <1>1, TypeOutside, TypeApply, TypeUndo, TypeProbe, TypeSwitch DEF Next
<1>2. CASE UNCHANGED vars
  BY <1>2 DEF vars, disk, section, TypeOK
<1> QED BY <1>1, <1>2

\* Every reachable state has the declared types; in particular no streak of
\* probe results passes the limit (incrementProbeStreak), and the runtimes are of
\* known pools.
THEOREM TypeCorrect == Spec => []TypeOK
<1>1. TypeOK /\ [Next]_vars => TypeOK'
  BY TypeNext
<1> QED BY TypeInit, <1>1, PTL DEF Spec

-------------------------------------------------------------------------------
(* nginx never falls behind the applied version *)

\* What a failed application restores is not older than the applied version, and
\* the version is written only when all of its files are there and loaded.  After
\* that there is no way back: only "commit" may hold a backup of older files.
NotBehind(f) == f.certificates >= applied /\ f.config >= applied
Of(f, version) == f.certificates = version /\ f.config = version

CertificatesStaged == {"config", "pools", "reload", "listen", "persist", "version"}
ConfigWritten == CertificatesStaged \ {"config"}
Reloaded == {"listen", "persist", "version"}
Restorable == {"certificates", "undo certificates", "undo pools", "undo config",
               "switch", "switch reload"} \cup CertificatesStaged

StageInv ==
    /\ NotBehind(files) /\ NotBehind(loaded)
    /\ pc \in Restorable => NotBehind(work.files)
    /\ pc \in {"certificates"} \cup CertificatesStaged => work.version > applied
    /\ pc \in CertificatesStaged => files.certificates = work.version
    /\ pc \in ConfigWritten => files.config = work.version
    /\ pc \in Reloaded => Of(loaded, work.version)

\* The versions that StageInv compares are numbers.
LEMMA VersionNumbers ==
    ASSUME TypeOK
    PROVE  /\ applied \in Nat /\ desired \in Nat /\ work.version \in Nat
           /\ files \in Files /\ loaded \in Files
           /\ \A f \in {files, loaded, work.files} : f.certificates \in Nat /\ f.config \in Nat
<1>1. Versions \subseteq Nat
  BY ConstantsAssumption DEF Versions
<1> QED BY <1>1 DEF TypeOK, Work, Files

\* The steps of an application.
LEMMA StageApply ==
    ASSUME TypeOK, StageInv, BeginApply \/ Apply \/ ApplyFails
    PROVE  StageInv'
<1> USE VersionNumbers DEF NotBehind, Of, CertificatesStaged, ConfigWritten, Reloaded, Restorable
<1>1. CASE BeginApply
  BY <1>1 DEF BeginApply, StageInv, disk
<1>2. CASE StageCertificates
  <2>1. files'.certificates = work.version /\ files'.config = files.config
    BY <1>2 DEF StageCertificates, Files
  <2> QED BY <1>2, <2>1 DEF StageCertificates, StageInv
<1>3. CASE WriteConfig
  <2>1. files'.config = work.version /\ files'.certificates = files.certificates
    BY <1>3 DEF WriteConfig, Files
  <2> QED BY <1>3, <2>1 DEF WriteConfig, StageInv
<1>4. CASE StageOriginPools
  <2>1. files'.config = files.config /\ files'.certificates = files.certificates
    BY <1>4 DEF StageOriginPools, Files
  <2> QED BY <1>4, <2>1 DEF StageOriginPools, StageInv
<1>5. CASE Reload
  <2>1. pc = "reload" /\ UNCHANGED <<files, applied>>
    BY <1>5 DEF Reload, disk
  <2>2. CASE Adopted /\ pc' = "listen" /\ UNCHANGED work
    BY <2>1, <2>2 DEF Adopted, StageInv
  <2>3. CASE NotAdopted /\ pc' = "undo certificates" /\ work' = [work EXCEPT !.live = TRUE]
    <3>1. work'.files = work.files
      BY <2>3 DEF TypeOK, Work
    <3>2. UNCHANGED loaded
      BY <2>3 DEF NotAdopted
    <3> QED BY <2>1, <2>3, <3>1, <3>2 DEF StageInv
  <2> QED BY <1>5, <2>2, <2>3 DEF Reload
<1>6. CASE Listening
  BY <1>6 DEF Listening, StageInv, disk
<1>7. CASE PersistPools
  BY <1>7 DEF PersistPools, StageInv
<1>8. CASE WriteAppliedVersion
  BY <1>8 DEF WriteAppliedVersion, StageInv
<1>9. CASE Commit
  <2>1. files'.config = files.config /\ files'.certificates = files.certificates
    BY <1>9 DEF Commit, Files
  <2> QED BY <1>9, <2>1 DEF Commit, StageInv
<1>10. CASE ApplyFails
  <2>1. work'.files = work.files
    BY <1>10 DEF ApplyFails, TypeOK, Work
  <2>2. /\ pc \in Restorable /\ pc' = "undo certificates"
        /\ UNCHANGED <<files, applied, loaded>>
    BY <1>10 DEF ApplyFails, disk
  <2> QED BY <2>1, <2>2 DEF StageInv
<1> QED BY <1>1, <1>2, <1>3, <1>4, <1>5, <1>6, <1>7, <1>8, <1>9, <1>10 DEF Apply

\* The steps of a rollback.
LEMMA StageUndo ==
    ASSUME TypeOK, StageInv, Undo \/ UndoFails
    PROVE  StageInv'
<1> USE VersionNumbers DEF NotBehind, Of, CertificatesStaged, ConfigWritten, Reloaded, Restorable
<1>1. CASE UndoCertificates
  <2>1. files'.certificates = work.files.certificates /\ files'.config = files.config
    BY <1>1 DEF UndoCertificates, Files
  <2> QED BY <1>1, <2>1 DEF UndoCertificates, StageInv
<1>2. CASE UndoPools
  <2>1. files'.certificates = files.certificates /\ files'.config = files.config
    BY <1>2 DEF UndoPools, Files
  <2> QED BY <1>2, <2>1 DEF UndoPools, StageInv, AfterPools
<1>3. CASE UndoConfig
  <2>1. files'.config = work.files.config /\ files'.certificates = files.certificates
    BY <1>3 DEF UndoConfig, Files
  <2> QED BY <1>3, <2>1 DEF UndoConfig, StageInv, AfterConfig
<1>4. CASE UndoReload
  <2>1. loaded' \in {loaded, files} /\ UNCHANGED <<files, applied, work>>
    BY <1>4 DEF UndoReload, Adopted, NotAdopted, disk
  <2>2. pc' \in {"failed", "undo circuits"}
    BY <1>4 DEF UndoReload
  <2> QED BY <2>1, <2>2 DEF StageInv
<1>5. CASE UndoCircuits
  BY <1>5 DEF UndoCircuits, StageInv
<1>6. CASE Fail
  BY <1>6 DEF Fail, StageInv, disk
<1>7. CASE UndoFails
  <2>1. UNCHANGED <<files, applied, loaded>>
    BY <1>7 DEF UndoFails, disk
  <2>2. CASE pc = "undo certificates" \/ pc = "undo pools"
    <3>1. /\ pc' \in {"undo pools", "undo config", "undo reload"}
          /\ work' = work
      BY <1>7, <2>2 DEF UndoFails, AfterPools
    <3> QED BY <2>1, <2>2, <3>1 DEF StageInv
  <2>3. CASE pc = "undo config" \/ pc = "undo circuits"
    <3>1. pc' \in {"undo reload", "failed", "idle"}
      BY <1>7, <2>3 DEF UndoFails, AfterConfig
    <3> QED BY <2>1, <3>1 DEF StageInv
  <2> QED BY <1>7, <2>2, <2>3 DEF UndoFails
<1> QED BY <1>1, <1>2, <1>3, <1>4, <1>5, <1>6, <1>7 DEF Undo

\* A pool is switched with the files of the other pools, the certificates and
\* the configuration as they are.
LEMMA StageSwitch ==
    ASSUME TypeOK, StageInv,
           \/ \E p \in Pools, layer \in Layers : Probe(p, layer)
           \/ Switch \/ SwitchFails \/ SwitchReload
    PROVE  StageInv'
<1> USE VersionNumbers DEF NotBehind, Of, CertificatesStaged, ConfigWritten, Reloaded, Restorable
<1>1. CASE \E p \in Pools, layer \in Layers : Probe(p, layer)
  <2>1. /\ \/ pc' = "idle"
           \/ pc' = "switch" /\ work'.files = files
        /\ UNCHANGED <<files, applied, loaded>>
    <3>1. PICK p \in Pools, layer \in Layers : Probe(p, layer)
      BY <1>1
    <3>2. \A pending : [NoWork EXCEPT !.pool = p, !.files = files, !.pending = pending].files = files
      BY DEF NoWork
    <3> QED BY <3>1, <3>2 DEF Probe
  <2> QED BY <2>1 DEF StageInv
<1>2. CASE Switch
  <2>1. files'.config = files.config /\ files'.certificates = files.certificates
    BY <1>2 DEF Switch, Files
  <2> QED BY <1>2, <2>1 DEF Switch, StageInv
<1>3. CASE SwitchFails
  BY <1>3 DEF SwitchFails, StageInv, disk
<1>4. CASE SwitchReload
  <2>1. loaded' \in {loaded, files} /\ UNCHANGED <<files, applied>>
    BY <1>4 DEF SwitchReload, Adopted, NotAdopted, disk
  <2>2. /\ pc = "switch reload"
        /\ \/ pc' = "idle"
           \/ pc' = "undo pools" /\ work' = work
    BY <1>4 DEF SwitchReload
  <2> QED BY <2>1, <2>2 DEF StageInv
<1> QED BY <1>1, <1>2, <1>3, <1>4

LEMMA StageNext ==
    ASSUME TypeOK, StageInv, [Next]_vars
    PROVE  StageInv'
<1> USE DEF NotBehind, Of
<1>1. CASE OfferVersion \/ OriginChanges \/ Start
  <2>1. UNCHANGED <<files, applied, loaded, work>> /\ (pc' = pc \/ pc' = "idle")
    BY <1>1 DEF OfferVersion, OriginChanges, Start, disk, section
  <2> QED BY <2>1
      DEF StageInv, CertificatesStaged, ConfigWritten, Reloaded, Restorable
<1>2. CASE Kill
  BY <1>2 DEF Kill, StageInv, disk, CertificatesStaged, ConfigWritten, Reloaded, Restorable
<1>3. CASE UNCHANGED vars
  BY <1>3 DEF vars, disk, section, StageInv
<1> QED BY <1>1, <1>2, <1>3, StageApply, StageUndo, StageSwitch DEF Next

LEMMA StageAlways == Spec => [](TypeOK /\ StageInv)
<1>1. Init => TypeOK /\ StageInv
  BY TypeInit DEF Init, StageInv, NotBehind, Of, NoFiles, CertificatesStaged, ConfigWritten,
                  Reloaded, Restorable
<1>2. TypeOK /\ StageInv /\ [Next]_vars => (TypeOK /\ StageInv)'
  BY TypeNext, StageNext
<1> QED BY <1>1, <1>2, PTL DEF Spec

\* nginx never goes back behind the applied version, whatever fails and wherever
\* the agent is killed (applyLocked, restorePreviousConfigs, originPoolStage and
\* applyOriginProbeResult on the same files).
THEOREM NeverBehind == Spec => []LoadedNotBehind
<1>1. TypeOK /\ StageInv => LoadedNotBehind
  BY DEF StageInv, NotBehind, LoadedNotBehind
<1> QED BY <1>1, StageAlways, PTL

\* A version is recorded as applied only when it is newer and nginx has loaded its
\* certificates and its configuration (the write of applied-version in
\* applyLocked).
THEOREM VersionRecordedWhenLoaded == Spec => AppliedMeansLoaded
<1> DEFINE Recorded == applied' # applied =>
                          /\ applied' > applied
                          /\ loaded.config = applied' /\ loaded.certificates = applied'
<1>1. TypeOK /\ StageInv /\ [Next]_vars => [Recorded]_vars
  <2> SUFFICES ASSUME TypeOK, StageInv, Next, applied' # applied
               PROVE  /\ applied' > applied
                      /\ loaded.config = applied' /\ loaded.certificates = applied'
    OBVIOUS
  <2>1. WriteAppliedVersion
    BY DEF Next, OfferVersion, OriginChanges, BeginApply, Apply, StageCertificates, WriteConfig,
           StageOriginPools, Reload, Listening, PersistPools, Commit, ApplyFails, Undo,
           UndoCertificates, UndoPools, UndoConfig, UndoReload, UndoCircuits, Fail, UndoFails,
           Probe, Switch, SwitchFails, SwitchReload, Kill, Start, disk
  <2> QED BY <2>1 DEF WriteAppliedVersion, StageInv, Of, CertificatesStaged, Reloaded
<1>2. Spec => [][Recorded]_vars
  BY <1>1, StageAlways, PTL DEF Spec
<1> QED BY <1>2 DEF AppliedMeansLoaded
-------------------------------------------------------------------------------
(* The edge is in one piece when nobody is at work on it *)

\* The include files that f holds direct nginx as the circuits cs say; all of f is
\* of the applied version, whose pools cs knows; two maps of circuits that agree.
Directed(f, cs) == \A p \in DOMAIN cs : f.pools[p] = Directive(cs[p].circuit)
OnePiece(f, cs) == Of(f, applied) /\ DOMAIN cs = Uses[applied] /\ Directed(f, cs)
SameCircuits(cs, ds) == DOMAIN cs = DOMAIN ds /\ \A p \in DOMAIN ds : cs[p].circuit = ds[p].circuit
Intact(cs) == OnePiece(files, cs) /\ OnePiece(loaded, cs) /\ SameCircuits(circuits, cs)

PoolsStaged == Reloaded \cup {"reload", "commit"}
Applying == CertificatesStaged \cup {"certificates", "commit"}

\* What an application has done so far.  It holds whatever state the edge was in
\* before, so that a version that is committed mends it.
ApplyInv ==
    /\ pc \in Applying => work.pool = NoPool /\ DOMAIN work.pending = Uses[work.version]
    /\ pc \in PoolsStaged => Directed(files, work.pending)
    /\ pc \in Reloaded \cup {"commit"} => Directed(loaded, work.pending)
    /\ pc \in {"version", "commit"} => circuits = work.pending
    /\ pc = "commit" => applied = work.version /\ Of(files, applied) /\ Of(loaded, applied)

\* What a rollback restores: it was in one piece.
OldKept == OnePiece(work.files, runtimes) /\ SameCircuits(work.circuits, runtimes)

\* The edge before and during an application, and while it is taken back.
ApplyingHolds ==
    /\ pc \in {"idle", "certificates", "failed"} => Intact(runtimes)
    /\ pc = "stopped" => Intact(circuits)
    /\ pc \in Applying \ {"commit"} => OldKept
    /\ pc \in {"config", "pools", "reload"} => OnePiece(loaded, runtimes)

UndoingHolds ==
    /\ pc \in {"undo certificates", "undo config"} => work.pool = NoPool
    /\ pc \in {"undo certificates", "undo pools", "undo config"} /\ work.pool = NoPool =>
          /\ OldKept
          /\ ~work.live => OnePiece(loaded, runtimes)
    /\ pc \in {"undo pools", "undo config"} => files.certificates = applied
    /\ pc = "undo config" => Directed(files, runtimes) /\ SameCircuits(circuits, runtimes)
    /\ pc \in {"undo reload", "undo circuits"} => OnePiece(files, runtimes)
    /\ pc = "undo reload" /\ work.pool = NoPool => SameCircuits(circuits, runtimes)
    /\ pc = "undo circuits" => OnePiece(loaded, runtimes)

\* A switch of a pool: the circuits on disk are ahead of those in memory, and only
\* the include file of that pool changes.
SwitchingHolds ==
    /\ pc \in {"switch", "switch reload"} =>
          /\ work.pool \in DOMAIN runtimes
          /\ circuits = work.pending /\ DOMAIN work.pending = DOMAIN runtimes
          /\ \A p \in DOMAIN runtimes : p # work.pool => work.pending[p] = runtimes[p]
    /\ pc \in {"switch", "switch reload"} \/ (pc = "undo pools" /\ work.pool # NoPool) =>
          Of(files, applied) /\ OnePiece(work.files, runtimes) /\ OnePiece(loaded, runtimes)
    /\ pc = "switch" => files = work.files
    /\ pc = "switch reload" => Directed(files, work.pending)

PieceInv == ~torn => ApplyingHolds /\ UndoingHolds /\ SwitchingHolds

\* Circuits that agree are as good as each other.
LEMMA AgreeingCircuits ==
    ASSUME NEW f, NEW cs, NEW ds, SameCircuits(cs, ds), OnePiece(f, ds)
    PROVE  OnePiece(f, cs)
BY DEF SameCircuits, OnePiece, Directed

\* A change of one part of the files leaves the others.
LEMMA OtherFiles ==
    ASSUME NEW f \in Files
    PROVE  /\ \A v : /\ [f EXCEPT !.certificates = v].certificates = v
                     /\ [f EXCEPT !.certificates = v].config = f.config
                     /\ [f EXCEPT !.certificates = v].pools = f.pools
           /\ \A v : /\ [f EXCEPT !.config = v].config = v
                     /\ [f EXCEPT !.config = v].certificates = f.certificates
                     /\ [f EXCEPT !.config = v].pools = f.pools
           /\ \A v : /\ [f EXCEPT !.pools = v].pools = v
                     /\ [f EXCEPT !.pools = v].certificates = f.certificates
                     /\ [f EXCEPT !.pools = v].config = f.config
           /\ f.pools \in [Pools -> {"absent", "up", "down"}]
BY DEF Files

LEMMA LiveType ==
    ASSUME TypeOK, NEW b
    PROVE  LET w == [work EXCEPT !.live = b]
           IN  /\ w.live = b /\ w.pool = work.pool /\ w.files = work.files
               /\ w.circuits = work.circuits /\ w.pending = work.pending
BY DEF TypeOK, Work

\* An application goes on from what it has done.
LEMMA ApplyNext ==
    ASSUME TypeOK, StageInv, ApplyInv, [Next]_vars
    PROVE  ApplyInv'
<1> USE DEF Applying, PoolsStaged, Reloaded, CertificatesStaged
<1>1. CASE BeginApply
  <2>1. pc' = "certificates" /\ work'.pool = NoPool
        /\ work'.version = desired /\ work'.pending = Pending(desired)
    BY <1>1 DEF BeginApply
  <2>2. DOMAIN Pending(desired) = Uses[desired]
    BY DEF Pending
  <2> QED BY <2>1, <2>2 DEF ApplyInv
<1>2. CASE StageCertificates
  BY <1>2 DEF StageCertificates, ApplyInv
<1>3. CASE WriteConfig
  BY <1>3 DEF WriteConfig, ApplyInv
<1>4. CASE StageOriginPools
  <2>1. pc = "pools" /\ pc' = "reload" /\ work' = work
    BY <1>4 DEF StageOriginPools
  <2>2. /\ work.pool = NoPool /\ DOMAIN work.pending = Uses[work.version]
        /\ Uses[work.version] \subseteq Pools
    BY <2>1, ConstantsAssumption DEF ApplyInv, TypeOK, Work
  <2>3. files'.pools = [p \in Pools |-> IF p \in Uses[work.version]
                                         THEN Directive(work.pending[p].circuit) ELSE files.pools[p]]
    BY <1>4, OtherFiles DEF StageOriginPools, TypeOK
  <2>4. Directed(files', work.pending)
    BY <2>2, <2>3 DEF Directed
  <2> QED BY <2>1, <2>2, <2>4 DEF ApplyInv
<1>5. CASE Reload
  <2>1. pc = "reload" /\ UNCHANGED files /\ pc' \in {"listen", "undo certificates"}
        /\ (pc' = "listen" => loaded' = files /\ work' = work)
    BY <1>5 DEF Reload, Adopted, disk
  <2>2. Directed(files, work.pending) /\ work.pool = NoPool /\ DOMAIN work.pending = Uses[work.version]
    BY <2>1 DEF ApplyInv
  <2> QED BY <2>1, <2>2 DEF ApplyInv
<1>6. CASE Listening
  BY <1>6 DEF Listening, ApplyInv, disk
<1>7. CASE PersistPools
  BY <1>7 DEF PersistPools, ApplyInv
<1>8. CASE WriteAppliedVersion
  <2>1. pc = "version" /\ pc' = "commit" /\ applied' = work.version
        /\ UNCHANGED <<files, loaded, circuits, work>>
    BY <1>8 DEF WriteAppliedVersion
  <2>2. Of(files, work.version) /\ Of(loaded, work.version)
    BY <2>1 DEF StageInv, ConfigWritten, Of
  <2> QED BY <2>1, <2>2 DEF ApplyInv, Of
<1>9. CASE \/ Commit \/ Undo \/ UndoFails \/ ApplyFails \/ Kill \/ Start
           \/ Switch \/ SwitchFails \/ SwitchReload
  <2>1. pc' \notin Applying
    BY <1>9 DEF Commit, Undo, UndoCertificates, UndoPools, UndoConfig, UndoReload, UndoCircuits, Fail,
                UndoFails, AfterPools, AfterConfig, ApplyFails, Kill, Start,
                Switch, SwitchFails, SwitchReload
  <2> QED BY <2>1 DEF ApplyInv
<1>10. CASE \E p \in Pools, layer \in Layers : Probe(p, layer)
  <2>1. pc' \notin Applying
    BY <1>10 DEF Probe
  <2> QED BY <2>1 DEF ApplyInv
<1>11. CASE OfferVersion \/ OriginChanges \/ UNCHANGED vars
  <2>1. UNCHANGED <<pc, work, files, loaded, circuits, applied>>
    BY <1>11 DEF OfferVersion, OriginChanges, vars, disk, section
  <2> QED BY <2>1 DEF ApplyInv, Directed, Of
<1> QED BY <1>1, <1>2, <1>3, <1>4, <1>5, <1>6, <1>7, <1>8, <1>9, <1>10, <1>11 DEF Next, Apply

\* The edge stays in one piece through an application, or is put together by it.
LEMMA PieceApply ==
    ASSUME TypeOK, StageInv, ApplyInv, PieceInv, BeginApply \/ Apply \/ ApplyFails
    PROVE  PieceInv'
<1> SUFFICES ASSUME ~torn' PROVE (ApplyingHolds /\ UndoingHolds /\ SwitchingHolds)'
  BY DEF PieceInv
<1> USE DEF Applying, Reloaded, CertificatesStaged
<1>1. CASE BeginApply
  <2>1. /\ pc = "idle" /\ pc' = "certificates" /\ ~torn
        /\ work'.files = files /\ work'.circuits = circuits
        /\ UNCHANGED <<files, applied, circuits, loaded, runtimes>>
    BY <1>1 DEF BeginApply, disk
  <2>2. Intact(runtimes)
    BY <2>1 DEF PieceInv, ApplyingHolds
  <2>3. OldKept' /\ Intact(runtimes)'
    BY <2>1, <2>2 DEF Intact, OldKept, OnePiece, Of
  <2> QED BY <2>1, <2>3 DEF ApplyingHolds, UndoingHolds, SwitchingHolds
<1>2. CASE StageCertificates \/ WriteConfig \/ StageOriginPools
  <2>1. /\ pc \in {"certificates", "config", "pools"} /\ pc' \in {"config", "pools", "reload"} /\ ~torn
        /\ UNCHANGED <<applied, loaded, runtimes, work>>
    BY <1>2 DEF StageCertificates, WriteConfig, StageOriginPools
  <2>2. OldKept /\ OnePiece(loaded, runtimes)
    BY <2>1 DEF PieceInv, ApplyingHolds, Intact
  <2>3. OldKept' /\ OnePiece(loaded, runtimes)'
    BY <2>1, <2>2 DEF OldKept, OnePiece, Of
  <2> QED BY <2>1, <2>3 DEF ApplyingHolds, UndoingHolds, SwitchingHolds
<1>3. CASE Reload
  <2>1. /\ pc = "reload" /\ ~torn /\ UNCHANGED <<applied, runtimes>>
        /\ \/ pc' = "listen" /\ work' = work
           \/ pc' = "undo certificates" /\ work' = [work EXCEPT !.live = TRUE]
    BY <1>3 DEF Reload, disk
  <2>2. OldKept /\ work.pool = NoPool
    BY <2>1 DEF PieceInv, ApplyingHolds, ApplyInv
  <2>3. /\ work'.files = work.files /\ work'.circuits = work.circuits /\ work'.pool = NoPool
        /\ pc' = "undo certificates" => work'.live
    <3>1. CASE pc' = "listen" /\ work' = work
      BY <2>2, <3>1
    <3>2. CASE pc' = "undo certificates" /\ work' = [work EXCEPT !.live = TRUE]
      BY <2>2, <3>2, LiveType
    <3> QED BY <2>1, <3>1, <3>2
  <2>4. OldKept'
    BY <2>1, <2>2, <2>3 DEF OldKept, OnePiece, Of
  <2> QED BY <2>1, <2>3, <2>4 DEF ApplyingHolds, UndoingHolds, SwitchingHolds
<1>4. CASE Listening \/ PersistPools
  <2>1. /\ pc \in {"listen", "persist"} /\ pc' \in {"persist", "version"} /\ ~torn
        /\ UNCHANGED <<applied, runtimes, work>>
    BY <1>4 DEF Listening, PersistPools, disk
  <2>2. OldKept
    BY <2>1 DEF PieceInv, ApplyingHolds
  <2>3. OldKept'
    BY <2>1, <2>2 DEF OldKept, OnePiece, Of
  <2> QED BY <2>1, <2>3 DEF ApplyingHolds, UndoingHolds, SwitchingHolds
<1>5. CASE WriteAppliedVersion
  <2>1. pc' = "commit"
    BY <1>5 DEF WriteAppliedVersion
  <2> QED BY <2>1 DEF ApplyingHolds, UndoingHolds, SwitchingHolds
<1>6. CASE Commit
  <2>1. /\ pc = "commit" /\ pc' = "idle" /\ runtimes' = work.pending
        /\ UNCHANGED <<applied, circuits, loaded>>
    BY <1>6 DEF Commit
  <2>2. /\ DOMAIN work.pending = Uses[applied] /\ applied = work.version /\ circuits = work.pending
        /\ Of(files, applied) /\ Of(loaded, applied)
        /\ Directed(files, work.pending) /\ Directed(loaded, work.pending)
    BY <2>1 DEF ApplyInv, PoolsStaged
  <2>3. Uses[applied] \subseteq Pools
    BY ConstantsAssumption DEF TypeOK
  <2>4. /\ files'.pools = [p \in Pools |-> IF p \in DOMAIN runtimes \ Uses[work.version]
                                           THEN "absent" ELSE files.pools[p]]
        /\ files'.certificates = files.certificates /\ files'.config = files.config
    BY <1>6, OtherFiles DEF Commit, TypeOK
  <2>5. Directed(files', work.pending)
    BY <2>2, <2>3, <2>4 DEF Directed
  <2>6. Intact(runtimes)'
    BY <2>1, <2>2, <2>4, <2>5 DEF Intact, OnePiece, Of, SameCircuits
  <2> QED BY <2>1, <2>6 DEF ApplyingHolds, UndoingHolds, SwitchingHolds
<1>7. CASE ApplyFails
  <2> DEFINE late == pc \in {"listen", "persist", "version"}
  <2>1. /\ pc \in {"certificates", "config", "pools", "listen", "persist", "version"}
        /\ pc' = "undo certificates" /\ ~torn /\ work' = [work EXCEPT !.live = late]
        /\ UNCHANGED <<applied, runtimes, loaded>>
    BY <1>7 DEF ApplyFails, disk
  <2>2. /\ OldKept /\ work.pool = NoPool
        /\ ~late => OnePiece(loaded, runtimes)
    BY <2>1 DEF PieceInv, ApplyingHolds, ApplyInv, Intact
  <2> HIDE DEF late
  <2>3. /\ work'.files = work.files /\ work'.circuits = work.circuits
        /\ work'.pool = NoPool /\ work'.live = late
    BY <2>1, <2>2, LiveType
  <2>4. OldKept' /\ (~late => OnePiece(loaded, runtimes)')
    BY <2>1, <2>2, <2>3 DEF OldKept, OnePiece, Of
  <2> QED BY <2>1, <2>3, <2>4 DEF ApplyingHolds, UndoingHolds, SwitchingHolds
<1> QED BY <1>1, <1>2, <1>3, <1>4, <1>5, <1>6, <1>7 DEF Apply

\* A rollback puts the edge together again, unless one of its writes fails.
LEMMA PieceUndo ==
    ASSUME TypeOK, PieceInv, Undo \/ UndoFails
    PROVE  PieceInv'
<1> SUFFICES ASSUME ~torn' PROVE (ApplyingHolds /\ UndoingHolds /\ SwitchingHolds)'
  BY DEF PieceInv
<1> USE DEF Applying, Reloaded, CertificatesStaged
<1>0. files \in Files
  BY DEF TypeOK
<1>1. CASE UndoCertificates
  <2>1. /\ pc = "undo certificates" /\ pc' = "undo pools" /\ ~torn
        /\ files' = [files EXCEPT !.certificates = work.files.certificates]
        /\ UNCHANGED <<applied, loaded, runtimes, work>>
    BY <1>1 DEF UndoCertificates
  <2>2. /\ work.pool = NoPool /\ OldKept
        /\ ~work.live => OnePiece(loaded, runtimes)
    BY <2>1 DEF PieceInv, UndoingHolds
  <2>3. files'.certificates = applied
    BY <1>0, <2>1, <2>2, OtherFiles DEF OldKept, OnePiece, Of
  <2>4. OldKept' /\ (~work.live => OnePiece(loaded, runtimes)')
    BY <2>1, <2>2 DEF OldKept, OnePiece, Of
  <2> QED BY <2>1, <2>2, <2>3, <2>4 DEF ApplyingHolds, UndoingHolds, SwitchingHolds
<1>2. CASE UndoPools
  <2>1. /\ pc = "undo pools" /\ ~torn /\ pc' = AfterPools
        /\ files' = [files EXCEPT !.pools = work.files.pools]
        /\ circuits' = IF work.pool = NoPool THEN work.circuits ELSE circuits
        /\ UNCHANGED <<applied, loaded, runtimes, work>>
    BY <1>2 DEF UndoPools
  <2>2. files'.pools = work.files.pools /\ files'.config = files.config
        /\ files'.certificates = files.certificates
    BY <1>0, <2>1 DEF Files
  <2>3. CASE work.pool = NoPool
    <3>1. /\ files.certificates = applied /\ OldKept /\ pc' = "undo config" /\ circuits' = work.circuits
          /\ ~work.live => OnePiece(loaded, runtimes)
      BY <2>1, <2>3 DEF PieceInv, UndoingHolds, AfterPools
    <3>2. Directed(files, runtimes)' /\ SameCircuits(circuits, runtimes)'
      BY <2>1, <2>2, <3>1 DEF OldKept, OnePiece, Directed, SameCircuits
    <3>3. OldKept' /\ (~work.live => OnePiece(loaded, runtimes)') /\ files'.certificates = applied
      BY <2>1, <2>2, <3>1 DEF OldKept, OnePiece, Of
    <3> QED BY <2>1, <2>3, <3>1, <3>2, <3>3 DEF ApplyingHolds, UndoingHolds, SwitchingHolds
  <2>4. CASE work.pool # NoPool
    <3>1. pc' = "undo reload" /\ Of(files, applied) /\ OnePiece(work.files, runtimes)
      BY <2>1, <2>4 DEF PieceInv, SwitchingHolds, AfterPools
    <3>2. OnePiece(files, runtimes)'
      BY <2>1, <2>2, <3>1 DEF OnePiece, Of, Directed
    <3> QED BY <2>1, <2>4, <3>1, <3>2 DEF ApplyingHolds, UndoingHolds, SwitchingHolds
  <2> QED BY <2>3, <2>4
<1>3. CASE UndoConfig
  <2>1. /\ pc = "undo config" /\ ~torn /\ pc' = AfterConfig
        /\ files' = [files EXCEPT !.config = work.files.config]
        /\ UNCHANGED <<applied, circuits, loaded, runtimes, work>>
    BY <1>3 DEF UndoConfig
  <2>2. /\ work.pool = NoPool /\ OldKept /\ files.certificates = applied
        /\ Directed(files, runtimes) /\ SameCircuits(circuits, runtimes)
        /\ ~work.live => OnePiece(loaded, runtimes)
    BY <2>1 DEF PieceInv, UndoingHolds
  <2>3. files'.config = work.files.config /\ files'.pools = files.pools
        /\ files'.certificates = files.certificates
    BY <1>0, <2>1 DEF Files
  <2>4. OnePiece(files, runtimes)'
    BY <2>1, <2>2, <2>3 DEF OldKept, OnePiece, Of, Directed
  <2>5. SameCircuits(circuits, runtimes)' /\ (~work.live => OnePiece(loaded, runtimes)')
    BY <2>1, <2>2 DEF OnePiece, Of
  <2>6. CASE work.live
    <3>1. pc' = "undo reload"
      BY <2>1, <2>6 DEF AfterConfig
    <3> QED BY <2>4, <2>5, <3>1 DEF ApplyingHolds, UndoingHolds, SwitchingHolds
  <2>7. CASE ~work.live
    <3>1. pc' = "failed"
      BY <2>1, <2>7 DEF AfterConfig
    <3> QED BY <2>4, <2>5, <2>7, <3>1 DEF ApplyingHolds, UndoingHolds, SwitchingHolds, Intact
  <2> QED BY <2>6, <2>7
<1>4. CASE UndoReload
  <2>1. /\ pc = "undo reload" /\ ~torn /\ loaded' = files
        /\ pc' = (IF work.pool = NoPool THEN "failed" ELSE "undo circuits")
        /\ UNCHANGED <<files, applied, circuits, runtimes, work>>
    <3>1. /\ pc = "undo reload" /\ pc' = IF work.pool = NoPool THEN "failed" ELSE "undo circuits"
          /\ UNCHANGED <<files, applied, circuits, runtimes, work>>
      BY <1>4 DEF UndoReload, disk
    <3>2. (Adopted /\ torn' = torn) \/ (NotAdopted /\ torn' = (torn \/ loaded # files))
      BY <1>4 DEF UndoReload
    <3>3. ~torn /\ (Adopted \/ (NotAdopted /\ loaded = files))
      <4>1. CASE Adopted /\ torn' = torn
        BY <4>1
      <4>2. CASE NotAdopted /\ torn' = (torn \/ loaded # files)
        <5> DEFINE cut == torn \/ loaded # files
        <5>1. torn' = cut /\ (~cut => ~torn /\ loaded = files)
          BY <4>2
        <5> HIDE DEF cut
        <5>2. ~cut
          BY <5>1, Zenon
        <5> QED BY <4>2, <5>1, <5>2
      <4> QED BY <3>2, <4>1, <4>2
    <3>4. loaded' = files
      BY <3>3 DEF Adopted, NotAdopted
    <3> QED BY <3>1, <3>3, <3>4
  <2>2. /\ OnePiece(files, runtimes)
        /\ work.pool = NoPool => SameCircuits(circuits, runtimes)
    BY <2>1 DEF PieceInv, UndoingHolds
  <2>3. OnePiece(files, runtimes)' /\ OnePiece(loaded, runtimes)'
    BY <2>1, <2>2 DEF OnePiece, Of
  <2>4. work.pool = NoPool => SameCircuits(circuits, runtimes)'
    BY <2>1, <2>2
  <2> QED BY <2>1, <2>3, <2>4 DEF ApplyingHolds, UndoingHolds, SwitchingHolds, Intact
<1>5. CASE UndoCircuits
  <2>1. /\ pc = "undo circuits" /\ pc' = "idle" /\ ~torn /\ circuits' = runtimes
        /\ UNCHANGED <<files, applied, loaded, runtimes>>
    BY <1>5 DEF UndoCircuits
  <2>2. OnePiece(files, runtimes) /\ OnePiece(loaded, runtimes)
    BY <2>1 DEF PieceInv, UndoingHolds
  <2>3. Intact(runtimes)'
    BY <2>1, <2>2 DEF Intact, OnePiece, Of, SameCircuits
  <2> QED BY <2>1, <2>3 DEF ApplyingHolds, UndoingHolds, SwitchingHolds
<1>6. CASE Fail
  <2>1. /\ pc = "failed" /\ pc' = "idle" /\ ~torn
        /\ UNCHANGED <<files, applied, circuits, loaded, runtimes>>
    BY <1>6 DEF Fail, disk
  <2>2. Intact(runtimes)
    BY <2>1 DEF PieceInv, ApplyingHolds
  <2>3. Intact(runtimes)'
    BY <2>1, <2>2 DEF Intact, OnePiece, Of
  <2> QED BY <2>1, <2>3 DEF ApplyingHolds, UndoingHolds, SwitchingHolds
<1>7. CASE UndoFails
  BY <1>7 DEF UndoFails
<1> QED BY <1>1, <1>2, <1>3, <1>4, <1>5, <1>6, <1>7 DEF Undo

\* A result of a probe leaves the edge in one piece or begins a switch.
LEMMA PieceProbe ==
    ASSUME TypeOK, PieceInv, NEW p \in Pools, NEW layer \in Layers, Probe(p, layer)
    PROVE  PieceInv'
<1> SUFFICES ASSUME ~torn' PROVE (ApplyingHolds /\ UndoingHolds /\ SwitchingHolds)'
  BY DEF PieceInv
<1> USE DEF Applying, Reloaded, CertificatesStaged
<1> DEFINE next == IF <<p, layer>> \in failing THEN Failed(runtimes[p], layer)
                                               ELSE Succeeded(runtimes[p], layer)
           pending == [runtimes EXCEPT ![p] = next]
           switched == Directive(next.circuit) # Directive(runtimes[p].circuit)
           begun == [NoWork EXCEPT !.pool = p, !.files = files, !.pending = pending]
<1>1. /\ pc = "idle" /\ ~torn /\ p \in DOMAIN runtimes
      /\ circuits' = IF next.circuit = runtimes[p].circuit THEN circuits ELSE pending
      /\ runtimes' = IF switched THEN runtimes ELSE pending
      /\ pc' = IF switched THEN "switch" ELSE "idle"
      /\ switched => work' = begun
      /\ UNCHANGED <<files, applied, loaded>>
  BY DEF Probe
<1> HIDE DEF next
<1>2. /\ DOMAIN pending = DOMAIN runtimes /\ pending[p] = next
      /\ \A q \in DOMAIN runtimes : q # p => pending[q] = runtimes[q]
  BY <1>1, RuntimesType DEF TypeOK, Runtimes
<1>3. begun.pool = p /\ begun.files = files /\ begun.pending = pending
  BY DEF NoWork
<1> HIDE DEF pending, begun
<1>4. Intact(runtimes)
  BY <1>1 DEF PieceInv, ApplyingHolds
<1>5. CASE switched
  <2>1. pc' = "switch" /\ runtimes' = runtimes /\ circuits' = pending /\ work' = begun
    BY <1>1, <1>5
  <2>2. OnePiece(files, runtimes)' /\ OnePiece(loaded, runtimes)'
    BY <1>1, <1>4, <2>1 DEF Intact, OnePiece, Of
  <2> QED BY <1>1, <1>2, <1>3, <2>1, <2>2
      DEF ApplyingHolds, UndoingHolds, SwitchingHolds, OnePiece
<1>6. CASE ~switched
  <2>1. pc' = "idle" /\ runtimes' = pending
    BY <1>1, <1>6
  <2>2. \A q \in DOMAIN runtimes : Directive(pending[q].circuit) = Directive(runtimes[q].circuit)
    BY <1>2, <1>6
  <2>3. /\ Of(files', applied') /\ Of(loaded', applied') /\ DOMAIN pending = Uses[applied']
        /\ Directed(files', pending) /\ Directed(loaded', pending)
    BY <1>1, <1>2, <1>4, <2>1, <2>2 DEF Intact, OnePiece, Of, Directed
  <2>4. SameCircuits(circuits', pending)
    <3>1. CASE next.circuit = runtimes[p].circuit
      BY <1>1, <1>2, <1>4, <3>1 DEF Intact, SameCircuits
    <3>2. CASE next.circuit # runtimes[p].circuit
      BY <1>1, <3>2 DEF SameCircuits
    <3> QED BY <3>1, <3>2
  <2>5. Intact(runtimes)'
    BY <2>1, <2>3, <2>4 DEF Intact, OnePiece
  <2> QED BY <2>1, <2>5 DEF ApplyingHolds, UndoingHolds, SwitchingHolds
<1> QED BY <1>5, <1>6

LEMMA PieceSwitch ==
    ASSUME TypeOK, PieceInv, Switch \/ SwitchFails \/ SwitchReload
    PROVE  PieceInv'
<1> SUFFICES ASSUME ~torn' PROVE (ApplyingHolds /\ UndoingHolds /\ SwitchingHolds)'
  BY DEF PieceInv
<1> USE DEF Applying, Reloaded, CertificatesStaged
<1>1. /\ pc \in {"switch", "switch reload"} /\ ~torn /\ UNCHANGED <<applied, circuits>>
  <2>1. CASE Switch
    BY <2>1 DEF Switch
  <2>2. CASE SwitchFails
    BY <2>2 DEF SwitchFails, disk
  <2>3. CASE SwitchReload
    BY <2>3 DEF SwitchReload, disk
  <2> QED BY <2>1, <2>2, <2>3
<1>2. /\ work.pool \in DOMAIN runtimes
      /\ circuits = work.pending /\ DOMAIN work.pending = DOMAIN runtimes
      /\ \A p \in DOMAIN runtimes : p # work.pool => work.pending[p] = runtimes[p]
      /\ Of(files, applied) /\ OnePiece(work.files, runtimes) /\ OnePiece(loaded, runtimes)
      /\ pc = "switch" => files = work.files
      /\ pc = "switch reload" => Directed(files, work.pending)
  BY <1>1 DEF PieceInv, SwitchingHolds
<1>3. DOMAIN runtimes \subseteq Pools /\ work.pool # NoPool
  BY <1>2, RuntimesType, ConstantsAssumption DEF TypeOK
<1>4. CASE Switch
  <2> DEFINE ps == [files.pools EXCEPT ![work.pool] = Directive(work.pending[work.pool].circuit)]
  <2>1. pc = "switch" /\ pc' = "switch reload" /\ files' = [files EXCEPT !.pools = ps]
        /\ UNCHANGED <<loaded, runtimes, work>>
    BY <1>4 DEF Switch
  <2>2. /\ ps[work.pool] = Directive(work.pending[work.pool].circuit)
        /\ \A p \in Pools : p # work.pool => ps[p] = files.pools[p]
    <3>1. files.pools \in [Pools -> {"absent", "up", "down"}]
      BY DEF TypeOK, Files
    <3> QED BY <1>2, <1>3, <3>1
  <2> HIDE DEF ps
  <2>3. files'.pools = ps /\ files'.config = files.config /\ files'.certificates = files.certificates
    BY <2>1 DEF TypeOK, Files
  <2>4. Directed(files, runtimes)
    BY <1>2, <2>1 DEF OnePiece
  <2>5. Directed(files', work.pending)
    BY <1>2, <1>3, <2>2, <2>3, <2>4 DEF Directed
  <2>6. OnePiece(work.files, runtimes)' /\ OnePiece(loaded, runtimes)' /\ Of(files, applied)'
    BY <1>1, <1>2, <2>1, <2>3 DEF OnePiece, Of
  <2> QED BY <1>1, <1>2, <2>1, <2>5, <2>6 DEF ApplyingHolds, UndoingHolds, SwitchingHolds
<1>5. CASE SwitchFails
  <2>1. pc' = "undo pools" /\ UNCHANGED <<files, loaded, runtimes, work>>
    BY <1>5 DEF SwitchFails, disk
  <2>2. /\ OnePiece(work.files, runtimes)' /\ OnePiece(loaded, runtimes)' /\ Of(files, applied)'
        /\ files'.certificates = applied'
    BY <1>1, <1>2, <2>1 DEF OnePiece, Of
  <2> QED BY <1>1, <1>3, <2>1, <2>2 DEF ApplyingHolds, UndoingHolds, SwitchingHolds
<1>6. CASE SwitchReload
  <2>1. /\ pc = "switch reload" /\ UNCHANGED files
        /\ \/ pc' = "idle" /\ loaded' = files /\ runtimes' = work.pending
           \/ pc' = "undo pools" /\ UNCHANGED <<loaded, runtimes, work>>
    BY <1>6 DEF SwitchReload, Adopted, NotAdopted, disk
  <2>2. CASE pc' = "idle"
    <3>1. loaded' = files /\ runtimes' = work.pending
      BY <2>1, <2>2
    <3>2. DOMAIN work.pending = Uses[applied]
      BY <1>2 DEF OnePiece
    <3>3. Intact(runtimes)'
      BY <1>1, <1>2, <2>1, <3>1, <3>2 DEF Intact, OnePiece, Of, SameCircuits
    <3> QED BY <2>2, <3>3 DEF ApplyingHolds, UndoingHolds, SwitchingHolds
  <2>3. CASE pc' = "undo pools"
    <3>1. UNCHANGED <<loaded, runtimes, work>>
      BY <2>1, <2>3
    <3>2. /\ OnePiece(work.files, runtimes)' /\ OnePiece(loaded, runtimes)' /\ Of(files, applied)'
          /\ files'.certificates = applied'
      BY <1>1, <1>2, <2>1, <3>1 DEF OnePiece, Of
    <3> QED BY <1>1, <1>3, <2>3, <3>1, <3>2 DEF ApplyingHolds, UndoingHolds, SwitchingHolds
  <2> QED BY <2>1, <2>2, <2>3
<1> QED BY <1>4, <1>5, <1>6

\* A kill tears only what is between two files; what it leaves whole is found
\* again at the start.
LEMMA PieceNext ==
    ASSUME TypeOK, StageInv, ApplyInv, PieceInv, [Next]_vars
    PROVE  PieceInv'
<1>1. CASE Kill
  <2> SUFFICES ASSUME ~torn' PROVE (ApplyingHolds /\ UndoingHolds /\ SwitchingHolds)'
    BY DEF PieceInv
  <2>1. /\ ~torn /\ pc \in Whole /\ pc' = "stopped"
        /\ UNCHANGED <<files, applied, circuits, loaded>>
    BY <1>1 DEF Kill, disk
  <2>2. OnePiece(files, circuits) /\ OnePiece(loaded, circuits)
    <3>1. CASE pc = "commit"
      BY <3>1 DEF ApplyInv, Applying, PoolsStaged, OnePiece
    <3>2. CASE pc \in {"idle", "certificates", "failed"}
      BY <2>1, <3>2, AgreeingCircuits DEF PieceInv, ApplyingHolds, Intact
    <3> QED BY <2>1, <3>1, <3>2 DEF Whole
  <2>3. Intact(circuits)'
    BY <2>1, <2>2 DEF Intact, OnePiece, Of, SameCircuits
  <2> QED BY <2>1, <2>3
      DEF ApplyingHolds, UndoingHolds, SwitchingHolds, Applying, Reloaded, CertificatesStaged
<1>2. CASE Start
  <2>1. /\ pc = "stopped" /\ pc' = "idle" /\ runtimes' = circuits
        /\ UNCHANGED <<files, applied, circuits, loaded, torn>>
    BY <1>2 DEF Start, disk
  <2>2. ~torn => Intact(runtimes)'
    BY <2>1 DEF PieceInv, ApplyingHolds, Intact, OnePiece, Of, SameCircuits
  <2> QED BY <2>1, <2>2
      DEF PieceInv, ApplyingHolds, UndoingHolds, SwitchingHolds, Applying, Reloaded, CertificatesStaged
<1>3. CASE OfferVersion \/ OriginChanges \/ UNCHANGED vars
  <2>1. UNCHANGED <<pc, work, files, loaded, circuits, runtimes, applied, torn>>
    BY <1>3 DEF OfferVersion, OriginChanges, vars, disk, section
  <2> QED BY <2>1 DEF PieceInv, ApplyingHolds, UndoingHolds, SwitchingHolds, Intact, OldKept,
                      OnePiece, Directed, SameCircuits, Of
<1> QED BY <1>1, <1>2, <1>3, PieceApply, PieceUndo, PieceProbe, PieceSwitch DEF Next

LEMMA PieceAlways == Spec => [](TypeOK /\ StageInv /\ ApplyInv /\ PieceInv)
<1>1. Init => ApplyInv /\ PieceInv
  <2> SUFFICES ASSUME Init PROVE ApplyInv /\ PieceInv
    OBVIOUS
  <2>1. DOMAIN NoRuntimes = {} /\ Uses[0] = {}
    BY ConstantsAssumption DEF NoRuntimes
  <2>2. Intact(runtimes)
    BY <2>1 DEF Init, Intact, OnePiece, Of, Directed, SameCircuits, NoFiles
  <2> QED BY <2>2 DEF Init, ApplyInv, PieceInv, ApplyingHolds, UndoingHolds, SwitchingHolds,
                      Applying, PoolsStaged, Reloaded, CertificatesStaged
<1>2. TypeOK /\ StageInv /\ ApplyInv /\ PieceInv /\ [Next]_vars => (ApplyInv /\ PieceInv)'
  BY ApplyNext, PieceNext
<1> QED BY <1>1, <1>2, StageAlways, PTL DEF Spec

\* Whatever failed, the edge is in one piece when nobody is at work on it, unless a
\* kill or a failed write of a rollback tore it and nothing was applied since
\* (restorePreviousConfigs, originPoolStage.Rollback, loadOriginRuntime).
THEOREM RollbacksRestore == Spec => []RollbackRestores
<1>1. PieceInv => RollbackRestores
  BY DEF PieceInv, ApplyingHolds, Intact, OnePiece, Of, Directed, SameCircuits, RollbackRestores
<1> QED BY <1>1, PieceAlways, PTL

-------------------------------------------------------------------------------
(* Tunnels *)

TunnelRows == [exists : BOOLEAN, revision : Nat, plan : Plans, key : Keys, configured : Nat]
PeerRows == [in : BOOLEAN, key : Keys, applied : Nat, error : BOOLEAN]
TestStates == {"none", "queued", "running", "overdue", "succeeded", "failed"}
Configs == [plan : Plans, remote : Keys, own : Keys]
ConfigFiles == Configs \union {NoConfig}
Statuses == [revision : Nat, key : Keys, error : BOOLEAN]
Agents == [had : Keys, key : Keys, file : ConfigFiles, link : Interface, managed : BOOLEAN,
           report : Statuses, settled : BOOLEAN]
Answers == [revision : Nat, plan : Plans \union {"none"}, peers : [Peers -> Keys]]
Origins == [key : Keys, runs : Answers, asks : BOOLEAN, answer : Answers]

TunnelTyped ==
  /\ tunnel \in TunnelRows /\ peer \in [Peers -> PeerRows] /\ tunnelDraft \subseteq Peers
  /\ test \in [Peers -> TestStates] /\ origin \in Origins /\ agent \in [Peers -> Agents]
  /\ changes \in 0..MaxChanges /\ tests \in 0..MaxTests /\ troubles \in 0..MaxTroubles

\* A host has a new key only after trouble, or after it was no peer for a while.
Leaving(n) == IF agent[n].key # NoKey /\ ~peer[n].in THEN 1 ELSE 0
Counted(n) ==
  agent[n].key \in {NoKey, agent[n].had} /\ Own(n) + Leaving(n) <= 1 + troubles + changes
KeysCounted == origin.key <= 1 + troubles /\ \A n \in Peers : Counted(n)

\* Nobody knows a revision or a key before there is one.
KnownOf(n) ==
  /\ peer[n].applied <= tunnel.revision /\ agent[n].report.revision <= tunnel.revision
  /\ peer[n].key <= agent[n].had
  /\ agent[n].report # NoStatus => agent[n].report.key = agent[n].key /\ agent[n].key # NoKey
RevisionsKnown ==
  /\ tunnel.revision >= 1
  /\ origin.runs.revision <= tunnel.revision /\ origin.answer.revision <= tunnel.revision
  /\ \A n \in Peers : KnownOf(n)

LinksFit == \A n \in Peers : agent[n].link.up => LinkFits(agent[n].link, agent[n].file)

\* What a report without an error says of the tunnel's present revision is so, from
\* when it is made until the host becomes another.
Current(n) == [plan |-> tunnel.plan, remote |-> tunnel.key, own |-> agent[n].key]
Truthful(n) ==
  /\ agent[n].report # NoStatus /\ agent[n].report.revision = tunnel.revision /\ ~agent[n].report.error =>
       agent[n].file = Current(n)
  /\ peer[n].in /\ peer[n].applied = tunnel.revision /\ ~peer[n].error
       /\ peer[n].key # NoKey /\ peer[n].key = agent[n].key => agent[n].file = Current(n)
ReportsTrue == \A n \in Peers : Truthful(n)

\* So is what the origin was told at this revision.
Tells(answer) ==
  tunnel.exists /\ answer.revision = tunnel.revision =>
    /\ answer.plan = tunnel.plan /\ origin.key = tunnel.key
    /\ \A n \in Peers : answer.peers[n] = peer[n].key
AnswersTrue == Tells(origin.runs) /\ Tells(origin.answer)

TunnelInv ==
  /\ TunnelTyped /\ KeysCounted /\ RevisionsKnown /\ LinksFit /\ ReportsTrue /\ AnswersTrue

LEMMA KeyFacts ==
  /\ Keys \subseteq Nat /\ NoKey \in Keys /\ 1 \in Keys
  /\ NoConfig \in ConfigFiles /\ NoStatus \in Statuses /\ Down \in Interface /\ Down.up = FALSE
  /\ NotInstalled \in Answers /\ NewPeer \in PeerRows /\ NoPeer \in PeerRows
<1>1. Keys \subseteq Nat /\ NoKey \in Keys /\ 1 \in Keys
  BY TunnelAssumption DEF Keys, NoKey
<1> QED
  BY <1>1 DEF NoConfig, ConfigFiles, NoStatus, Statuses, Down, Interface, NotInstalled, Answers, NewPeer,
     NoPeer, PeerRows

LEMMA Numbers ==
  ASSUME TunnelInv
  PROVE  /\ tunnel \in TunnelRows /\ tunnel.revision \in Nat /\ tunnel.revision >= 1 /\ origin \in Origins
         /\ origin.key \in Keys /\ origin.key \in Nat /\ origin.runs \in Answers /\ origin.answer \in Answers
         /\ origin.runs.revision \in Nat /\ origin.answer.revision \in Nat
         /\ troubles \in Nat /\ changes \in Nat
         /\ \A n \in Peers : /\ peer[n] \in PeerRows /\ peer[n].applied \in Nat /\ peer[n].key \in Nat
                             /\ agent[n] \in Agents /\ agent[n].had \in Nat /\ agent[n].key \in Nat
                             /\ agent[n].report.revision \in Nat
                             /\ Own(n) \in Nat /\ Leaving(n) \in Nat
<1>1. /\ tunnel \in TunnelRows /\ origin \in Origins /\ troubles \in Nat /\ changes \in Nat
      /\ \A n \in Peers : peer[n] \in PeerRows /\ agent[n] \in Agents
  BY TunnelAssumption DEF TunnelInv, TunnelTyped
<1>2. tunnel.revision \in Nat /\ tunnel.revision >= 1
  BY <1>1 DEF TunnelRows, TunnelInv, RevisionsKnown
<1>3. /\ origin.key \in Keys /\ origin.key \in Nat /\ origin.runs \in Answers /\ origin.answer \in Answers
      /\ origin.runs.revision \in Nat /\ origin.answer.revision \in Nat
  BY <1>1, KeyFacts DEF Origins, Answers
<1>4. ASSUME NEW n \in Peers
      PROVE  /\ peer[n].applied \in Nat /\ peer[n].key \in Nat
             /\ agent[n].had \in Nat /\ agent[n].key \in Nat /\ agent[n].report.revision \in Nat
             /\ Own(n) \in Nat /\ Leaving(n) \in Nat
  <2>1. peer[n] \in PeerRows /\ agent[n] \in Agents
    BY <1>1
  <2>2. peer[n].applied \in Nat /\ peer[n].key \in Nat
    BY <2>1, KeyFacts DEF PeerRows
  <2>3. agent[n].had \in Nat /\ agent[n].key \in Nat /\ agent[n].report \in Statuses
    BY <2>1, KeyFacts DEF Agents
  <2>4. agent[n].report.revision \in Nat
    BY <2>3 DEF Statuses
  <2>5. Own(n) \in Nat
    BY <2>3 DEF Own
  <2>6. Leaving(n) \in Nat
    BY DEF Leaving
  <2> QED
    BY <2>2, <2>3, <2>4, <2>5, <2>6
<1> QED
  BY <1>1, <1>2, <1>3, <1>4

LEMMA TunnelRow ==
  ASSUME TunnelInv
  PROVE  tunnel \in TunnelRows /\ tunnel.revision \in Nat
BY Numbers

LEMMA RestKeeps ==
  ASSUME TunnelInv, UNCHANGED <<tunnel, peer, origin, agent, changes>>,
         tunnelDraft' \subseteq Peers, test' \in [Peers -> TestStates], tests' \in 0..MaxTests,
         troubles' \in 0..MaxTroubles, troubles' >= troubles
  PROVE  TunnelInv'
<1>1. TunnelTyped' /\ RevisionsKnown' /\ LinksFit' /\ ReportsTrue' /\ AnswersTrue'
  BY DEF TunnelInv, TunnelTyped, RevisionsKnown, KnownOf, LinksFit, ReportsTrue, Truthful, AnswersTrue,
     Tells, Current, LinkFits, NoStatus
<1>2. KeysCounted'
  BY DEF TunnelInv, TunnelTyped, KeysCounted, Counted, Own, Leaving, Origins, Agents, Keys, NoKey
<1> QED
  BY <1>1, <1>2 DEF TunnelInv

LEMMA MembersKeep ==
  ASSUME TunnelInv, TunnelAssumption, NEW plan \in Plans, NEW members \in SUBSET Peers,
         UpdateTunnel(plan, members)
  PROVE  TunnelInv'
<1>1. /\ tunnel' = [tunnel EXCEPT !.plan = plan, !.revision = tunnel.revision + 1]
      /\ peer' = [m \in Peers |-> IF m \notin members THEN NoPeer
                                  ELSE IF peer[m].in THEN peer[m] ELSE NewPeer]
      /\ UNCHANGED <<tunnelDraft, test, origin, agent, tests, troubles>> /\ tunnelDraft \subseteq Peers
      /\ changes' = changes + 1 /\ changes' \in 0..MaxChanges
  BY TunnelAssumption DEF UpdateTunnel, Change, TunnelInv, TunnelTyped
<1>2. tunnel' \in TunnelRows /\ tunnel'.revision = tunnel.revision + 1
  <2> DEFINE r == tunnel.revision + 1
  <2>1. r \in Nat /\ tunnel \in TunnelRows /\ tunnel' = [tunnel EXCEPT !.plan = plan, !.revision = r]
    BY <1>1, TunnelRow
  <2> HIDE DEF r
  <2>2. tunnel' \in TunnelRows /\ tunnel'.revision = r
    BY <2>1 DEF TunnelRows
  <2> QED
    BY <2>2 DEF r
<1>3. /\ peer' \in [Peers -> PeerRows]
      /\ \A m \in Peers : \/ peer'[m] = peer[m] /\ (~peer'[m].in => ~peer[m].in)
                          \/ peer'[m].key = NoKey /\ peer'[m].applied = 0
  BY <1>1, KeyFacts, Numbers DEF NewPeer, NoPeer
<1>4. TunnelTyped'
  BY <1>1, <1>2, <1>3 DEF TunnelInv, TunnelTyped
<1>5. KeysCounted'
  <2>1. ASSUME NEW m \in Peers PROVE Counted(m)'
    <3>1. Own(m)' = Own(m) /\ Leaving(m)' <= 1 /\ Leaving(m)' \in Nat
      BY <1>1 DEF Own, Leaving
    <3>2. Leaving(m)' <= Leaving(m) \/ Leaving(m) = 0
      BY <1>1 DEF Leaving
    <3> QED
      BY <3>1, <3>2, <1>1, Numbers DEF TunnelInv, KeysCounted, Counted
  <2> QED
    BY <2>1, <1>1, Numbers DEF TunnelInv, KeysCounted
<1>6. RevisionsKnown'
  BY <1>1, <1>2, <1>3, Numbers DEF TunnelInv, RevisionsKnown, KnownOf, NoStatus, NoKey
<1>7. LinksFit' /\ ReportsTrue' /\ AnswersTrue'
  <2>1. ReportsTrue'
    BY <1>1, <1>2, <1>3, Numbers DEF TunnelInv, RevisionsKnown, KnownOf, ReportsTrue, Truthful, NoKey
  <2>2. LinksFit' /\ AnswersTrue'
    BY <1>1, <1>2, Numbers DEF TunnelInv, RevisionsKnown, LinksFit, LinkFits, AnswersTrue, Tells
  <2> QED
    BY <2>1, <2>2
<1> QED
  BY <1>4, <1>5, <1>6, <1>7 DEF TunnelInv

LEMMA DeleteKeeps ==
  ASSUME TunnelInv, TunnelAssumption, DeleteTunnel
  PROVE  TunnelInv'
<1>1. /\ tunnel' = [tunnel EXCEPT !.exists = FALSE]
      /\ peer' = [m \in Peers |-> NoPeer] /\ test' = [m \in Peers |-> "none"]
      /\ UNCHANGED <<tunnelDraft, origin, agent, tests, troubles>>
      /\ changes' = changes + 1 /\ changes' \in 0..MaxChanges
  BY TunnelAssumption DEF DeleteTunnel, Change, TunnelInv, TunnelTyped
<1>2. tunnel' \in TunnelRows /\ tunnel'.revision = tunnel.revision /\ ~tunnel'.exists
  BY <1>1, Numbers DEF TunnelRows
<1>3. peer' \in [Peers -> PeerRows] /\ \A m \in Peers : peer'[m].key = NoKey /\ peer'[m].applied = 0
  BY <1>1, KeyFacts DEF NoPeer
<1>4. TunnelTyped'
  BY <1>1, <1>2, <1>3 DEF TunnelInv, TunnelTyped, TestStates
<1>5. KeysCounted'
  <2>1. ASSUME NEW m \in Peers PROVE Counted(m)'
    <3>1. Own(m)' = Own(m) /\ Leaving(m)' <= 1 /\ Leaving(m)' \in Nat
      BY <1>1 DEF Own, Leaving
    <3> QED
      BY <3>1, <1>1, Numbers DEF TunnelInv, KeysCounted, Counted, Leaving
  <2> QED
    BY <2>1, <1>1, Numbers DEF TunnelInv, KeysCounted
<1>6. RevisionsKnown'
  BY <1>1, <1>2, <1>3, Numbers DEF TunnelInv, RevisionsKnown, KnownOf, NoStatus, NoKey
<1>7. LinksFit' /\ ReportsTrue' /\ AnswersTrue'
  BY <1>1, <1>2, <1>3 DEF TunnelInv, LinksFit, LinkFits, ReportsTrue, Truthful, Current, NoStatus,
     NoKey, AnswersTrue, Tells
<1> QED
  BY <1>4, <1>5, <1>6, <1>7 DEF TunnelInv

LEMMA EditKeeps ==
  ASSUME TunnelInv, TunnelAssumption, NEW nodes \in SUBSET Peers, EditDraft(nodes)
  PROVE  TunnelInv'
<1>1. TunnelTyped' /\ KeysCounted'
  BY DEF TunnelInv, TunnelTyped, KeysCounted, Counted, TunnelAssumption, EditDraft, Change, Own, Leaving,
     Agents, Origins, Keys, NoKey
<1>2. RevisionsKnown' /\ LinksFit' /\ ReportsTrue' /\ AnswersTrue'
  BY DEF TunnelInv, RevisionsKnown, KnownOf, LinksFit, ReportsTrue, Truthful, AnswersTrue, EditDraft, Tells, LinkFits,
     Current, NoStatus
<1> QED
  BY <1>1, <1>2 DEF TunnelInv

-----------------------------------------------------------------------------
(* The origin *)

LEMMA AskKeeps == ASSUME TunnelInv, RunInstaller PROVE TunnelInv'
<1>1. TunnelTyped' /\ KeysCounted' /\ RevisionsKnown'
  BY DEF TunnelInv, TunnelTyped, KeysCounted, Counted, RevisionsKnown, KnownOf, RunInstaller, Origins, Own, Leaving,
     NoStatus
<1>2. LinksFit' /\ ReportsTrue' /\ AnswersTrue'
  BY DEF TunnelInv, TunnelTyped, LinksFit, ReportsTrue, Truthful, AnswersTrue, RunInstaller, Origins, Tells,
     LinkFits, Current, NoStatus
<1> QED
  BY <1>1, <1>2 DEF TunnelInv

LEMMA KnownKey ==
  ASSUME TunnelInv
  PROVE  /\ WithOriginKey \in TunnelRows
         /\ WithOriginKey.exists = tunnel.exists /\ WithOriginKey.plan = tunnel.plan
         /\ WithOriginKey.key = origin.key
         /\ \/ WithOriginKey.revision = tunnel.revision /\ tunnel.key = origin.key
            \/ WithOriginKey.revision = tunnel.revision + 1
<1> DEFINE r == tunnel.revision + 1
           renewed == [tunnel EXCEPT !.key = origin.key, !.revision = r]
<1>1. tunnel \in TunnelRows /\ origin.key \in Keys /\ tunnel.revision \in Nat
  BY Numbers
<1>2. /\ renewed \in TunnelRows /\ renewed.exists = tunnel.exists /\ renewed.plan = tunnel.plan
      /\ renewed.key = origin.key /\ renewed.revision = tunnel.revision + 1
  <2>1. r \in Nat
    BY <1>1
  <2> HIDE DEF r
  <2>2. /\ renewed \in TunnelRows /\ renewed.exists = tunnel.exists /\ renewed.plan = tunnel.plan
        /\ renewed.key = origin.key /\ renewed.revision = r
    BY <1>1, <2>1 DEF TunnelRows
  <2> QED
    BY <2>2 DEF r
<1>3. WithOriginKey = IF tunnel.key = origin.key THEN tunnel ELSE renewed
  BY DEF WithOriginKey
<1> HIDE DEF renewed
<1> QED
  BY <1>1, <1>2, <1>3

LEMMA ConfigureKeeps ==
  ASSUME TunnelInv, TunnelAssumption, ConfigureOrigin
  PROVE  TunnelInv'
<1> DEFINE told == [revision |-> WithOriginKey.revision, plan |-> WithOriginKey.plan,
                    peers |-> [n \in Peers |-> peer[n].key]]
<1>1. WithOriginKey \in TunnelRows /\ WithOriginKey.revision \in Nat /\ tunnel.revision \in Nat
  BY KnownKey DEF TunnelRows, TunnelInv, TunnelTyped
<1>2. told \in Answers
  BY <1>1 DEF Answers, TunnelInv, TunnelTyped, PeerRows, TunnelRows
<1>3. PICK known \in TunnelRows :
        /\ \/ tunnel' = known
           \/ known = tunnel /\ UNCHANGED tunnel
        /\ known.exists = tunnel.exists /\ known.plan = tunnel.plan
        /\ \/ known.revision = tunnel.revision /\ known.key = tunnel.key
           \/ known.revision = tunnel.revision + 1
  <2>1. CASE UNCHANGED tunnel
    BY <2>1 DEF TunnelInv, TunnelTyped
  <2>2. CASE tunnel' = WithOriginKey
    BY <2>2, KnownKey
  <2>3. CASE tunnel' = [WithOriginKey EXCEPT !.configured = WithOriginKey.revision]
    BY <2>3, KnownKey, <1>1 DEF TunnelRows
  <2> QED
    BY <2>1, <2>2, <2>3 DEF ConfigureOrigin
<1>4. /\ tunnel' \in TunnelRows
      /\ tunnel'.exists = tunnel.exists /\ tunnel'.plan = tunnel.plan
      /\ \/ tunnel'.revision = tunnel.revision /\ tunnel'.key = tunnel.key
         \/ tunnel'.revision = tunnel.revision + 1
  BY <1>3
<1>5. /\ origin' \in Origins /\ origin'.key = origin.key /\ origin'.runs = origin.runs
      /\ \/ origin'.answer = origin.answer
         \/ /\ tunnel' = [WithOriginKey EXCEPT !.configured = WithOriginKey.revision]
            /\ origin'.answer = told
  BY <1>2 DEF ConfigureOrigin, TunnelInv, TunnelTyped, Origins
<1>6. troubles' \in 0..MaxTroubles /\ troubles' >= troubles /\ troubles \in Nat
  BY DEF ConfigureOrigin, Trouble, TunnelInv, TunnelTyped, TunnelAssumption
<1>u. UNCHANGED <<peer, tunnelDraft, test, agent, changes, tests>>
  BY DEF ConfigureOrigin
<1> HIDE DEF told
<1>7. TunnelTyped'
  BY <1>4, <1>5, <1>6, <1>u DEF TunnelInv, TunnelTyped
<1>8. KeysCounted'
  BY <1>5, <1>6, <1>u DEF TunnelInv, TunnelTyped, KeysCounted, Counted, Own, Leaving, Agents, Origins, Keys, NoKey
<1>9. RevisionsKnown'
  <2>1. origin'.answer.revision <= tunnel'.revision
    <3>1. CASE origin'.answer = origin.answer
      BY <3>1, <1>1, <1>4 DEF TunnelInv, TunnelTyped, RevisionsKnown, KnownOf, Origins, Answers
    <3>2. CASE tunnel' = [WithOriginKey EXCEPT !.configured = WithOriginKey.revision]
               /\ origin'.answer = told
      BY <3>2, <1>1 DEF told, TunnelRows
    <3> QED
      BY <1>5, <3>1, <3>2
  <2>2. tunnel'.revision >= tunnel.revision /\ tunnel'.revision \in Nat
    BY <1>4, <1>1 DEF TunnelRows
  <2> QED
    <3>1. ASSUME NEW n \in Peers PROVE KnownOf(n)'
      <4>1. KnownOf(n) /\ peer'[n] = peer[n] /\ agent'[n] = agent[n]
        BY <1>u DEF TunnelInv, RevisionsKnown
      <4>2. /\ peer[n].applied \in Nat /\ agent[n].report.revision \in Nat
            /\ tunnel.revision \in Nat /\ tunnel'.revision \in Nat
        BY <2>2, <1>1, Numbers
      <4> QED
        BY <4>1, <4>2, <2>2 DEF KnownOf
    <3>2. origin'.runs.revision <= tunnel'.revision /\ tunnel'.revision >= 1
      BY <2>2, <1>1, <1>5, Numbers DEF TunnelInv, RevisionsKnown
    <3> QED
      BY <2>1, <3>1, <3>2 DEF RevisionsKnown
<1>10. LinksFit'
  BY <1>u DEF TunnelInv, LinksFit, LinkFits
<1>11. ReportsTrue'
  BY <1>1, <1>4, <1>u DEF TunnelInv, TunnelTyped, RevisionsKnown, KnownOf, ReportsTrue, Truthful, Current, Agents,
     PeerRows, Statuses, NoStatus
<1>12. ASSUME NEW answer \in Answers, Tells(answer), answer.revision <= tunnel.revision
       PROVE  tunnel'.exists /\ answer.revision = tunnel'.revision =>
                /\ answer.plan = tunnel'.plan /\ origin'.key = tunnel'.key
                /\ \A n \in Peers : answer.peers[n] = peer'[n].key
  BY <1>12, <1>1, <1>4, <1>5, <1>u DEF Tells, Answers
<1>13. Tells(origin.runs)'
  BY <1>12, <1>5 DEF TunnelInv, TunnelTyped, RevisionsKnown, KnownOf, AnswersTrue, Origins, Tells
<1>14. Tells(origin.answer)'
  <2>1. CASE origin'.answer = origin.answer
    BY <2>1, <1>12, <1>5 DEF TunnelInv, TunnelTyped, RevisionsKnown, KnownOf, AnswersTrue, Origins, Tells
  <2>2. CASE tunnel' = [WithOriginKey EXCEPT !.configured = WithOriginKey.revision]
             /\ origin'.answer = told
    BY <2>2, <1>1, <1>5, <1>u, KnownKey DEF told, TunnelRows, Tells
  <2> QED
    BY <1>5, <2>1, <2>2
<1> QED
  BY <1>7, <1>8, <1>9, <1>10, <1>11, <1>13, <1>14 DEF TunnelInv, AnswersTrue

LEMMA ApplyKeeps == ASSUME TunnelInv, TunnelAssumption, ApplyAnswer PROVE TunnelInv'
<1>1. /\ origin' \in Origins /\ origin'.key = origin.key
      /\ origin'.runs \in {origin.runs, origin.answer} /\ origin'.answer = NotInstalled
  BY KeyFacts DEF TunnelInv, TunnelTyped, ApplyAnswer, Origins
<1>2. troubles' \in 0..MaxTroubles /\ troubles' >= troubles /\ troubles \in Nat
  BY DEF ApplyAnswer, Trouble, TunnelInv, TunnelTyped, TunnelAssumption
<1>u. UNCHANGED <<tunnel, peer, tunnelDraft, test, agent, changes, tests>>
  BY DEF ApplyAnswer
<1>3. TunnelTyped'
  BY <1>1, <1>2, <1>u DEF TunnelInv, TunnelTyped
<1>4. KeysCounted'
  BY <1>1, <1>2, <1>u DEF TunnelInv, TunnelTyped, KeysCounted, Counted, Own, Leaving, Agents, Origins, Keys, NoKey
<1>5. RevisionsKnown' /\ LinksFit' /\ ReportsTrue'
  <2>1. RevisionsKnown'
    BY <1>1, <1>u, Numbers DEF TunnelInv, RevisionsKnown, KnownOf, NotInstalled
  <2>2. LinksFit' /\ ReportsTrue'
    BY <1>1, <1>u DEF TunnelInv, LinksFit, LinkFits, ReportsTrue, Truthful, Current, NoStatus
  <2> QED
    BY <2>1, <2>2
<1>6. AnswersTrue'
  BY <1>1, <1>u DEF TunnelInv, RevisionsKnown, KnownOf, AnswersTrue, Tells, NotInstalled
<1> QED
  BY <1>3, <1>4, <1>5, <1>6 DEF TunnelInv

LEMMA OriginFailsKeeps == ASSUME TunnelInv, TunnelAssumption, OriginFails PROVE TunnelInv'
<1>1. /\ troubles' \in 0..MaxTroubles /\ troubles' = troubles + 1 /\ troubles \in Nat
      /\ UNCHANGED <<tunnel, peer, tunnelDraft, test, agent, changes, tests>>
  BY DEF OriginFails, Trouble, TunnelInv, TunnelTyped, TunnelAssumption
<1>2. /\ origin' \in Origins
      /\ \/ origin'.key = origin.key /\ origin'.runs = origin.runs /\ origin'.answer = origin.answer
         \/ /\ origin'.key = origin.key + 1
            /\ origin'.runs = NotInstalled /\ origin'.answer = NotInstalled
  <2>1. origin.key \in Nat /\ origin.key + 1 \in Keys
    BY <1>1, Numbers DEF TunnelInv, KeysCounted, Keys, TunnelAssumption
  <2>2. [key |-> origin.key + 1, runs |-> NotInstalled, asks |-> FALSE, answer |-> NotInstalled] \in Origins
    BY <2>1, KeyFacts DEF Origins
  <2>3. /\ [origin EXCEPT !.asks = FALSE] \in Origins
        /\ [origin EXCEPT !.asks = FALSE].key = origin.key
        /\ [origin EXCEPT !.asks = FALSE].runs = origin.runs
        /\ [origin EXCEPT !.asks = FALSE].answer = origin.answer
    BY Numbers DEF Origins
  <2>4. /\ origin' \in Origins
        /\ \/ origin'.key = origin.key /\ origin'.runs = origin.runs /\ origin'.answer = origin.answer
           \/ origin' = [key |-> origin.key + 1, runs |-> NotInstalled, asks |-> FALSE, answer |-> NotInstalled]
    BY <2>2, <2>3 DEF OriginFails
  <2> QED
    BY <2>4
<1>3. TunnelTyped'
  BY <1>1, <1>2 DEF TunnelInv, TunnelTyped
<1>4. KeysCounted'
  BY <1>1, <1>2 DEF TunnelInv, TunnelTyped, KeysCounted, Counted, Own, Leaving, Agents, Origins, Keys, NoKey
<1>5. RevisionsKnown' /\ LinksFit' /\ ReportsTrue'
  <2>1. RevisionsKnown'
    BY <1>1, <1>2, Numbers DEF TunnelInv, RevisionsKnown, KnownOf, NotInstalled
  <2>2. LinksFit' /\ ReportsTrue'
    BY <1>1, <1>2 DEF TunnelInv, LinksFit, LinkFits, ReportsTrue, Truthful, Current, NoStatus
  <2> QED
    BY <2>1, <2>2
<1>6. AnswersTrue'
  BY <1>1, <1>2 DEF TunnelInv, RevisionsKnown, KnownOf, AnswersTrue, Tells, NotInstalled
<1> QED
  BY <1>3, <1>4, <1>5, <1>6 DEF TunnelInv

-----------------------------------------------------------------------------
(* The edges *)

\* A host has a key that nobody knows, or the one it reported.
LEMMA OwnKey ==
  ASSUME TunnelInv, TunnelAssumption, NEW n \in Peers, peer[n].in
  PROVE  /\ Own(n) \in Keys \ {NoKey} /\ Own(n) <= 1 + troubles + changes
         /\ agent[n].had <= Own(n)
         /\ peer[n].key # NoKey /\ peer[n].key = Own(n) => agent[n].key = Own(n)
BY DEF TunnelInv, TunnelTyped, KeysCounted, Counted, RevisionsKnown, KnownOf, TunnelAssumption, Own, Leaving, Agents,
   PeerRows, Keys, NoKey

LEMMA WantedFile ==
  ASSUME TunnelInv, TunnelAssumption, NEW n \in Peers, peer[n].in
  PROVE  /\ Wanted(n) \in Configs /\ Wanted(n) \in ConfigFiles /\ Wanted(n) # NoConfig
         /\ Wanted(n).plan = tunnel.plan /\ Wanted(n).remote = tunnel.key /\ Wanted(n).own = Own(n)
BY OwnKey DEF TunnelInv, TunnelTyped, TunnelRows, Wanted, Configs, ConfigFiles, NoConfig

\* Every round of a desired tunnel ends in one way.
LEMMA RoundKeeps ==
  ASSUME TunnelInv, TunnelAssumption, NEW n \in Peers, BeginsRound(n), EdgeOnly,
         NEW file \in ConfigFiles, NEW link \in Interface, NEW error \in BOOLEAN,
         EndTunnelRound(n, file, link, error),
         UNCHANGED troubles \/ Trouble,
         link.up => LinkFits(link, file),
         error \/ file = Wanted(n),
         agent[n].file = Wanted(n) => file = Wanted(n)
  PROVE  TunnelInv'
<1> DEFINE a == [agent[n] EXCEPT !.had = Own(n), !.key = Own(n), !.file = file, !.link = link,
                   !.managed = TRUE, !.report = Reports(n, error), !.settled = FALSE]
<1>1. peer[n].in /\ agent[n] \in Agents /\ agent \in [Peers -> Agents]
  BY DEF BeginsRound, TunnelInv, TunnelTyped
<1>2. agent' = [agent EXCEPT ![n] = a]
  BY DEF EndTunnelRound
<1>3. /\ a \in Agents /\ a.had = Own(n) /\ a.key = Own(n) /\ a.file = file /\ a.link = link
      /\ a.report = Reports(n, error)
  BY <1>1, OwnKey DEF Agents, Reports, Statuses, TunnelInv, TunnelTyped, TunnelRows
<1>4. agent' \in [Peers -> Agents]
  BY <1>1, <1>2, <1>3
<1>5. /\ agent'[n] = a /\ \A m \in Peers : m # n => agent'[m] = agent[m]
  BY <1>1, <1>2
<1> HIDE DEF a
<1>6. troubles' \in 0..MaxTroubles /\ troubles' >= troubles /\ troubles \in Nat /\ changes \in Nat
  BY DEF Trouble, TunnelInv, TunnelTyped, TunnelAssumption
<1>u. UNCHANGED <<tunnel, peer, tunnelDraft, test, origin, changes, tests>>
  BY DEF EdgeOnly
<1>7. TunnelTyped'
  BY <1>4, <1>6, <1>u DEF TunnelInv, TunnelTyped
<1>8. KeysCounted'
  <2>1. ASSUME NEW m \in Peers PROVE Counted(m)'
    <3>1. CASE m = n
      <4>1. Own(m)' = Own(n) /\ Leaving(m)' = 0
        BY <3>1, <1>1, <1>3, <1>5, <1>u, OwnKey DEF Own, Leaving, NoKey
      <4> QED
        BY <4>1, <3>1, <1>3, <1>5, <1>6, <1>1, <1>u, OwnKey, Numbers DEF Counted
    <3>2. CASE m # n
      <4>1. Own(m)' = Own(m) /\ Leaving(m)' = Leaving(m)
        BY <3>2, <1>5, <1>u DEF Own, Leaving
      <4>2. Own(m) \in Nat /\ Leaving(m) \in Nat
        BY DEF Own, Leaving, TunnelInv, TunnelTyped, Agents, Keys
      <4> QED
        BY <4>1, <4>2, <3>2, <1>5, <1>6, <1>u DEF TunnelInv, KeysCounted, Counted
    <3> QED
      BY <3>1, <3>2
  <2> QED
    BY <2>1, <1>6, <1>u, Numbers DEF KeysCounted, TunnelInv
<1>9. RevisionsKnown'
  <2>1. tunnel.revision \in Nat /\ peer[n].key \in Nat /\ agent[n].had \in Nat /\ Own(n) \in Nat
    BY <1>1, OwnKey DEF TunnelInv, TunnelTyped, TunnelRows, PeerRows, Agents, Keys
  <2>2. ASSUME NEW m \in Peers PROVE KnownOf(m)'
    <3>1. CASE m = n
      BY <3>1, <2>1, <1>1, <1>3, <1>5, <1>u, OwnKey DEF TunnelInv, RevisionsKnown, KnownOf, Reports
    <3>2. CASE m # n
      BY <3>2, <1>5, <1>u DEF TunnelInv, RevisionsKnown, KnownOf, NoStatus
    <3> QED
      BY <3>1, <3>2
  <2> QED
    BY <2>2, <1>u DEF TunnelInv, RevisionsKnown, KnownOf
<1>10. LinksFit'
  <2>1. ASSUME NEW m \in Peers, agent'[m].link.up PROVE LinkFits(agent'[m].link, agent'[m].file)
    BY <2>1, <1>3, <1>5 DEF TunnelInv, LinksFit
  <2> QED
    BY <2>1 DEF LinksFit, LinkFits
<1>11. ReportsTrue'
  <2>1. ASSUME NEW m \in Peers, m # n
        PROVE  Truthful(m)'
    BY <2>1, <1>5, <1>u DEF TunnelInv, ReportsTrue, Truthful, Current
  <2>2. Current(n)' = Wanted(n)
    BY <1>3, <1>5, <1>u DEF Current, Wanted
  <2>3. ~agent'[n].report.error => agent'[n].file = Current(n)'
    BY <2>2, <1>3, <1>5 DEF Reports
  <2>4. ASSUME peer'[n].in, peer'[n].applied = tunnel'.revision, ~peer'[n].error,
               peer'[n].key # NoKey, peer'[n].key = agent'[n].key
        PROVE  agent'[n].file = Current(n)'
    <3>1. agent[n].key = Own(n)
      BY <2>4, <1>1, <1>3, <1>5, <1>u, OwnKey
    <3>2. agent[n].file = Wanted(n)
      BY <2>4, <3>1, <1>1, <1>3, <1>5, <1>u DEF TunnelInv, ReportsTrue, Truthful, Current, Wanted
    <3> QED
      BY <3>2, <2>2, <1>3, <1>5
  <2> QED
    BY <2>1, <2>3, <2>4 DEF ReportsTrue, Truthful, Current, NoStatus, NoKey
<1>12. AnswersTrue'
  BY <1>u DEF TunnelInv, AnswersTrue, Tells
<1> QED
  BY <1>7, <1>8, <1>9, <1>10, <1>11, <1>12 DEF TunnelInv

LEMMA AgentTyped ==
  ASSUME TunnelInv, NEW n \in Peers
  PROVE  /\ agent[n].file \in ConfigFiles /\ agent[n].link \in Interface /\ agent[n] \in Agents
         /\ agent[n].link.up => LinkFits(agent[n].link, agent[n].file)
         /\ NoConfig \in ConfigFiles /\ Down \in Interface /\ Down.up = FALSE
<1>1. agent[n] \in Agents
  BY DEF TunnelInv, TunnelTyped
<1> QED
  BY <1>1, KeyFacts DEF TunnelInv, LinksFit, Agents

LEMMA EndAppliedKeeps ==
  ASSUME TunnelInv, TunnelAssumption, NEW n \in Peers, BeginsRound(n), EdgeOnly,
         NEW link \in Interface, EndApplied(n, link), link.up => LinkFits(link, Wanted(n))
  PROVE  TunnelInv'
BY RoundKeeps, WantedFile DEF EndApplied, BeginsRound

LEMMA UpFits ==
  ASSUME NEW config \in Configs
  PROVE  BroughtUp(config) \in Interface /\ LinkFits(BroughtUp(config), config)
BY DEF Configs, BroughtUp, Interface, LinkFits

LEMMA AwaitKeeps ==
  ASSUME TunnelInv, TunnelAssumption, NEW n \in Peers, AwaitOriginKey(n)
  PROVE  TunnelInv'
BY AgentTyped, RoundKeeps DEF AwaitOriginKey

LEMMA KeepKeeps ==
  ASSUME TunnelInv, TunnelAssumption, NEW n \in Peers, KeepTunnel(n)
  PROVE  TunnelInv'
BY AgentTyped, EndAppliedKeeps DEF KeepTunnel

LEMMA StartKeeps ==
  ASSUME TunnelInv, TunnelAssumption, NEW n \in Peers, StartTunnel(n)
  PROVE  TunnelInv'
<1> DEFINE old == agent[n].file
<1>1. BeginsRound(n) /\ peer[n].in /\ EdgeOnly
  BY DEF StartTunnel, BeginsRound
<1>2. CASE EndApplied(n, BroughtUp(Wanted(n)))
  BY <1>1, <1>2, WantedFile, UpFits, EndAppliedKeeps
<1>3. CASE Trouble /\ old = NoConfig /\ \E file \in {NoConfig, Wanted(n)} : EndTunnelRound(n, file, Down, TRUE)
  BY <1>1, <1>3, WantedFile, AgentTyped, RoundKeeps
<1>4. CASE Trouble /\ old # NoConfig /\ \E link \in {Down, BroughtUp(old)} : EndTunnelRound(n, old, link, TRUE)
  <2>1. old \in Configs
    BY <1>4, AgentTyped DEF ConfigFiles
  <2>2. BroughtUp(old) \in Interface /\ LinkFits(BroughtUp(old), old)
    BY <2>1, UpFits
  <2> QED
    BY <1>1, <1>4, <2>2, AgentTyped, RoundKeeps
<1> QED
  BY <1>2, <1>3, <1>4 DEF StartTunnel

\* All commands make a link fit the new file.
LEMMA ChangeFits ==
  ASSUME NEW old \in Configs, NEW new \in Configs, NEW link \in Interface,
         link.up, LinkFits(link, old)
  PROVE  LET commands == Transition(old, new)
             changed == After(link, Done(commands, Len(commands)), old, new)
         IN  changed \in Interface /\ LinkFits(changed, new)
<1> DEFINE commands == Transition(old, new)
           done == Done(commands, Len(commands))
<1>1. CASE old.plan = new.plan
  <2>0. commands = <<"sync">> /\ Len(commands) = 1 /\ commands[1] = "sync"
    BY <1>1 DEF Transition
  <2>1. done = {"sync"}
    <3> HIDE DEF commands
    <3> QED
      BY <2>0 DEF Done
  <2>2. "sync" \in done /\ \A c \in {"add address", "add route", "delete route", "delete address"} : c \notin done
    BY <2>1
  <2> HIDE DEF done
  <2> DEFINE changed == After(link, done, old, new)
  <2>3. /\ changed.up = link.up /\ changed.remote = new.remote /\ changed.own = new.own
        /\ changed.addresses = link.addresses /\ changed.routes = link.routes /\ changed \in Interface
    BY <2>2 DEF After, Interface, Configs
  <2> HIDE DEF changed
  <2>4. changed \in Interface /\ LinkFits(changed, new)
    BY <2>3, <1>1 DEF LinkFits
  <2> QED
    BY <2>4 DEF changed, done, commands
<1>2. CASE old.plan # new.plan
  <2>1. /\ Len(commands) = 5 /\ commands[1] = "sync" /\ commands[2] = "add address"
        /\ commands[3] = "add route" /\ commands[4] = "delete route" /\ commands[5] = "delete address"
    BY <1>2 DEF Transition
  <2>2. {"sync", "add address", "add route", "delete route", "delete address"} \subseteq done
    <3>1. \A i \in {1, 2, 3, 4, 5} : i \in 1..5
      OBVIOUS
    <3>2. \A i \in 1..Len(commands) : commands[i] \in done
      BY DEF Done
    <3> HIDE DEF commands, done
    <3> QED
      BY <2>1, <3>1, <3>2
  <2> HIDE DEF done
  <2> DEFINE changed == After(link, done, old, new)
  <2>3. changed = [link EXCEPT !.remote = new.remote, !.own = new.own,
                     !.addresses = (@ \union {new.plan}) \ {old.plan},
                     !.routes = (@ \union {new.plan}) \ {old.plan}]
    BY <2>2 DEF After, Interface
  <2>4. ({old.plan} \union {new.plan}) \ {old.plan} = {new.plan}
    BY <1>2
  <2> HIDE DEF changed
  <2>5. /\ changed.up = link.up /\ changed.remote = new.remote /\ changed.own = new.own
        /\ changed.addresses = {new.plan} /\ changed.routes = {new.plan} /\ changed \in Interface
    BY <2>3, <2>4 DEF Interface, LinkFits, Configs
  <2>6. changed \in Interface /\ LinkFits(changed, new)
    BY <2>5 DEF LinkFits
  <2> QED
    BY <2>6 DEF changed, done, commands
<1> QED
  BY <1>1, <1>2

\* Whichever commands were done, what is undone fits the old file.
LEMMA UndoneFits ==
  ASSUME NEW old \in Configs, NEW new \in Configs, NEW link \in Interface,
         link.up, LinkFits(link, old), NEW k \in 0..Len(Transition(old, new))
  PROVE  LET done == Done(Transition(old, new), k)
             undone == Undone(After(link, done, old, new), done, old, new)
         IN  undone \in Interface /\ LinkFits(undone, old)
<1> DEFINE done == Done(Transition(old, new), k)
           changed == After(link, done, old, new)
           undone == Undone(changed, done, old, new)
<1>1. old.plan = new.plan =>
        /\ "add address" \notin done /\ "add route" \notin done
        /\ "delete route" \notin done /\ "delete address" \notin done
  <2> SUFFICES ASSUME old.plan = new.plan
               PROVE  /\ "add address" \notin done /\ "add route" \notin done
                      /\ "delete route" \notin done /\ "delete address" \notin done
    OBVIOUS
  <2>1. Transition(old, new) = <<"sync">> /\ Len(<<"sync">>) = 1
    BY DEF Transition
  <2>2. \A i \in 1..k : i = 1 /\ Transition(old, new)[i] = "sync"
    BY <2>1
  <2> QED
    BY <2>2 DEF Done
<1> HIDE DEF done
<1> DEFINE only(command, plan) == IF command \in done THEN {plan} ELSE {}
           back(added, deleted) ==
             (((({old.plan} \union only(added, new.plan)) \ only(deleted, old.plan))
                \union only(deleted, old.plan)) \ only(added, new.plan))
<1>2. changed \in Interface
  BY DEF After, Interface, Configs
<1>3. /\ changed.up = link.up
      /\ changed.addresses = ({old.plan} \union only("add address", new.plan)) \ only("delete address", old.plan)
      /\ changed.routes = ({old.plan} \union only("add route", new.plan)) \ only("delete route", old.plan)
      /\ "sync" \notin done => changed.remote = old.remote /\ changed.own = old.own
  BY DEF After, Interface, LinkFits
<1> HIDE DEF changed
<1>4. undone \in Interface
  BY <1>2 DEF Undone, Interface, Configs
<1>5. /\ undone.up = link.up /\ undone.remote = old.remote /\ undone.own = old.own
      /\ undone.addresses = back("add address", "delete address")
      /\ undone.routes = back("add route", "delete route")
  BY <1>2, <1>3 DEF Undone, Interface
<1>6. back("add address", "delete address") = {old.plan} /\ back("add route", "delete route") = {old.plan}
  <2>1. CASE old.plan = new.plan
    BY <2>1, <1>1
  <2>2. ASSUME old.plan # new.plan, NEW added, NEW deleted PROVE back(added, deleted) = {old.plan}
    <3>1. CASE added \in done /\ deleted \in done
      BY <2>2, <3>1
    <3>2. CASE added \in done /\ deleted \notin done
      BY <2>2, <3>2
    <3>3. CASE added \notin done /\ deleted \in done
      BY <2>2, <3>3
    <3>4. CASE added \notin done /\ deleted \notin done
      BY <2>2, <3>4
    <3> QED
      BY <3>1, <3>2, <3>3, <3>4
  <2> QED
    BY <2>1, <2>2
<1> HIDE DEF undone, back
<1>7. undone \in Interface /\ LinkFits(undone, old)
  BY <1>4, <1>5, <1>6 DEF LinkFits
<1> QED
  BY <1>7 DEF undone, changed, done

LEMMA UpdateKeeps ==
  ASSUME TunnelInv, TunnelAssumption, NEW n \in Peers, UpdateInPlace(n)
  PROVE  TunnelInv'
<1> DEFINE old == agent[n].file
           new == Wanted(n)
           commands == Transition(old, new)
           changed(done) == After(agent[n].link, done, old, new)
<1>1. /\ BeginsRound(n) /\ peer[n].in /\ EdgeOnly /\ agent[n].link.up /\ old # new
      /\ \/ EndApplied(n, changed(Done(commands, Len(commands))))
         \/ /\ Trouble
            /\ \E k \in 0..Len(commands) :
                 EndTunnelRound(n, old, Undone(changed(Done(commands, k)), Done(commands, k), old, new), TRUE)
  BY DEF UpdateInPlace, BeginsRound
<1>2. new \in Configs /\ old \in ConfigFiles /\ agent[n].link \in Interface /\ LinkFits(agent[n].link, old)
  BY <1>1, WantedFile, AgentTyped
<1>3. old \in Configs
  BY <1>2 DEF ConfigFiles, NoConfig, LinkFits, Interface, Plans
<1> HIDE DEF old, new
<1>4. CASE EndApplied(n, changed(Done(commands, Len(commands))))
  <2>1. changed(Done(commands, Len(commands))) \in Interface
        /\ LinkFits(changed(Done(commands, Len(commands))), new)
    BY <1>1, <1>2, <1>3, ChangeFits
  <2> HIDE DEF changed, commands
  <2> QED
    BY <2>1, <1>1, <1>4, EndAppliedKeeps DEF new
<1>5. ASSUME NEW k \in 0..Len(commands), Trouble,
             EndTunnelRound(n, old, Undone(changed(Done(commands, k)), Done(commands, k), old, new), TRUE)
      PROVE  TunnelInv'
  <2> DEFINE undone == Undone(changed(Done(commands, k)), Done(commands, k), old, new)
  <2>1. undone \in Interface /\ LinkFits(undone, old)
    BY <1>1, <1>2, <1>3, UndoneFits
  <2>2. EndTunnelRound(n, old, undone, TRUE)
    BY <1>5
  <2> HIDE DEF undone
  <2> QED
    BY <2>1, <2>2, <1>1, <1>2, <1>5, RoundKeeps DEF old
<1> QED
  BY <1>1, <1>4, <1>5

LEMMA LossKeeps ==
  ASSUME TunnelInv, TunnelAssumption, NEW n \in Peers, NEW b \in Agents,
         agent' = [agent EXCEPT ![n] = b], UNCHANGED <<tunnel, peer, origin, changes>>,
         tunnelDraft' = tunnelDraft, test' = test, tests' = tests,
         troubles' \in 0..MaxTroubles,
         b.had = agent[n].had, b.report = NoStatus,
         \/ b.key = agent[n].key /\ b.file = agent[n].file /\ UNCHANGED troubles
         \/ b.key = agent[n].key /\ b.file = agent[n].file /\ Trouble
         \/ b.key = NoKey /\ (agent[n].key = NoKey \/ ~peer[n].in) /\ UNCHANGED troubles
         \/ b.key = NoKey /\ Trouble,
         (b.link = agent[n].link /\ b.file = agent[n].file) \/ ~b.link.up
  PROVE  TunnelInv'
<1>1. agent[n] \in Agents /\ agent \in [Peers -> Agents] /\ troubles \in Nat /\ troubles' \in Nat
      /\ changes \in Nat /\ peer[n] \in PeerRows
  BY DEF TunnelInv, TunnelTyped, TunnelAssumption
<1>2. agent' \in [Peers -> Agents] /\ agent'[n] = b /\ \A m \in Peers : m # n => agent'[m] = agent[m]
  BY <1>1
<1>3. TunnelTyped'
  BY <1>2 DEF TunnelInv, TunnelTyped
<1>4. troubles' >= troubles
  BY <1>1 DEF Trouble
<1>5. KeysCounted'
  <2>1. ASSUME NEW m \in Peers PROVE Counted(m)'
    <3>1. CASE m = n
      BY <3>1, <1>1, <1>2 DEF TunnelInv, KeysCounted, Counted, Own, Leaving, Agents, Keys, NoKey, Trouble
    <3>2. CASE m # n
      <4>1. Own(m)' = Own(m) /\ Leaving(m)' = Leaving(m)
        BY <3>2, <1>2 DEF Own, Leaving
      <4>2. Own(m) \in Nat /\ Leaving(m) \in Nat
        BY DEF Own, Leaving, TunnelInv, TunnelTyped, Agents, Keys
      <4> QED
        BY <4>1, <4>2, <3>2, <1>1, <1>2, <1>4 DEF TunnelInv, KeysCounted, Counted
    <3> QED
      BY <3>1, <3>2
  <2> QED
    BY <2>1, <1>1, <1>4 DEF KeysCounted, Counted, TunnelInv, TunnelTyped, Origins, Keys
<1>6. RevisionsKnown'
  <2>1. ASSUME NEW m \in Peers PROVE KnownOf(m)'
    <3>1. KnownOf(m) /\ peer'[m] = peer[m] /\ tunnel' = tunnel
      BY DEF TunnelInv, RevisionsKnown
    <3>2. CASE m # n
      BY <3>1, <3>2, <1>2 DEF KnownOf
    <3>3. NoStatus.revision <= tunnel.revision
      BY Numbers DEF NoStatus
    <3> QED
      BY <3>1, <3>2, <3>3, <1>2 DEF KnownOf
  <2> QED
    BY <2>1 DEF TunnelInv, RevisionsKnown
<1>7. LinksFit'
  BY <1>2 DEF TunnelInv, LinksFit, LinkFits
<1>8. ReportsTrue'
  <2>1. ASSUME NEW m \in Peers PROVE Truthful(m)'
    <3>1. Truthful(m) /\ peer'[m] = peer[m] /\ tunnel' = tunnel
      BY DEF TunnelInv, ReportsTrue
    <3>2. CASE m # n
      BY <3>1, <3>2, <1>2 DEF Truthful, Current
    <3>3. CASE m = n
      <4>1. b.key = NoKey \/ (b.key = agent[n].key /\ b.file = agent[n].file)
        OBVIOUS
      <4> QED BY <3>1, <3>3, <4>1, <1>2 DEF Truthful, Current
    <3> QED BY <3>2, <3>3
  <2> QED BY <2>1 DEF ReportsTrue
<1>9. AnswersTrue'
  BY DEF TunnelInv, AnswersTrue, Tells
<1> QED
  BY <1>3, <1>5, <1>6, <1>7, <1>8, <1>9 DEF TunnelInv

LEMMA BareTyped ==
  ASSUME NEW had \in Keys, TunnelAssumption
  PROVE  /\ Bare(had) \in Agents /\ Bare(had).had = had /\ Bare(had).key = NoKey
         /\ Bare(had).report = NoStatus /\ ~Bare(had).link.up
         /\ [Bare(had) EXCEPT !.settled = TRUE] \in Agents
         /\ [Bare(had) EXCEPT !.settled = TRUE].had = had /\ [Bare(had) EXCEPT !.settled = TRUE].key = NoKey
         /\ [Bare(had) EXCEPT !.settled = TRUE].report = NoStatus
         /\ ~[Bare(had) EXCEPT !.settled = TRUE].link.up
BY KeyFacts DEF Bare, Agents

LEMMA LoseKeeps ==
  ASSUME TunnelInv, TunnelAssumption, NEW n \in Peers, EdgeLosesState(n)
  PROVE  TunnelInv'
<1>1. /\ Trouble /\ EdgeOnly /\ agent[n] \in Agents /\ agent \in [Peers -> Agents]
      /\ troubles' \in 0..MaxTroubles
  BY DEF EdgeLosesState, TunnelInv, TunnelTyped, TunnelAssumption, Trouble
<1>2. CASE agent' = [agent EXCEPT ![n].link = Down, ![n].report = NoStatus, ![n].settled = FALSE]
  <2> DEFINE b == [agent[n] EXCEPT !.link = Down, !.report = NoStatus, !.settled = FALSE]
  <2>1. agent' = [agent EXCEPT ![n] = b]
    BY <1>1, <1>2
  <2>2. /\ b \in Agents /\ b.had = agent[n].had /\ b.key = agent[n].key /\ b.file = agent[n].file
        /\ b.link = Down /\ b.report = NoStatus
    BY <1>1, KeyFacts DEF Agents
  <2> HIDE DEF b
  <2> QED
    BY <2>1, <2>2, <1>1, AgentTyped, LossKeeps DEF EdgeOnly
<1>3. CASE agent' = [agent EXCEPT ![n] = Bare(@.had)]
  <2>1. agent' = [agent EXCEPT ![n] = Bare(agent[n].had)] /\ agent[n].had \in Keys
    BY <1>1, <1>3 DEF Agents
  <2> QED
    BY <2>1, <1>1, BareTyped, LossKeeps DEF EdgeOnly
<1> QED
  BY <1>2, <1>3 DEF EdgeLosesState

LEMMA RemoveKeeps ==
  ASSUME TunnelInv, TunnelAssumption, NEW n \in Peers, RemoveTunnel(n)
  PROVE  TunnelInv'
<1>1. /\ EdgeOnly /\ agent[n] \in Agents /\ agent \in [Peers -> Agents] /\ ~peer[n].in
      /\ agent[n].report = NoStatus /\ troubles \in 0..MaxTroubles
  BY DEF RemoveTunnel, TunnelInv, TunnelTyped
<1>2. CASE agent[n].managed /\ UNCHANGED troubles
           /\ agent' = [agent EXCEPT ![n] = [Bare(agent[n].had) EXCEPT !.settled = TRUE]]
  <2>1. agent[n].had \in Keys
    BY <1>1 DEF Agents
  <2> QED
    BY <2>1, <1>1, <1>2, BareTyped, LossKeeps DEF EdgeOnly
<1>3. CASE UNCHANGED troubles /\ agent' = [agent EXCEPT ![n] = [agent[n] EXCEPT !.settled = TRUE]]
  <2> DEFINE b == [agent[n] EXCEPT !.settled = TRUE]
  <2>1. /\ b \in Agents /\ b.had = agent[n].had /\ b.key = agent[n].key /\ b.file = agent[n].file
        /\ b.link = agent[n].link /\ b.report = NoStatus /\ agent' = [agent EXCEPT ![n] = b]
    BY <1>1, <1>3 DEF Agents
  <2> HIDE DEF b
  <2> QED
    BY <2>1, <1>1, <1>3, LossKeeps DEF EdgeOnly
<1>4. ASSUME Trouble, NEW link \in {agent[n].link, Down},
             agent' = [agent EXCEPT ![n] = [agent[n] EXCEPT !.link = link, !.managed = FALSE, !.settled = FALSE]]
      PROVE  TunnelInv'
  <2> DEFINE b == [agent[n] EXCEPT !.link = link, !.managed = FALSE, !.settled = FALSE]
  <2>1. /\ b \in Agents /\ b.had = agent[n].had /\ b.key = agent[n].key /\ b.file = agent[n].file
        /\ b.link = link /\ b.report = NoStatus /\ agent' = [agent EXCEPT ![n] = b]
    BY <1>1, <1>4, AgentTyped DEF Agents
  <2>2. troubles' \in 0..MaxTroubles
    BY <1>4 DEF Trouble, TunnelInv, TunnelTyped, TunnelAssumption
  <2> HIDE DEF b
  <2> QED
    BY <2>1, <2>2, <1>1, <1>4, AgentTyped, LossKeeps DEF EdgeOnly
<1>5. \/ UNCHANGED troubles /\ agent' = [agent EXCEPT ![n] = [(IF @.managed THEN Bare(@.had) ELSE @) EXCEPT !.settled = TRUE]]
      \/ /\ Trouble
         /\ \E link \in {agent[n].link, Down} :
              agent' = [agent EXCEPT ![n] = [agent[n] EXCEPT !.link = link, !.managed = FALSE, !.settled = FALSE]]
  BY <1>1 DEF RemoveTunnel
<1>6. CASE UNCHANGED troubles /\ agent' = [agent EXCEPT ![n] = [(IF @.managed THEN Bare(@.had) ELSE @) EXCEPT !.settled = TRUE]]
  BY <1>6, <1>1, <1>2, <1>3
<1> QED
  BY <1>4, <1>5, <1>6

LEMMA ReportKeeps ==
  ASSUME TunnelInv, TunnelAssumption, NEW n \in Peers, ReportStatus(n)
  PROVE  TunnelInv'
<1> DEFINE report == agent[n].report
           b(settled) == [agent[n] EXCEPT !.report = NoStatus, !.settled = settled]
<1>1. /\ agent[n] \in Agents /\ agent \in [Peers -> Agents] /\ report # NoStatus
      /\ report.key = agent[n].key /\ report.key # NoKey /\ report.revision <= tunnel.revision
      /\ report \in Statuses /\ peer[n] \in PeerRows /\ peer \in [Peers -> PeerRows]
      /\ troubles \in 0..MaxTroubles /\ tunnel \in TunnelRows
      /\ agent[n].key \in Keys /\ agent[n].key <= agent[n].had /\ agent[n].key = agent[n].had
  BY DEF ReportStatus, TunnelInv, TunnelTyped, RevisionsKnown, KnownOf, KeysCounted, Counted, Agents, NoKey, Keys
<1>2. ASSUME NEW s \in BOOLEAN
      PROVE  /\ b(s) \in Agents /\ b(s).had = agent[n].had /\ b(s).key = agent[n].key
             /\ b(s).file = agent[n].file /\ b(s).link = agent[n].link /\ b(s).report = NoStatus
  BY <1>1, <1>2, KeyFacts DEF Agents
<1>3. /\ UNCHANGED <<tunnelDraft, test, origin, changes, tests>>
      /\ \/ /\ peer[n].in /\ UNCHANGED troubles
            /\ tunnel' = TunnelOnReport(n, report)
            /\ peer' = [peer EXCEPT ![n] = [in |-> TRUE, key |-> report.key,
                                            applied |-> report.revision, error |-> report.error]]
            /\ agent' = [agent EXCEPT ![n] = b(~report.error)]
         \/ /\ UNCHANGED <<tunnel, peer>> /\ (UNCHANGED troubles \/ Trouble)
            /\ \E s \in BOOLEAN : agent' = [agent EXCEPT ![n] = b(s)]
  <2>1. agent[n].settled \in BOOLEAN /\ report.error \in BOOLEAN /\ peer[n].in \in BOOLEAN
    BY <1>1 DEF Agents, Statuses, PeerRows
  <2>2. ASSUME NEW s \in BOOLEAN, agent' = [agent EXCEPT ![n].report = NoStatus, ![n].settled = s]
        PROVE  agent' = [agent EXCEPT ![n] = b(s)]
    BY <1>1, <2>2
  <2>3. ASSUME agent' = [agent EXCEPT ![n].report = NoStatus]
        PROVE  agent' = [agent EXCEPT ![n] = b(agent[n].settled)]
    BY <1>1, <2>3 DEF Agents
  <2> HIDE DEF b
  <2> QED
    BY <2>1, <2>2, <2>3 DEF ReportStatus
<1> HIDE DEF b
<1>4. ASSUME UNCHANGED <<tunnel, peer>>, UNCHANGED troubles \/ Trouble, NEW s \in BOOLEAN,
             agent' = [agent EXCEPT ![n] = b(s)]
      PROVE  TunnelInv'
  <2>1. troubles' \in 0..MaxTroubles
    BY <1>4, <1>1 DEF Trouble, TunnelAssumption
  <2> QED
    BY <2>1, <1>2, <1>3, <1>4, LossKeeps
<1>5. ASSUME peer[n].in, UNCHANGED troubles, tunnel' = TunnelOnReport(n, report),
             peer' = [peer EXCEPT ![n] = [in |-> TRUE, key |-> report.key,
                                          applied |-> report.revision, error |-> report.error]],
             agent' = [agent EXCEPT ![n] = b(~report.error)]
      PROVE  TunnelInv'
  <2>1. /\ tunnel' \in TunnelRows /\ tunnel'.exists = tunnel.exists /\ tunnel'.plan = tunnel.plan
        /\ tunnel'.key = tunnel.key
        /\ \/ tunnel'.revision = tunnel.revision /\ peer[n].key = report.key
           \/ tunnel'.revision = tunnel.revision + 1
    BY <1>1, <1>5 DEF TunnelOnReport, TunnelRows
  <2>2. /\ peer' \in [Peers -> PeerRows] /\ peer'[n].in /\ peer'[n].key = report.key
        /\ peer'[n].applied = report.revision /\ peer'[n].error = report.error
        /\ \A m \in Peers : m # n => peer'[m] = peer[m]
    BY <1>1, <1>5 DEF PeerRows, Statuses
  <2>3. (~report.error) \in BOOLEAN
    OBVIOUS
  <2>4. /\ agent' \in [Peers -> Agents]
        /\ agent'[n].had = agent[n].had /\ agent'[n].key = agent[n].key
        /\ agent'[n].file = agent[n].file /\ agent'[n].link = agent[n].link
        /\ agent'[n].report = NoStatus
        /\ \A m \in Peers : m # n => agent'[m] = agent[m]
    BY <1>1, <1>2, <1>5, <2>3
  <2>5. TunnelTyped'
    BY <1>3, <1>5, <2>1, <2>2, <2>4 DEF TunnelInv, TunnelTyped
  <2>6. KeysCounted'
    BY <1>3, <1>5, <2>2, <2>4 DEF TunnelInv, KeysCounted, Counted, Own, Leaving
  <2>7. RevisionsKnown'
    <3>1. tunnel'.revision >= tunnel.revision /\ tunnel'.revision \in Nat /\ tunnel.revision \in Nat
      BY <2>1, TunnelRow DEF TunnelRows
    <3>2. ASSUME NEW m \in Peers PROVE KnownOf(m)'
      <4>1. KnownOf(m) /\ peer[m].applied \in Nat /\ agent[m].report.revision \in Nat
        BY Numbers DEF TunnelInv, RevisionsKnown
      <4>2. CASE m # n
        BY <4>1, <4>2, <3>1, <2>2, <2>4 DEF KnownOf
      <4>3. NoStatus.revision <= tunnel'.revision /\ report.revision \in Nat
        BY <3>1, <1>1 DEF NoStatus, Statuses
      <4> QED
        BY <4>1, <4>2, <4>3, <3>1, <1>1, <2>2, <2>4 DEF KnownOf
    <3>3. /\ origin' = origin /\ origin.runs.revision \in Nat /\ origin.answer.revision \in Nat
          /\ origin.runs.revision <= tunnel.revision /\ origin.answer.revision <= tunnel.revision
          /\ tunnel.revision >= 1
      BY <1>3, Numbers DEF TunnelInv, RevisionsKnown
    <3> QED
      BY <3>1, <3>2, <3>3 DEF RevisionsKnown
  <2>8. LinksFit'
    BY <2>4 DEF TunnelInv, LinksFit, LinkFits
  <2>9. ReportsTrue'
    <3>1. ASSUME NEW m \in Peers, m # n
          PROVE  Truthful(m)'
      <4>1. /\ tunnel.revision \in Nat /\ agent[m].report.revision <= tunnel.revision
            /\ peer[m].applied <= tunnel.revision
            /\ agent[m].report.revision \in Nat /\ peer[m].applied \in Nat
        BY <1>1 DEF TunnelInv, TunnelTyped, RevisionsKnown, KnownOf, TunnelRows, Agents, Statuses, PeerRows
      <4> QED
        BY <4>1, <3>1, <2>1, <2>2, <2>4 DEF TunnelInv, ReportsTrue, Truthful, Current
    <3>2. ASSUME peer'[n].applied = tunnel'.revision, ~peer'[n].error
          PROVE  agent'[n].file = Current(n)'
      <4>1. tunnel'.revision = tunnel.revision /\ report.revision = tunnel.revision
        BY <3>2, <1>1, <2>1, <2>2 DEF TunnelRows, Statuses
      <4> QED
        BY <4>1, <3>2, <1>1, <2>1, <2>2, <2>4 DEF TunnelInv, ReportsTrue, Truthful, Current
    <3> QED
      BY <3>1, <3>2, <2>4 DEF ReportsTrue, Truthful, Current, NoStatus, NoKey
  <2>10. ASSUME NEW answer \in Answers, Tells(answer), answer.revision <= tunnel.revision
         PROVE  tunnel'.exists /\ answer.revision = tunnel'.revision =>
                  /\ answer.plan = tunnel'.plan /\ origin'.key = tunnel'.key
                  /\ \A m \in Peers : answer.peers[m] = peer'[m].key
    BY <2>10, <1>1, <1>3, <2>1, <2>2 DEF Tells, Answers, TunnelRows
  <2>11. AnswersTrue'
    BY <2>10, <1>3 DEF TunnelInv, TunnelTyped, RevisionsKnown, KnownOf, AnswersTrue, Origins, Tells
  <2> QED
    BY <2>5, <2>6, <2>7, <2>8, <2>9, <2>11 DEF TunnelInv
<1> QED
  BY <1>3, <1>4, <1>5

-----------------------------------------------------------------------------
LEMMA TestsKeep ==
  ASSUME TunnelInv, TunnelAssumption, NEW n \in Peers, CreateTest(n) \/ ClaimTest(n) \/ FinishTest(n)
  PROVE  TunnelInv'
<1>1. test' \in [Peers -> TestStates]
  BY DEF TunnelInv, TunnelTyped, CreateTest, ClaimTest, FinishTest, TestStates
<1>2. tests' \in 0..MaxTests /\ troubles' \in 0..MaxTroubles /\ troubles' >= troubles
  BY DEF TunnelInv, TunnelTyped, CreateTest, ClaimTest, FinishTest, Trouble, TunnelAssumption
<1> QED
  BY <1>1, <1>2, RestKeeps DEF CreateTest, ClaimTest, FinishTest, TestOnly, TunnelInv, TunnelTyped

LEMMA TunnelStepKeeps ==
  ASSUME TunnelInv, TunnelAssumption, [TunnelNext]_tunnelVars
  PROVE  TunnelInv'
<1>1. CASE UNCHANGED tunnelVars
  BY <1>1, RestKeeps DEF tunnelVars, TunnelInv, TunnelTyped
<1>2. CASE TunnelNext
  BY <1>2, MembersKeep, DeleteKeeps, EditKeeps, AskKeeps, ConfigureKeeps, ApplyKeeps,
     OriginFailsKeeps, AwaitKeeps, KeepKeeps, StartKeeps, UpdateKeeps, RemoveKeeps, LoseKeeps,
     ReportKeeps, TestsKeep DEF TunnelNext, EdgeRound
<1> QED
  BY <1>1, <1>2

LEMMA TunnelStarts == ASSUME TunnelInit, TunnelAssumption PROVE TunnelInv
<1>1. /\ Bare(0) \in Agents /\ [Bare(0) EXCEPT !.settled = TRUE] \in Agents
      /\ NoConfig \in ConfigFiles /\ NoKey \in Keys /\ 1 \in Keys /\ NoStatus \in Statuses
  <2>1. 0 \in Keys /\ TunnelAssumption
    BY KeyFacts, TunnelAssumption DEF NoKey
  <2> QED
    BY <2>1, KeyFacts, BareTyped
<1> DEFINE a == [Bare(0) EXCEPT !.settled = TRUE]
<1>2. a.had = 0 /\ a.key = NoKey /\ a.link.up = FALSE /\ a.report = NoStatus /\ a \in Agents
  BY <1>1 DEF Bare, Down
<1> HIDE DEF a
<1>3. agent = [n \in Peers |-> a]
  BY DEF TunnelInit, a
<1>4. peer \in [Peers -> PeerRows] /\ \A n \in Peers : peer[n].key = NoKey /\ peer[n].applied = 0
  <2>1. NewPeer.key = NoKey /\ NewPeer.applied = 0 /\ NoPeer.key = NoKey /\ NoPeer.applied = 0
    BY DEF NewPeer, NoPeer
  <2> HIDE DEF a
  <2> QED
    BY <2>1, KeyFacts DEF TunnelInit
<1>5. /\ NotInstalled \in Answers /\ NotInstalled.revision = 0
      /\ origin \in Origins /\ origin.key = 1 /\ origin.runs = NotInstalled /\ origin.answer = NotInstalled
      /\ tunnel \in TunnelRows /\ tunnel.revision = 1
  BY KeyFacts DEF TunnelInit, NotInstalled, Origins, TunnelRows, Plans
<1>6. TunnelTyped
  <2>1. /\ changes \in 0..MaxChanges /\ tests \in 0..MaxTests /\ troubles \in 0..MaxTroubles
        /\ tunnelDraft \subseteq Peers /\ test \in [Peers -> TestStates]
    BY TunnelAssumption DEF TunnelInit, TestStates
  <2>2. agent \in [Peers -> Agents]
    BY <1>2, <1>3
  <2> QED
    BY <2>1, <2>2, <1>4, <1>5 DEF TunnelTyped
<1>7. KeysCounted /\ RevisionsKnown
  <2>1. changes = 0 /\ troubles = 0
    BY DEF TunnelInit
  <2>2. ASSUME NEW n \in Peers PROVE Counted(n) /\ KnownOf(n)
    <3>1. agent[n] = a /\ peer[n].key = 0 /\ peer[n].applied = 0 /\ NoKey = 0
      BY <1>3, <1>4 DEF NoKey
    <3>2. Own(n) = 1 /\ Leaving(n) = 0
      BY <3>1, <1>2 DEF Own, Leaving
    <3>3. a.report.revision = 0
      BY <1>2 DEF NoStatus
    <3> QED
      BY <2>1, <3>1, <3>2, <3>3, <1>2, <1>5 DEF Counted, KnownOf
  <2> QED
    BY <2>1, <2>2, <1>5 DEF KeysCounted, RevisionsKnown
<1>8. LinksFit /\ ReportsTrue /\ AnswersTrue
  BY <1>2, <1>3, <1>4, <1>5 DEF LinksFit, ReportsTrue, Truthful, AnswersTrue, Tells, NoKey, NoStatus
<1> QED
  BY <1>6, <1>7, <1>8 DEF TunnelInv

LEMMA TunnelInvAgrees == ASSUME TunnelInv PROVE TunnelAgrees
<1>1. TunnelTypeOK
  BY DEF TunnelInv, TunnelTyped, KeysCounted, Counted, TunnelTypeOK, TunnelRows, PeerRows, Agents, Origins,
     TestStates, Keys, NoKey
<1>2. ASSUME NEW n \in Peers, Ready(n), Installed, agent[n].key = peer[n].key, agent[n].link.up
      PROVE  /\ LinkFits(agent[n].link, [plan |-> origin.runs.plan, remote |-> origin.key,
                                         own |-> agent[n].key])
             /\ origin.runs.peers[n] = agent[n].key
  <2>1. agent[n].file = Current(n)
    BY <1>2 DEF TunnelInv, ReportsTrue, Truthful, Ready
  <2>2. origin.runs.plan = tunnel.plan /\ origin.key = tunnel.key /\ origin.runs.peers[n] = peer[n].key
    BY <1>2 DEF TunnelInv, AnswersTrue, Tells, Ready, Installed
  <2> QED
    BY <2>1, <2>2, <1>2 DEF TunnelInv, LinksFit, Current
<1> QED
  BY <1>1, <1>2 DEF TunnelAgrees, TunnelInv, LinksFit

\* A node that the controller calls ready and an origin that runs the tunnel's
\* revision know each other's keys and addresses, and whatever update has failed,
\* an interface that is up is the one of its file, for any number of peers,
\* changes, tests and troubles (docs/WIREGUARD_ORIGIN.md:45, :48).
THEOREM TunnelEndsAgree == TunnelSpec => []TunnelAgrees
<1>1. TunnelInv /\ [TunnelNext]_tunnelVars => TunnelInv'
  BY TunnelStepKeeps, TunnelAssumption
<1>2. TunnelInit => TunnelInv
  BY TunnelStarts, TunnelAssumption
<1> QED
  BY <1>1, <1>2, TunnelInvAgrees, PTL DEF TunnelSpec

-----------------------------------------------------------------------------
(* Bans of addresses *)

LogLines == [ip : Visitors, seen : 0..MaxClock]
Bans == [until : 0..MaxClock + BanTicks, pending : BOOLEAN]
RoundSteps == {"idle", "bans", "offset", "firewall", "flush", "drop", "rest", "clear", "pulled", "switch"}
GuardStates == [at : RoundSteps, offset : Nat, reading : Nat, queue : Seq(Event), refused : SUBSET Nat,
                bans : [Visitors -> Bans], revision : Timeouts \cup {NoRevision}, firewall : Timeouts,
                dirty : BOOLEAN, index : 0..BatchLimit, done : SUBSET Visitors,
                answer : Timeouts \cup {NoRevision}]
Centers == [bans : Timeouts, recorded : SUBSET Event, enabled : BOOLEAN]

BansTyped ==
  /\ matches \in [Guards -> Seq(LogLines)]
  /\ guards \in [Guards -> GuardStates]
  /\ center \in Centers
  /\ clock \in 0..MaxClock /\ orders \in 0..MaxOrders /\ outages \in 0..MaxOutages

\* What is queued was read from the log of the edge.
Collected(e) ==
  /\ guards[e].offset <= Len(matches[e]) /\ guards[e].reading <= Len(matches[e])
  /\ Len(matches[e]) <= MaxMatches
  /\ guards[e].refused \subseteq 1..guards[e].offset
  /\ \A n \in DOMAIN matches[e] : matches[e][n].seen <= clock
  /\ \A event \in QueuedEvents(e) :
       /\ event.edge = e /\ event.line \in DOMAIN matches[e]
       /\ event.ip = matches[e][event.line].ip /\ event.seen = matches[e][event.line].seen

\* Nothing is reported before the offset of its line is saved.
InOrder(e) ==
  /\ guards[e].at \in {"bans", "offset"} =>
       /\ guards[e].offset <= guards[e].reading
       /\ \A event \in QueuedEvents(e) : event.line <= guards[e].reading
  /\ guards[e].at \in {"firewall", "flush", "drop", "rest"} =>
       \A event \in QueuedEvents(e) : event.line <= guards[e].offset

\* The first line that is still to be collected follows this one.
Reach(e) == IF guards[e].at \in {"bans", "offset"} THEN guards[e].reading ELSE guards[e].offset

Kept(e) ==
  \A line \in 1..Reach(e) :
    line \in guards[e].refused \/ \E event \in QueuedEvents(e) \cup RecordedOf(e) : event.line = line

\* What a round does with the answer of the controller.
Answered(e) ==
  /\ At(e, "drop") => guards[e].index \in 1..Len(guards[e].queue)
  /\ At(e, "rest") => EventsIn(BatchOf(e)) \subseteq center.recorded
  /\ At(e, "clear") => \A v \in guards[e].done : \E event \in RecordedOf(e) : event.ip = v
  /\ At(e, "pulled") => guards[e].answer \in Timeouts

\* The lines up to this one have their bans in the saved state.
Persisted(e) == IF At(e, "offset") THEN guards[e].reading ELSE guards[e].offset

Untold(e, v) == \A other \in RecordedOf(e) : other.ip # v

Banned(e) ==
  \A event \in QueuedEvents(e) :
    /\ event.line <= Persisted(e) /\ event.seen + BanTicks > clock /\ Untold(e, event.ip)
    => /\ guards[e].bans[event.ip].pending
       /\ guards[e].bans[event.ip].until >= event.seen + BanTicks

Live(t) == IF t > clock THEN t ELSE 0

Follows(e) ==
  guards[e].at \in {"idle", "flush", "drop", "rest", "clear", "pulled"} /\ ~guards[e].dirty =>
    \A v \in Visitors : Live(guards[e].firewall[v]) = Live(guards[e].bans[v].until)

GuardHolds(e) == Collected(e) /\ InOrder(e) /\ Kept(e) /\ Answered(e) /\ Banned(e) /\ Follows(e)

\* The invariant that BansHold rests on: what a guard may report, forget and pull
\* depends on how far its round has come.
BansInv == BansTyped /\ \A e \in Guards : GuardHolds(e)

-----------------------------------------------------------------------------
LEMMA BanNumbers ==
  /\ BatchLimit \in Nat \ {0} /\ BanTicks \in Nat \ {0} /\ MaxMatches \in Nat /\ MaxClock \in Nat
  /\ MaxOrders \in Nat /\ MaxOutages \in Nat /\ Exposed \subseteq Guards
BY BanAssumption

LEMMA BanConstants ==
  /\ NoBan \in Bans /\ [v \in Visitors |-> NoBan] \in [Visitors -> Bans]
  /\ [v \in Visitors |-> 0] \in Timeouts
<1>1. 0 \in 0..MaxClock + BanTicks
  BY BanNumbers
<1> QED BY <1>1 DEF NoBan, Bans, Timeouts

LEMMA EventFacts ==
  ASSUME NEW event \in Event
  PROVE  /\ event.edge \in Guards /\ event.line \in Nat /\ event.line \in 1..MaxMatches
         /\ event.ip \in Visitors /\ event.seen \in Nat /\ event.seen <= MaxClock
BY BanNumbers DEF Event

LEMMA BansFacts ==
  ASSUME BansTyped
  PROVE  /\ clock \in Nat /\ clock <= MaxClock /\ MaxClock + BanTicks \in Nat
         /\ center.bans \in Timeouts /\ center.recorded \subseteq Event /\ center.enabled \in BOOLEAN
         /\ \A v \in Visitors : center.bans[v] \in 0..MaxClock + BanTicks /\ center.bans[v] \in Nat
<1>1. clock \in Nat /\ clock <= MaxClock /\ MaxClock + BanTicks \in Nat
  BY BanNumbers DEF BansTyped
<1>2. center.bans \in Timeouts /\ center.recorded \subseteq Event /\ center.enabled \in BOOLEAN
  BY DEF BansTyped, Centers
<1> QED BY <1>1, <1>2 DEF Timeouts

LEMMA GuardFacts ==
  ASSUME BansTyped, NEW e \in Guards
  PROVE  /\ matches[e] \in Seq(LogLines) /\ Len(matches[e]) \in Nat /\ DOMAIN matches[e] = 1..Len(matches[e])
         /\ guards[e] \in GuardStates
         /\ guards[e].at \in RoundSteps /\ guards[e].offset \in Nat /\ guards[e].reading \in Nat
         /\ guards[e].queue \in Seq(Event) /\ Len(guards[e].queue) \in Nat
         /\ DOMAIN guards[e].queue = 1..Len(guards[e].queue)
         /\ guards[e].refused \subseteq Nat
         /\ guards[e].bans \in [Visitors -> Bans] /\ guards[e].firewall \in Timeouts
         /\ guards[e].revision \in Timeouts \cup {NoRevision} /\ guards[e].dirty \in BOOLEAN
         /\ guards[e].index \in 0..BatchLimit /\ guards[e].done \subseteq Visitors
         /\ guards[e].answer \in Timeouts \cup {NoRevision}
<1>1. matches[e] \in Seq(LogLines) /\ guards[e] \in GuardStates
  BY DEF BansTyped
<1>2. /\ guards[e].at \in RoundSteps /\ guards[e].offset \in Nat /\ guards[e].reading \in Nat
      /\ guards[e].queue \in Seq(Event)
      /\ guards[e].refused \subseteq Nat
      /\ guards[e].bans \in [Visitors -> Bans] /\ guards[e].firewall \in Timeouts
      /\ guards[e].revision \in Timeouts \cup {NoRevision} /\ guards[e].dirty \in BOOLEAN
      /\ guards[e].index \in 0..BatchLimit /\ guards[e].done \subseteq Visitors
      /\ guards[e].answer \in Timeouts \cup {NoRevision}
  BY <1>1 DEF GuardStates
<1> QED BY <1>1, <1>2

LEMMA QueuedFacts ==
  ASSUME BansTyped, NEW e \in Guards
  PROVE  QueuedEvents(e) \subseteq Event /\ RecordedOf(e) \subseteq Event
<1>1. guards[e].queue \in Seq(Event) /\ center.recorded \subseteq Event
  BY GuardFacts, BansFacts
<1> QED BY <1>1 DEF QueuedEvents, EventsIn, RecordedOf

LEMMA BanFacts ==
  ASSUME NEW bans \in [Visitors -> Bans], NEW v \in Visitors
  PROVE  bans[v].until \in Nat /\ bans[v].until \in 0..MaxClock + BanTicks /\ bans[v].pending \in BOOLEAN
<1>1. bans[v] \in Bans
  OBVIOUS
<1> QED BY <1>1, BanNumbers DEF Bans

LEMMA TimeFacts ==
  ASSUME NEW times \in Timeouts, NEW v \in Visitors
  PROVE  times[v] \in Nat /\ times[v] \in 0..MaxClock + BanTicks
BY BanNumbers DEF Timeouts

\* What a guard that does nothing keeps.
LEMMA GuardRests ==
  ASSUME BansTyped, NEW d \in Guards, GuardHolds(d), guards'[d] = guards[d], matches'[d] = matches[d],
         clock' = clock, center.recorded \subseteq center'.recorded
  PROVE  GuardHolds(d)'
<1>1. RecordedOf(d) \subseteq RecordedOf(d)' /\ QueuedEvents(d)' = QueuedEvents(d) /\ BatchOf(d)' = BatchOf(d)
  BY DEF RecordedOf, QueuedEvents, BatchOf
<1>2. Collected(d)' /\ InOrder(d)'
  BY <1>1 DEF GuardHolds, Collected, InOrder
<1>3. Kept(d)'
  BY <1>1 DEF GuardHolds, Kept, Reach
<1>4. Answered(d)'
  BY <1>1 DEF GuardHolds, Answered, At
<1>5. Banned(d)'
  BY <1>1 DEF GuardHolds, Banned, Untold, Persisted, At
<1>6. Follows(d)'
  BY DEF GuardHolds, Follows, Live
<1> QED BY <1>2, <1>3, <1>4, <1>5, <1>6 DEF GuardHolds

\* A step of one guard: it is enough to look at this one.
LEMMA OneGuard ==
  ASSUME BansInv, NEW e \in Guards, NEW g \in GuardStates, Guard(e, g),
         matches' = matches, clock' = clock, orders' = orders, outages' \in 0..MaxOutages,
         center' \in Centers, center.recorded \subseteq center'.recorded,
         GuardHolds(e)'
  PROVE  BansInv'
<1>1. BansTyped'
  BY DEF BansInv, BansTyped, Guard
<1>2. ASSUME NEW d \in Guards, d # e PROVE GuardHolds(d)'
  <2>1. guards'[d] = guards[d]
    BY <1>2 DEF Guard, BansInv, BansTyped
  <2> QED BY <2>1, GuardRests DEF BansInv
<1> QED BY <1>1, <1>2 DEF BansInv

LEMMA ThisGuard ==
  ASSUME BansTyped, NEW e \in Guards, NEW g, Guard(e, g)
  PROVE  guards'[e] = g
BY DEF BansTyped, Guard

LEMMA OutageCounts ==
  ASSUME BansTyped, Outage
  PROVE  outages' \in 0..MaxOutages
BY BanNumbers DEF BansTyped, Outage

\* A step that takes nothing from the queue and reads nothing of the log.
LEMMA SameQueue ==
  ASSUME BansInv, NEW e \in Guards, NEW h \in GuardStates, guards'[e] = h,
         h.queue = guards[e].queue, h.offset = guards[e].offset, h.refused = guards[e].refused,
         h.reading \in {0, guards[e].reading},
         matches' = matches, clock' = clock, center.recorded \subseteq center'.recorded,
         h.at \in {"bans", "offset"} => guards[e].at \in {"bans", "offset"} /\ h.reading = guards[e].reading,
         h.at \in {"firewall", "flush", "drop", "rest"} =>
           guards[e].at \in {"firewall", "flush", "drop", "rest"} \/ ~Unread(e)
  PROVE  /\ QueuedEvents(e)' = QueuedEvents(e) /\ RecordedOf(e) \subseteq RecordedOf(e)'
         /\ Collected(e)' /\ InOrder(e)' /\ Kept(e)'
<1>1. RecordedOf(e) \subseteq RecordedOf(e)' /\ QueuedEvents(e)' = QueuedEvents(e)
  BY DEF RecordedOf, QueuedEvents
<1>2. BansTyped /\ Collected(e) /\ InOrder(e) /\ Kept(e)
  BY DEF BansInv, GuardHolds
<1>3. /\ Len(matches[e]) \in Nat /\ DOMAIN matches[e] = 1..Len(matches[e])
      /\ guards[e].offset \in Nat /\ guards[e].reading \in Nat
  BY <1>2, GuardFacts
<1>4. Collected(e)'
  BY <1>1, <1>2, <1>3 DEF Collected
<1>5. InOrder(e)'
  <2>1. ~Unread(e) => \A event \in QueuedEvents(e) : event.line <= guards[e].offset
    BY <1>2, <1>3 DEF Unread, Collected
  <2> QED BY <1>1, <1>2, <2>1 DEF InOrder
<1>6. Kept(e)'
  <2>1. Reach(e) \in Nat /\ Reach(e)' \in Nat /\ Reach(e)' <= Reach(e)
    BY <1>2, <1>3 DEF Reach, InOrder
  <2>2. \A line \in 1..Reach(e)' : line \in 1..Reach(e)
    BY <2>1
  <2> QED BY <1>1, <1>2, <2>2 DEF Kept
<1> QED BY <1>1, <1>4, <1>5, <1>6

\* Such a step, when it leaves the bans alone too.
LEMMA SameBans ==
  ASSUME BansInv, NEW e \in Guards, NEW h \in GuardStates, guards'[e] = h,
         QueuedEvents(e)' = QueuedEvents(e), RecordedOf(e) \subseteq RecordedOf(e)', clock' = clock,
         h.bans = guards[e].bans, h.offset = guards[e].offset,
         h.at = "offset" => guards[e].at = "offset" /\ h.reading = guards[e].reading
  PROVE  Banned(e)'
<1>1. BansTyped /\ Banned(e) /\ InOrder(e)
  BY DEF BansInv, GuardHolds
<1>2. guards[e].offset \in Nat /\ guards[e].reading \in Nat
  BY <1>1, GuardFacts
<1>3. Persisted(e) \in Nat /\ Persisted(e)' \in Nat /\ Persisted(e)' <= Persisted(e)
  BY <1>1, <1>2 DEF Persisted, At, InOrder
<1>4. ASSUME NEW event \in QueuedEvents(e), event.line <= Persisted(e)', Untold(e, event.ip)'
      PROVE  event.line <= Persisted(e) /\ Untold(e, event.ip)
  <2>1. event.line \in Nat
    BY <1>1, QueuedFacts, EventFacts
  <2> QED BY <1>3, <1>4, <2>1 DEF Untold
<1> QED BY <1>1, <1>4 DEF Banned

-----------------------------------------------------------------------------
(* Reports *)

LEMMA FleetType ==
  ASSUME BansTyped
  PROVE  Fleet \in Timeouts
<1>1. ASSUME NEW v \in Visitors
      PROVE  (IF center.bans[v] > clock THEN center.bans[v] ELSE 0) \in 0..MaxClock + BanTicks
  BY BansFacts
<1> QED BY <1>1 DEF Fleet, Timeouts

\* A set of numbers has a first one.
LEMMA FirstNumber ==
  ASSUME NEW S, S \subseteq Nat, S # {}
  PROVE  \E i \in S : \A j \in S : i <= j
<1> DEFINE less == OpToRel(<, Nat)
<1> HIDE DEF less
<1>1. PICK i \in S : \A j \in S : <<j, i>> \notin less
  <2>1. IsWellFoundedOn(less, Nat)
    BY NatLessThanWellFounded DEF less
  <2> QED BY <2>1, WFMin
<1>2. \A j \in S : ~(j < i)
  BY <1>1 DEF OpToRel, less
<1> QED BY <1>2

\* A bounded set of numbers has a last one.
LEMMA LastNumber ==
  ASSUME NEW bound \in Nat, NEW S, S \subseteq 0..bound, S # {}
  PROVE  \E x \in S : \A y \in S : y <= x
<1> DEFINE gap == {bound - x : x \in S}
<1>1. \A x \in S : x \in Nat /\ x <= bound /\ bound - x \in Nat
  OBVIOUS
<1>2. gap \subseteq Nat /\ gap # {}
  BY <1>1
<1> HIDE DEF gap
<1>3. PICK g \in gap : \A h \in gap : g <= h
  BY <1>2, FirstNumber
<1> USE DEF gap
<1>4. PICK x \in S : g = bound - x
  BY <1>3
<1>5. ASSUME NEW y \in S PROVE y <= x
  <2>1. bound - x <= bound - y
    BY <1>3, <1>4
  <2> QED BY <1>1, <2>1
<1> QED BY <1>5

\* A report is the front of the queue.
LEMMA BatchFacts ==
  ASSUME BansTyped, NEW e \in Guards
  PROVE  /\ BatchOf(e) \in Seq(Event) /\ Len(BatchOf(e)) \in Nat
         /\ Len(BatchOf(e)) <= Len(guards[e].queue) /\ Len(BatchOf(e)) <= BatchLimit
         /\ DOMAIN BatchOf(e) = 1..Len(BatchOf(e))
         /\ \A i \in 1..Len(BatchOf(e)) : BatchOf(e)[i] = guards[e].queue[i]
         /\ EventsIn(BatchOf(e)) \subseteq QueuedEvents(e)
<1> DEFINE queue == guards[e].queue
           n == IF BatchLimit < Len(queue) THEN BatchLimit ELSE Len(queue)
<1>1. queue \in Seq(Event) /\ Len(queue) \in Nat /\ DOMAIN queue = 1..Len(queue) /\ BatchLimit \in Nat
  BY GuardFacts, BanNumbers
<1>2. n \in Nat /\ n <= Len(queue) /\ n <= BatchLimit
  BY <1>1
<1>3. BatchOf(e) = SubSeq(queue, 1, n)
  BY DEF BatchOf
<1> HIDE DEF n, queue
<1>4. \A i \in 1..n : queue[i] \in Event
  BY <1>1, <1>2
<1>5. /\ BatchOf(e) \in Seq(Event) /\ Len(BatchOf(e)) = n
      /\ \A i \in 1..n : BatchOf(e)[i] = queue[i]
  BY <1>2, <1>3, <1>4, SubSeqProperties
<1>6. DOMAIN BatchOf(e) = 1..n
  BY <1>5
<1>7. EventsIn(BatchOf(e)) \subseteq QueuedEvents(e)
  BY <1>1, <1>2, <1>5, <1>6 DEF EventsIn, QueuedEvents, queue
<1> QED BY <1>2, <1>5, <1>6, <1>7 DEF queue

LEMMA InvalidType ==
  ASSUME BansTyped, NEW e \in Guards, \E i \in DOMAIN BatchOf(e) : ~Valid(BatchOf(e)[i])
  PROVE  /\ FirstInvalid(BatchOf(e)) \in 1..Len(guards[e].queue)
         /\ FirstInvalid(BatchOf(e)) \in 0..BatchLimit
<1> DEFINE batch == BatchOf(e)
           bad == {i \in DOMAIN batch : ~Valid(batch[i])}
<1>1. /\ DOMAIN batch = 1..Len(batch) /\ Len(batch) \in Nat /\ Len(batch) <= Len(guards[e].queue)
      /\ Len(batch) <= BatchLimit /\ BatchLimit \in Nat /\ Len(guards[e].queue) \in Nat
  BY BatchFacts, BanNumbers, GuardFacts
<1>2. bad \subseteq Nat /\ bad # {}
  BY <1>1
<1>3. PICK i \in bad : \A j \in bad : i <= j
  BY <1>2, FirstNumber
<1>4. i \in DOMAIN batch /\ ~Valid(batch[i]) /\ \A j \in 1..i - 1 : Valid(batch[j])
  <2>1. ASSUME NEW j \in 1..i - 1 PROVE Valid(batch[j])
    BY <1>1, <1>2, <1>3
  <2> QED BY <1>3, <2>1
<1>5. FirstInvalid(batch) \in DOMAIN batch
  BY <1>4 DEF FirstInvalid
<1> QED BY <1>1, <1>5

LEMMA RecordType ==
  ASSUME BansTyped, NEW e \in Guards, RecordSecurityEvents(BatchOf(e))
  PROVE  /\ center' \in Centers /\ center.recorded \subseteq center'.recorded
         /\ EventsIn(BatchOf(e)) \subseteq center'.recorded
<1> DEFINE batch == BatchOf(e)
<1>1. EventsIn(batch) \subseteq Event
  BY BatchFacts, QueuedFacts
<1>2. ASSUME NEW v \in Visitors PROVE BanEnd(v, batch) \in 0..MaxClock + BanTicks
  <2> DEFINE new == {event \in EventsIn(batch) : event.ip = v /\ ~Known(event)}
             ends == {event.seen + BanTicks : event \in new}
             after == {t \in ends : t > clock} \cup {center.bans[v]}
  <2>1. \A event \in new : event.seen + BanTicks \in 0..MaxClock + BanTicks
    BY <1>1, EventFacts, BanNumbers
  <2>2. after \subseteq 0..MaxClock + BanTicks /\ after # {}
    BY <2>1, BansFacts
  <2>3. BanEnd(v, batch) = CHOOSE t \in after : \A u \in after : u <= t
    BY DEF BanEnd
  <2> HIDE DEF after
  <2>4. \E t \in after : \A u \in after : u <= t
    BY <2>2, BansFacts, LastNumber
  <2> QED BY <2>2, <2>3, <2>4
<1>3. [v \in Visitors |-> BanEnd(v, batch)] \in Timeouts
  BY <1>2 DEF Timeouts
<1> DEFINE bans == [v \in Visitors |-> BanEnd(v, batch)]
<1>4. center' = [center EXCEPT !.recorded = @ \cup EventsIn(batch), !.bans = bans]
  BY DEF RecordSecurityEvents
<1> HIDE DEF bans, batch
<1>5. center \in Centers
  BY DEF BansTyped
<1>6. bans \in Timeouts
  BY <1>3 DEF bans
<1>7. center' \in Centers /\ center'.recorded = center.recorded \cup EventsIn(batch)
  BY <1>1, <1>4, <1>5, <1>6 DEF Centers
<1> QED BY <1>7 DEF batch

LEMMA RetryFirewallKeeps ==
  ASSUME BansInv, NEW e \in Guards, RetryFirewall(e)
  PROVE  BansInv'
<1>1. BansTyped /\ GuardHolds(e) /\ guards[e] \in GuardStates
  BY GuardFacts DEF BansInv
<1> DEFINE h == [guards[e] EXCEPT !.at = "firewall"]
<1>2. /\ h \in GuardStates /\ h.queue = guards[e].queue /\ h.offset = guards[e].offset
      /\ h.refused = guards[e].refused /\ h.bans = guards[e].bans
      /\ h.at = "firewall" /\ h.reading = guards[e].reading
  BY <1>1 DEF GuardStates, RoundSteps
<1>3. Guard(e, h) /\ guards'[e] = h
  BY <1>1, ThisGuard DEF RetryFirewall
<1> HIDE DEF h
<1>4. /\ matches' = matches /\ clock' = clock /\ orders' = orders /\ outages' \in 0..MaxOutages
      /\ center' \in Centers /\ center.recorded \subseteq center'.recorded
      /\ ~Unread(e)
  BY <1>1, OutageCounts DEF RetryFirewall, GuardOnly, BansTyped
<1>5. /\ QueuedEvents(e)' = QueuedEvents(e) /\ RecordedOf(e) \subseteq RecordedOf(e)'
      /\ Collected(e)' /\ InOrder(e)' /\ Kept(e)'
  BY <1>2, <1>3, <1>4, SameQueue
<1>6. Banned(e)'
  BY <1>2, <1>3, <1>4, <1>5, SameBans
<1>7. Answered(e)'
  BY <1>1, <1>2, <1>3, <1>4, <1>5 DEF Answered, GuardHolds, At
<1>8. Follows(e)'
  BY <1>1, <1>2, <1>3, <1>4 DEF Follows, GuardHolds, Live
<1> QED BY <1>2, <1>3, <1>4, <1>5, <1>6, <1>7, <1>8, OneGuard DEF GuardHolds

LEMMA FirewallFailsKeeps ==
  ASSUME BansInv, NEW e \in Guards, FirewallFails(e)
  PROVE  BansInv'
<1>1. BansTyped /\ GuardHolds(e) /\ guards[e] \in GuardStates
  BY GuardFacts DEF BansInv
<1> DEFINE h == [guards[e] EXCEPT !.at = "idle", !.dirty = TRUE]
<1>2. /\ h \in GuardStates /\ h.queue = guards[e].queue /\ h.offset = guards[e].offset
      /\ h.refused = guards[e].refused /\ h.bans = guards[e].bans
      /\ h.at = "idle" /\ h.reading = guards[e].reading /\ h.dirty
  BY <1>1 DEF GuardStates, RoundSteps
<1>3. Guard(e, h) /\ guards'[e] = h
  BY <1>1, ThisGuard DEF FirewallFails
<1> HIDE DEF h
<1>4. /\ matches' = matches /\ clock' = clock /\ orders' = orders /\ outages' \in 0..MaxOutages
      /\ center' \in Centers /\ center.recorded \subseteq center'.recorded
  BY <1>1, OutageCounts DEF FirewallFails, GuardOnly, BansTyped
<1>5. /\ QueuedEvents(e)' = QueuedEvents(e) /\ RecordedOf(e) \subseteq RecordedOf(e)'
      /\ Collected(e)' /\ InOrder(e)' /\ Kept(e)'
  BY <1>2, <1>3, <1>4, SameQueue
<1>6. Banned(e)'
  BY <1>2, <1>3, <1>4, <1>5, SameBans
<1>7. Answered(e)'
  BY <1>1, <1>2, <1>3, <1>4, <1>5 DEF Answered, GuardHolds, At
<1>8. Follows(e)'
  BY <1>1, <1>2, <1>3, <1>4 DEF Follows, GuardHolds, Live
<1> QED BY <1>2, <1>3, <1>4, <1>5, <1>6, <1>7, <1>8, OneGuard DEF GuardHolds

LEMMA PullKeeps ==
  ASSUME BansInv, NEW e \in Guards, Pull(e)
  PROVE  BansInv'
<1>1. BansTyped /\ GuardHolds(e) /\ guards[e] \in GuardStates
  BY GuardFacts DEF BansInv
<1> DEFINE h == [guards[e] EXCEPT !.at = "pulled", !.answer = Fleet]
<1>2. /\ h \in GuardStates /\ h.queue = guards[e].queue /\ h.offset = guards[e].offset
      /\ h.refused = guards[e].refused /\ h.bans = guards[e].bans
      /\ h.at = "pulled" /\ h.reading = guards[e].reading /\ h.dirty = guards[e].dirty
      /\ h.firewall = guards[e].firewall /\ h.answer = Fleet /\ Fleet \in Timeouts
  BY <1>1, FleetType DEF GuardStates, RoundSteps
<1>3. Guard(e, h) /\ guards'[e] = h
  BY <1>1, ThisGuard DEF Pull
<1> HIDE DEF h
<1>4. /\ matches' = matches /\ clock' = clock /\ orders' = orders /\ outages' \in 0..MaxOutages
      /\ center' \in Centers /\ center.recorded \subseteq center'.recorded
      /\ guards[e].at = "idle"
  BY <1>1, OutageCounts DEF Pull, GuardOnly, BansTyped, At
<1>5. /\ QueuedEvents(e)' = QueuedEvents(e) /\ RecordedOf(e) \subseteq RecordedOf(e)'
      /\ Collected(e)' /\ InOrder(e)' /\ Kept(e)'
  BY <1>2, <1>3, <1>4, SameQueue
<1>6. Banned(e)'
  BY <1>2, <1>3, <1>4, <1>5, SameBans
<1>7. Answered(e)'
  BY <1>1, <1>2, <1>3, <1>4, <1>5 DEF Answered, GuardHolds, At
<1>8. Follows(e)'
  BY <1>1, <1>2, <1>3, <1>4 DEF Follows, GuardHolds, Live
<1> QED BY <1>2, <1>3, <1>4, <1>5, <1>6, <1>7, <1>8, OneGuard DEF GuardHolds

LEMMA NotModifiedKeeps ==
  ASSUME BansInv, NEW e \in Guards, NotModified(e)
  PROVE  BansInv'
<1>1. BansTyped /\ GuardHolds(e) /\ guards[e] \in GuardStates
  BY GuardFacts DEF BansInv
<1> DEFINE h == [guards[e] EXCEPT !.at = IF guards[e].dirty THEN "switch" ELSE "idle", !.answer = NoRevision]
<1>2. /\ h \in GuardStates /\ h.queue = guards[e].queue /\ h.offset = guards[e].offset
      /\ h.refused = guards[e].refused /\ h.bans = guards[e].bans
      /\ h.at = (IF guards[e].dirty THEN "switch" ELSE "idle") /\ h.reading = guards[e].reading
      /\ h.dirty = guards[e].dirty /\ h.firewall = guards[e].firewall
  BY <1>1 DEF GuardStates, RoundSteps
<1>3. Guard(e, h) /\ guards'[e] = h
  BY <1>1, ThisGuard DEF NotModified
<1> HIDE DEF h
<1>4. /\ matches' = matches /\ clock' = clock /\ orders' = orders /\ outages' \in 0..MaxOutages
      /\ center' \in Centers /\ center.recorded \subseteq center'.recorded
      /\ guards[e].at = "pulled"
  BY <1>1, OutageCounts DEF NotModified, GuardOnly, BansTyped, At
<1>5. /\ QueuedEvents(e)' = QueuedEvents(e) /\ RecordedOf(e) \subseteq RecordedOf(e)'
      /\ Collected(e)' /\ InOrder(e)' /\ Kept(e)'
  BY <1>2, <1>3, <1>4, SameQueue
<1>6. Banned(e)'
  BY <1>2, <1>3, <1>4, <1>5, SameBans
<1>7. Answered(e)'
  BY <1>1, <1>2, <1>3, <1>4, <1>5 DEF Answered, GuardHolds, At
<1>8. Follows(e)'
  BY <1>1, <1>2, <1>3, <1>4 DEF Follows, GuardHolds, Live
<1> QED BY <1>2, <1>3, <1>4, <1>5, <1>6, <1>7, <1>8, OneGuard DEF GuardHolds

LEMMA ReportRefusedKeeps ==
  ASSUME BansInv, NEW e \in Guards, ReportRefused(e)
  PROVE  BansInv'
<1>1. BansTyped /\ GuardHolds(e) /\ guards[e] \in GuardStates
  BY GuardFacts DEF BansInv
<1>a. FirstInvalid(BatchOf(e)) \in 1..Len(guards[e].queue) /\ FirstInvalid(BatchOf(e)) \in 0..BatchLimit
  BY <1>1, InvalidType DEF ReportRefused
<1> DEFINE h == [guards[e] EXCEPT !.at = "drop", !.index = FirstInvalid(BatchOf(e))]
<1>2. /\ h \in GuardStates /\ h.queue = guards[e].queue /\ h.offset = guards[e].offset
      /\ h.refused = guards[e].refused /\ h.bans = guards[e].bans
      /\ h.at = "drop" /\ h.reading = guards[e].reading /\ h.dirty = guards[e].dirty
      /\ h.firewall = guards[e].firewall /\ h.index \in 1..Len(h.queue)
  BY <1>1, <1>a DEF GuardStates, RoundSteps
<1>3. Guard(e, h) /\ guards'[e] = h
  BY <1>1, ThisGuard DEF ReportRefused
<1> HIDE DEF h
<1>4. /\ matches' = matches /\ clock' = clock /\ orders' = orders /\ outages' \in 0..MaxOutages
      /\ center' \in Centers /\ center.recorded \subseteq center'.recorded
      /\ guards[e].at = "flush" \/ (guards[e].at = "idle" /\ ~Unread(e) /\ ~guards[e].dirty)
  BY <1>1, OutageCounts DEF ReportRefused, GuardOnly, BansTyped, HasReport, At
<1>5. /\ QueuedEvents(e)' = QueuedEvents(e) /\ RecordedOf(e) \subseteq RecordedOf(e)'
      /\ Collected(e)' /\ InOrder(e)' /\ Kept(e)'
  BY <1>2, <1>3, <1>4, SameQueue
<1>6. Banned(e)'
  BY <1>2, <1>3, <1>4, <1>5, SameBans
<1>7. Answered(e)'
  BY <1>1, <1>2, <1>3, <1>4, <1>5 DEF Answered, GuardHolds, At
<1>8. Follows(e)'
  BY <1>1, <1>2, <1>3, <1>4 DEF Follows, GuardHolds, Live
<1> QED BY <1>2, <1>3, <1>4, <1>5, <1>6, <1>7, <1>8, OneGuard DEF GuardHolds

LEMMA KillGuardKeeps ==
  ASSUME BansInv, NEW e \in Guards, KillGuard(e)
  PROVE  BansInv'
<1>1. BansTyped /\ GuardHolds(e) /\ guards[e] \in GuardStates
  BY GuardFacts DEF BansInv
<1>a. PICK firewall \in {guards[e].firewall, IdleGuard.firewall} :
        Guard(e, [guards[e] EXCEPT !.at = "switch", !.reading = 0, !.dirty = FALSE, !.index = 0, !.done = {},
                                   !.answer = NoRevision, !.firewall = firewall])
  BY DEF KillGuard
<1>b. firewall \in Timeouts /\ 0 \in 0..BatchLimit
  BY <1>1, GuardFacts, BanConstants, BanNumbers DEF IdleGuard
<1> DEFINE h == [guards[e] EXCEPT !.at = "switch", !.reading = 0, !.dirty = FALSE, !.index = 0, !.done = {},
                                  !.answer = NoRevision, !.firewall = firewall]
<1>2. /\ h \in GuardStates /\ h.queue = guards[e].queue /\ h.offset = guards[e].offset
      /\ h.refused = guards[e].refused /\ h.bans = guards[e].bans
      /\ h.at = "switch" /\ h.reading = 0
  BY <1>1, <1>b DEF GuardStates, RoundSteps
<1>3. Guard(e, h) /\ guards'[e] = h
  BY <1>1, ThisGuard, <1>a DEF KillGuard
<1> HIDE DEF h
<1>4. /\ matches' = matches /\ clock' = clock /\ orders' = orders /\ outages' \in 0..MaxOutages
      /\ center' \in Centers /\ center.recorded \subseteq center'.recorded
  BY <1>1, OutageCounts DEF KillGuard, GuardOnly, BansTyped
<1>5. /\ QueuedEvents(e)' = QueuedEvents(e) /\ RecordedOf(e) \subseteq RecordedOf(e)'
      /\ Collected(e)' /\ InOrder(e)' /\ Kept(e)'
  BY <1>2, <1>3, <1>4, SameQueue
<1>6. Banned(e)'
  BY <1>2, <1>3, <1>4, <1>5, SameBans
<1>7. Answered(e)'
  BY <1>1, <1>2, <1>3, <1>4, <1>5 DEF Answered, GuardHolds, At
<1>8. Follows(e)'
  BY <1>1, <1>2, <1>3, <1>4 DEF Follows, GuardHolds, Live
<1> QED BY <1>2, <1>3, <1>4, <1>5, <1>6, <1>7, <1>8, OneGuard DEF GuardHolds

LEMMA ReportAcceptedKeeps ==
  ASSUME BansInv, NEW e \in Guards, ReportAccepted(e)
  PROVE  BansInv'
<1>1. BansTyped /\ GuardHolds(e) /\ guards[e] \in GuardStates
  BY GuardFacts DEF BansInv
<1> DEFINE h == [guards[e] EXCEPT !.at = "rest"]
<1>2. /\ h \in GuardStates /\ h.queue = guards[e].queue /\ h.offset = guards[e].offset
      /\ h.refused = guards[e].refused /\ h.bans = guards[e].bans
      /\ h.at = "rest" /\ h.reading = guards[e].reading /\ h.dirty = guards[e].dirty
      /\ h.firewall = guards[e].firewall
  BY <1>1 DEF GuardStates, RoundSteps
<1>3. Guard(e, h) /\ guards'[e] = h
  BY <1>1, ThisGuard DEF ReportAccepted
<1> HIDE DEF h
<1>4. /\ matches' = matches /\ clock' = clock /\ orders' = orders /\ outages' \in 0..MaxOutages
      /\ center' \in Centers /\ center.recorded \subseteq center'.recorded
      /\ guards[e].at = "flush" \/ (guards[e].at = "idle" /\ ~Unread(e) /\ ~guards[e].dirty)
      /\ EventsIn(BatchOf(e)) \subseteq center'.recorded
  BY <1>1, OutageCounts, RecordType DEF ReportAccepted, GuardOnly, BansTyped, HasReport, At
<1>5. /\ QueuedEvents(e)' = QueuedEvents(e) /\ RecordedOf(e) \subseteq RecordedOf(e)'
      /\ Collected(e)' /\ InOrder(e)' /\ Kept(e)'
  BY <1>2, <1>3, <1>4, SameQueue
<1>6. Banned(e)'
  BY <1>2, <1>3, <1>4, <1>5, SameBans
<1>7. Answered(e)'
  BY <1>1, <1>2, <1>3, <1>4, <1>5 DEF Answered, GuardHolds, At, BatchOf
<1>8. Follows(e)'
  BY <1>1, <1>2, <1>3, <1>4 DEF Follows, GuardHolds, Live
<1> QED BY <1>2, <1>3, <1>4, <1>5, <1>6, <1>7, <1>8, OneGuard DEF GuardHolds

LEMMA ReportLostKeeps ==
  ASSUME BansInv, NEW e \in Guards, ReportLost(e)
  PROVE  BansInv'
<1>1. BansTyped /\ GuardHolds(e) /\ guards[e] \in GuardStates
  BY GuardFacts DEF BansInv
<1> DEFINE h == [guards[e] EXCEPT !.at = "idle"]
<1>2. /\ h \in GuardStates /\ h.queue = guards[e].queue /\ h.offset = guards[e].offset
      /\ h.refused = guards[e].refused /\ h.bans = guards[e].bans
      /\ h.at = "idle" /\ h.reading = guards[e].reading /\ h.dirty = guards[e].dirty
      /\ h.firewall = guards[e].firewall
  BY <1>1 DEF GuardStates, RoundSteps
<1>3. Guard(e, h) /\ guards'[e] = h
  BY <1>1, ThisGuard DEF ReportLost
<1> HIDE DEF h
<1>4. /\ matches' = matches /\ clock' = clock /\ orders' = orders /\ outages' \in 0..MaxOutages
      /\ center' \in Centers /\ center.recorded \subseteq center'.recorded
      /\ guards[e].at = "flush" \/ (guards[e].at = "idle" /\ ~guards[e].dirty)
  BY <1>1, OutageCounts, RecordType DEF ReportLost, GuardOnly, BansTyped, HasReport, At
<1>5. /\ QueuedEvents(e)' = QueuedEvents(e) /\ RecordedOf(e) \subseteq RecordedOf(e)'
      /\ Collected(e)' /\ InOrder(e)' /\ Kept(e)'
  BY <1>2, <1>3, <1>4, SameQueue
<1>6. Banned(e)'
  BY <1>2, <1>3, <1>4, <1>5, SameBans
<1>7. Answered(e)'
  BY <1>1, <1>2, <1>3, <1>4, <1>5 DEF Answered, GuardHolds, At
<1>8. Follows(e)'
  BY <1>1, <1>2, <1>3, <1>4 DEF Follows, GuardHolds, Live
<1> QED BY <1>2, <1>3, <1>4, <1>5, <1>6, <1>7, <1>8, OneGuard DEF GuardHolds

-----------------------------------------------------------------------------
(* The bans of an edge *)

LEMMA PersistLocalBansKeeps ==
  ASSUME BansInv, NEW e \in Guards, PersistLocalBans(e)
  PROVE  BansInv'
<1>1. BansTyped /\ GuardHolds(e) /\ guards[e] \in GuardStates /\ guards[e].at = "bans"
  BY GuardFacts DEF BansInv, PersistLocalBans, At
<1> DEFINE ips == {matches[e][n].ip : n \in guards[e].offset + 1..guards[e].reading}
           bans == WithBans(e, ips)
           h == [guards[e] EXCEPT !.at = "offset", !.bans = bans]
<1>2. /\ clock \in Nat /\ clock <= MaxClock /\ guards[e].bans \in [Visitors -> Bans]
      /\ guards[e].offset \in Nat /\ guards[e].reading \in Nat
  BY <1>1, BansFacts, GuardFacts
<1>3. /\ bans \in [Visitors -> Bans]
      /\ \A v \in ips \cap Visitors : bans[v].pending /\ bans[v].until >= clock + BanTicks
      /\ \A v \in Visitors \ ips : guards[e].bans[v].until > clock => bans[v] = guards[e].bans[v]
  <2>0. bans = [v \in Visitors |->
                 IF v \in ips
                 THEN [until |-> Later(clock + BanTicks, guards[e].bans[v].until), pending |-> TRUE]
                 ELSE Active(guards[e].bans)[v]]
    BY DEF WithBans
  <2>1. ASSUME NEW v \in Visitors, v \in ips
        PROVE  bans[v] \in Bans /\ bans[v].pending /\ bans[v].until >= clock + BanTicks
    <3> DEFINE t == Later(clock + BanTicks, guards[e].bans[v].until)
    <3>1. t \in 0..MaxClock + BanTicks /\ t >= clock + BanTicks
      BY <1>2, BanFacts, BanNumbers DEF Later
    <3>2. bans[v] = [until |-> t, pending |-> TRUE]
      BY <2>0, <2>1
    <3> HIDE DEF t, bans
    <3> QED BY <3>1, <3>2 DEF Bans
  <2>2. ASSUME NEW v \in Visitors, v \notin ips
        PROVE  /\ bans[v] \in Bans
               /\ guards[e].bans[v].until > clock => bans[v] = guards[e].bans[v]
    <3>1. bans[v] = IF guards[e].bans[v].until > clock THEN guards[e].bans[v] ELSE NoBan
      BY <2>0, <2>2 DEF Active
    <3> HIDE DEF bans
    <3> QED BY <1>2, <3>1, BanConstants
  <2>3. bans = [v \in Visitors |-> bans[v]]
    BY <2>0
  <2> HIDE DEF bans, ips
  <2> QED BY <2>1, <2>2, <2>3
<1>4. Guard(e, h)
  BY DEF PersistLocalBans
<1> HIDE DEF bans, ips
<1>5. /\ h \in GuardStates /\ h.queue = guards[e].queue /\ h.offset = guards[e].offset
      /\ h.refused = guards[e].refused /\ h.bans = bans /\ h.at = "offset" /\ h.reading = guards[e].reading
  BY <1>1, <1>3 DEF GuardStates, RoundSteps
<1>6. guards'[e] = h
  BY <1>1, <1>4, ThisGuard
<1> HIDE DEF h
<1>7. /\ matches' = matches /\ clock' = clock /\ orders' = orders /\ outages' \in 0..MaxOutages
      /\ center' \in Centers /\ center.recorded \subseteq center'.recorded
  BY <1>1 DEF PersistLocalBans, GuardOnly, BansTyped
<1>8. /\ QueuedEvents(e)' = QueuedEvents(e) /\ RecordedOf(e) \subseteq RecordedOf(e)'
      /\ Collected(e)' /\ InOrder(e)' /\ Kept(e)'
  BY <1>1, <1>5, <1>6, <1>7, SameQueue
<1>9. Banned(e)'
  <2>1. Persisted(e) = guards[e].offset /\ Persisted(e)' = guards[e].reading
    BY <1>1, <1>5, <1>6 DEF Persisted, At
  <2>2. ASSUME NEW event \in QueuedEvents(e), event.line <= guards[e].reading,
               event.seen + BanTicks > clock, Untold(e, event.ip)'
        PROVE  bans[event.ip].pending /\ bans[event.ip].until >= event.seen + BanTicks
    <3>1. /\ event.line \in Nat /\ event.ip \in Visitors /\ event.seen \in Nat /\ BanTicks \in Nat
          /\ event.line \in DOMAIN matches[e] /\ event.ip = matches[e][event.line].ip
          /\ event.seen = matches[e][event.line].seen /\ event.seen <= clock
      BY <1>1, QueuedFacts, EventFacts, BanNumbers DEF GuardHolds, Collected
    <3>2. CASE event.ip \in ips
      <4>1. bans[event.ip].until \in Nat
        BY <1>3, <3>1, BanFacts
      <4> QED BY <1>2, <1>3, <3>1, <3>2, <4>1
    <3>3. CASE event.ip \notin ips
      <4>1. event.line <= guards[e].offset
        BY <1>2, <2>2, <3>1, <3>3 DEF ips
      <4>2. Untold(e, event.ip)
        BY <1>8, <2>2 DEF Untold
      <4>3. /\ guards[e].bans[event.ip].pending /\ guards[e].bans[event.ip].until >= event.seen + BanTicks
            /\ guards[e].bans[event.ip].until \in Nat
        BY <1>1, <1>2, <2>1, <2>2, <3>1, <4>1, <4>2, BanFacts DEF GuardHolds, Banned
      <4>4. /\ clock \in Nat /\ event.seen \in Nat /\ BanTicks \in Nat
            /\ event.seen + BanTicks > clock
        BY <1>2, <2>2, <3>1
      <4>5. guards[e].bans[event.ip].until > clock
        BY <4>3, <4>4
      <4> QED BY <1>3, <3>1, <3>3, <4>3, <4>5
    <3> QED BY <3>2, <3>3
  <2> QED BY <1>5, <1>6, <1>7, <1>8, <2>1, <2>2 DEF Banned
<1>10. Answered(e)' /\ Follows(e)'
  BY <1>5, <1>6 DEF Answered, Follows, At
<1> QED BY <1>4, <1>5, <1>7, <1>8, <1>9, <1>10, OneGuard DEF GuardHolds

LEMMA ReplaceFirewallKeeps ==
  ASSUME BansInv, NEW e \in Guards, ReplaceFirewall(e)
  PROVE  BansInv'
<1>1. BansTyped /\ GuardHolds(e) /\ guards[e] \in GuardStates /\ guards[e].at \in {"firewall", "switch"}
  BY GuardFacts DEF BansInv, ReplaceFirewall
<1> DEFINE firewall == Enforced(guards[e].bans)
           step == IF At(e, "firewall") /\ guards[e].queue # << >> THEN "flush" ELSE "idle"
           h == [guards[e] EXCEPT !.firewall = firewall, !.dirty = FALSE, !.at = step]
<1>2. clock \in Nat /\ guards[e].bans \in [Visitors -> Bans]
  BY <1>1, BansFacts, GuardFacts
<1>3. /\ firewall \in Timeouts
      /\ \A v \in Visitors : Live(firewall[v]) = Live(guards[e].bans[v].until)
  <2>1. ASSUME NEW v \in Visitors
        PROVE  /\ firewall[v] \in 0..MaxClock + BanTicks
               /\ Live(firewall[v]) = Live(guards[e].bans[v].until)
    <3>1. firewall[v] = IF guards[e].bans[v].until > clock THEN guards[e].bans[v].until ELSE 0
      BY DEF Enforced, Active, NoBan
    <3>2. guards[e].bans[v].until \in Nat /\ guards[e].bans[v].until \in 0..MaxClock + BanTicks
      BY <1>2, BanFacts
    <3> HIDE DEF firewall
    <3> QED BY <1>2, <3>1, <3>2, BanNumbers DEF Live
  <2>2. firewall = [v \in Visitors |-> firewall[v]]
    BY DEF Enforced
  <2> HIDE DEF firewall
  <2> QED BY <2>1, <2>2 DEF Timeouts
<1>4. Guard(e, h)
  BY DEF ReplaceFirewall
<1>5. step \in {"flush", "idle"} /\ (step = "flush" => guards[e].at = "firewall")
  BY DEF At
<1> HIDE DEF firewall, step
<1>6. /\ h \in GuardStates /\ h.queue = guards[e].queue /\ h.offset = guards[e].offset
      /\ h.refused = guards[e].refused /\ h.bans = guards[e].bans /\ h.at = step
      /\ h.reading = guards[e].reading /\ h.firewall = firewall
  BY <1>1, <1>3, <1>5 DEF GuardStates, RoundSteps
<1>7. guards'[e] = h
  BY <1>1, <1>4, ThisGuard
<1> HIDE DEF h
<1>8. /\ matches' = matches /\ clock' = clock /\ orders' = orders /\ outages' \in 0..MaxOutages
      /\ center' \in Centers /\ center.recorded \subseteq center'.recorded
  BY <1>1 DEF ReplaceFirewall, GuardOnly, BansTyped
<1>9. /\ QueuedEvents(e)' = QueuedEvents(e) /\ RecordedOf(e) \subseteq RecordedOf(e)'
      /\ Collected(e)' /\ InOrder(e)' /\ Kept(e)'
  BY <1>1, <1>5, <1>6, <1>7, <1>8, SameQueue
<1>10. Banned(e)'
  BY <1>5, <1>6, <1>7, <1>8, <1>9, SameBans
<1>11. Answered(e)' /\ Follows(e)'
  BY <1>3, <1>5, <1>6, <1>7, <1>8 DEF Answered, Follows, Live, At
<1> QED BY <1>4, <1>6, <1>8, <1>9, <1>10, <1>11, OneGuard DEF GuardHolds

LEMMA ClearPendingKeeps ==
  ASSUME BansInv, NEW e \in Guards, ClearPending(e)
  PROVE  BansInv'
<1>1. BansTyped /\ GuardHolds(e) /\ guards[e] \in GuardStates /\ guards[e].at = "clear"
  BY GuardFacts DEF BansInv, ClearPending, At
<1> DEFINE bans == [v \in Visitors |-> [guards[e].bans[v] EXCEPT !.pending = @ /\ v \notin guards[e].done]]
           h == [guards[e] EXCEPT !.at = "idle", !.done = {}, !.bans = bans]
<1>2. clock \in Nat /\ guards[e].bans \in [Visitors -> Bans]
  BY <1>1, BansFacts, GuardFacts
<1>3. /\ bans \in [Visitors -> Bans]
      /\ \A v \in Visitors : /\ bans[v].until = guards[e].bans[v].until
                             /\ guards[e].bans[v].pending /\ v \notin guards[e].done => bans[v].pending
  <2>1. ASSUME NEW v \in Visitors
        PROVE  /\ bans[v] \in Bans /\ bans[v].until = guards[e].bans[v].until
               /\ guards[e].bans[v].pending /\ v \notin guards[e].done => bans[v].pending
    <3> DEFINE kept == guards[e].bans[v].pending /\ v \notin guards[e].done
    <3>1. guards[e].bans[v] \in Bans
      BY <1>2
    <3>2. bans[v] = [guards[e].bans[v] EXCEPT !.pending = kept]
      OBVIOUS
    <3> HIDE DEF bans
    <3> QED BY <3>1, <3>2 DEF Bans
  <2>2. bans = [v \in Visitors |-> bans[v]]
    OBVIOUS
  <2> HIDE DEF bans
  <2> QED BY <2>1, <2>2
<1>4. Guard(e, h)
  BY DEF ClearPending
<1> HIDE DEF bans
<1>5. /\ h \in GuardStates /\ h.queue = guards[e].queue /\ h.offset = guards[e].offset
      /\ h.refused = guards[e].refused /\ h.bans = bans /\ h.at = "idle"
      /\ h.reading = guards[e].reading /\ h.firewall = guards[e].firewall /\ h.dirty = guards[e].dirty
  BY <1>1, <1>3 DEF GuardStates, RoundSteps
<1>6. guards'[e] = h
  BY <1>1, <1>4, ThisGuard
<1> HIDE DEF h
<1>7. /\ matches' = matches /\ clock' = clock /\ orders' = orders /\ outages' \in 0..MaxOutages
      /\ center' = center /\ center' \in Centers /\ center.recorded \subseteq center'.recorded
  BY <1>1 DEF ClearPending, GuardOnly, BansTyped
<1>8. /\ QueuedEvents(e)' = QueuedEvents(e) /\ RecordedOf(e) \subseteq RecordedOf(e)'
      /\ Collected(e)' /\ InOrder(e)' /\ Kept(e)'
  BY <1>1, <1>5, <1>6, <1>7, SameQueue
<1>9. Banned(e)'
  <2>1. Persisted(e) = guards[e].offset /\ Persisted(e)' = guards[e].offset
    BY <1>1, <1>5, <1>6 DEF Persisted, At
  <2>2. ASSUME NEW event \in QueuedEvents(e), event.line <= guards[e].offset,
               event.seen + BanTicks > clock, Untold(e, event.ip)'
        PROVE  bans[event.ip].pending /\ bans[event.ip].until >= event.seen + BanTicks
    <3>1. event.ip \in Visitors
      BY <1>1, QueuedFacts, EventFacts
    <3>2. Untold(e, event.ip)
      BY <1>8, <2>2 DEF Untold
    <3>3. event.ip \notin guards[e].done
      BY <1>1, <3>2 DEF GuardHolds, Answered, Untold, At
    <3> QED BY <1>1, <1>3, <2>1, <2>2, <3>1, <3>2, <3>3 DEF GuardHolds, Banned
  <2> QED BY <1>5, <1>6, <1>7, <1>8, <2>1, <2>2 DEF Banned
<1>10. Answered(e)' /\ Follows(e)'
  BY <1>1, <1>3, <1>5, <1>6, <1>7 DEF Answered, Follows, Live, At, GuardHolds
<1> QED BY <1>4, <1>5, <1>7, <1>8, <1>9, <1>10, OneGuard DEF GuardHolds

LEMMA SaveRemoteBansKeeps ==
  ASSUME BansInv, NEW e \in Guards, SaveRemoteBans(e)
  PROVE  BansInv'
<1>1. BansTyped /\ GuardHolds(e) /\ guards[e] \in GuardStates /\ guards[e].at = "pulled"
  BY GuardFacts DEF BansInv, SaveRemoteBans, At
<1>a. guards[e].answer \in Timeouts
  BY <1>1 DEF GuardHolds, Answered, At
<1> DEFINE bans == Pulled(e, guards[e].answer)
           h == [guards[e] EXCEPT !.at = "switch", !.answer = NoRevision,
                                  !.bans = bans, !.revision = guards[e].answer]
<1>2. clock \in Nat /\ guards[e].bans \in [Visitors -> Bans]
  BY <1>1, BansFacts, GuardFacts
<1>3. /\ bans \in [Visitors -> Bans]
      /\ \A v \in Visitors : guards[e].bans[v].until > clock /\ guards[e].bans[v].pending
                               => bans[v] = guards[e].bans[v]
  <2>1. ASSUME NEW v \in Visitors
        PROVE  /\ bans[v] \in Bans
               /\ guards[e].bans[v].until > clock /\ guards[e].bans[v].pending => bans[v] = guards[e].bans[v]
    <3> DEFINE kept == Active(guards[e].bans)[v].pending
               t == guards[e].answer[v]
    <3>1. bans[v] = IF kept THEN guards[e].bans[v]
                    ELSE IF t > clock THEN [until |-> t, pending |-> FALSE] ELSE NoBan
      BY DEF Pulled
    <3>2. guards[e].bans[v].until > clock /\ guards[e].bans[v].pending => kept
      BY DEF Active
    <3>3. t \in 0..MaxClock + BanTicks
      BY <1>a, TimeFacts
    <3>4. [until |-> t, pending |-> FALSE] \in Bans
      BY <3>3 DEF Bans
    <3> HIDE DEF bans, kept, t
    <3> QED BY <1>2, <3>1, <3>2, <3>4, BanConstants
  <2>2. bans = [v \in Visitors |-> bans[v]]
    BY DEF Pulled
  <2> HIDE DEF bans
  <2> QED BY <2>1, <2>2
<1>4. Guard(e, h)
  BY DEF SaveRemoteBans
<1> HIDE DEF bans
<1>5. /\ h \in GuardStates /\ h.queue = guards[e].queue /\ h.offset = guards[e].offset
      /\ h.refused = guards[e].refused /\ h.bans = bans /\ h.at = "switch" /\ h.reading = guards[e].reading
  BY <1>1, <1>3, <1>a DEF GuardStates, RoundSteps
<1>6. guards'[e] = h
  BY <1>1, <1>4, ThisGuard
<1> HIDE DEF h
<1>7. /\ matches' = matches /\ clock' = clock /\ orders' = orders /\ outages' \in 0..MaxOutages
      /\ center' \in Centers /\ center.recorded \subseteq center'.recorded
  BY <1>1 DEF SaveRemoteBans, GuardOnly, BansTyped
<1>8. /\ QueuedEvents(e)' = QueuedEvents(e) /\ RecordedOf(e) \subseteq RecordedOf(e)'
      /\ Collected(e)' /\ InOrder(e)' /\ Kept(e)'
  BY <1>1, <1>5, <1>6, <1>7, SameQueue
<1>9. Banned(e)'
  <2>1. Persisted(e) = guards[e].offset /\ Persisted(e)' = guards[e].offset
    BY <1>1, <1>5, <1>6 DEF Persisted, At
  <2>2. ASSUME NEW event \in QueuedEvents(e), event.line <= guards[e].offset,
               event.seen + BanTicks > clock, Untold(e, event.ip)'
        PROVE  bans[event.ip].pending /\ bans[event.ip].until >= event.seen + BanTicks
    <3>1. event.ip \in Visitors /\ event.seen \in Nat /\ BanTicks \in Nat
      BY <1>1, QueuedFacts, EventFacts, BanNumbers
    <3>2. Untold(e, event.ip)
      BY <1>8, <2>2 DEF Untold
    <3>3. /\ guards[e].bans[event.ip].pending /\ guards[e].bans[event.ip].until >= event.seen + BanTicks
          /\ guards[e].bans[event.ip].until \in Nat
      BY <1>1, <1>2, <2>1, <2>2, <3>1, <3>2, BanFacts DEF GuardHolds, Banned
    <3>4. guards[e].bans[event.ip].until > clock
      BY <1>2, <2>2, <3>1, <3>3
    <3> QED BY <1>3, <3>1, <3>3, <3>4
  <2> QED BY <1>5, <1>6, <1>7, <1>8, <2>1, <2>2 DEF Banned
<1>10. Answered(e)' /\ Follows(e)'
  BY <1>5, <1>6 DEF Answered, Follows, At
<1> QED BY <1>4, <1>5, <1>7, <1>8, <1>9, <1>10, OneGuard DEF GuardHolds

-----------------------------------------------------------------------------
(* The log and the queue *)

LEMMA CollectEventsKeeps ==
  ASSUME BansInv, NEW e \in Guards, CollectEvents(e)
  PROVE  BansInv'
<1>1. BansTyped /\ GuardHolds(e) /\ guards[e] \in GuardStates /\ guards[e].at = "idle"
  BY GuardFacts DEF BansInv, CollectEvents, At
<1> DEFINE from == guards[e].offset
           read == Len(matches[e])
           old == guards[e].queue
           new == [k \in 1..read - from |->
                     [edge |-> e, line |-> from + k, take |-> outages,
                      ip |-> matches[e][from + k].ip, seen |-> matches[e][from + k].seen]]
           queue == old \o new
           h == [guards[e] EXCEPT !.at = "bans", !.reading = read, !.queue = queue]
<1>2. /\ from \in Nat /\ read \in Nat /\ from < read /\ read <= MaxMatches /\ old \in Seq(Event)
      /\ matches[e] \in Seq(LogLines) /\ DOMAIN matches[e] = 1..read /\ outages \in 0..MaxOutages
  BY <1>1, GuardFacts DEF CollectEvents, Unread, GuardHolds, Collected, BansTyped
<1>3. /\ new \in Seq(Event) /\ Len(new) = read - from
      /\ \A k \in 1..read - from : /\ new[k].edge = e /\ new[k].line = from + k
                                   /\ new[k].ip = matches[e][from + k].ip
                                   /\ new[k].seen = matches[e][from + k].seen
  <2>1. ASSUME NEW k \in 1..read - from
        PROVE  new[k] \in Event
    <3>1. from + k \in 1..read /\ from + k \in 1..MaxMatches
      BY <1>2, BanNumbers
    <3>2. matches[e][from + k] \in LogLines
      BY <1>2, <3>1
    <3> QED BY <1>2, <3>1, <3>2 DEF Event, LogLines
  <2>2. read - from \in Nat
    BY <1>2
  <2>3. new \in Seq(Event) /\ Len(new) = read - from
    BY <2>1, <2>2, IsASeq
  <2> QED BY <2>3
<1>4. Guard(e, h)
  BY DEF CollectEvents
<1> HIDE DEF new, from, read, old
<1>5. queue \in Seq(Event) /\ EventsIn(queue) = EventsIn(old) \cup EventsIn(new)
  <2>0. old \in Seq(Event) /\ new \in Seq(Event)
    BY <1>2, <1>3
  <2>1. queue \in Seq(Event) /\ Len(queue) = Len(old) + Len(new)
    BY <2>0, ConcatProperties
  <2>2. /\ \A i \in 1..Len(old) : queue[i] = old[i]
        /\ \A i \in 1..Len(new) : queue[Len(old) + i] = new[i]
    BY <2>0
  <2>3. /\ Len(old) \in Nat /\ Len(new) \in Nat /\ DOMAIN old = 1..Len(old) /\ DOMAIN new = 1..Len(new)
        /\ DOMAIN queue = 1..Len(queue)
    BY <2>0, <2>1
  <2> HIDE DEF queue
  <2>4. \A i \in 1..Len(queue) : queue[i] \in EventsIn(old) \cup EventsIn(new)
    <3> TAKE i \in 1..Len(queue)
    <3>1. CASE i <= Len(old)
      <4>1. i \in 1..Len(old)
        BY <2>1, <2>3, <3>1
      <4> QED BY <2>2, <2>3, <4>1 DEF EventsIn
    <3>2. CASE ~(i <= Len(old))
      <4>1. i - Len(old) \in 1..Len(new) /\ i = Len(old) + (i - Len(old))
        BY <2>1, <2>3, <3>2
      <4>2. queue[i] = new[i - Len(old)]
        BY <2>2, <4>1
      <4> QED BY <2>3, <4>1, <4>2 DEF EventsIn
    <3> QED BY <3>1, <3>2
  <2>5. \A i \in 1..Len(old) : old[i] \in EventsIn(queue)
    BY <2>1, <2>2, <2>3 DEF EventsIn
  <2>6. \A i \in 1..Len(new) : new[i] \in EventsIn(queue)
    <3> TAKE i \in 1..Len(new)
    <3>1. Len(old) + i \in 1..Len(queue)
      BY <2>1, <2>3
    <3> QED BY <2>2, <2>3, <3>1 DEF EventsIn
  <2> QED BY <2>1, <2>3, <2>4, <2>5, <2>6 DEF EventsIn
<1> HIDE DEF queue
<1>6. /\ h \in GuardStates /\ h.queue = queue /\ h.offset = from /\ h.reading = read /\ h.at = "bans"
      /\ h.refused = guards[e].refused /\ h.bans = guards[e].bans
  BY <1>1, <1>2, <1>5 DEF GuardStates, RoundSteps, from
<1>7. guards'[e] = h
  BY <1>1, <1>4, ThisGuard
<1> HIDE DEF h
<1>8. /\ matches' = matches /\ clock' = clock /\ orders' = orders /\ outages' \in 0..MaxOutages
      /\ center' = center /\ center' \in Centers /\ center.recorded \subseteq center'.recorded
  BY <1>1 DEF CollectEvents, GuardOnly, BansTyped
<1>9. RecordedOf(e)' = RecordedOf(e) /\ QueuedEvents(e)' = QueuedEvents(e) \cup EventsIn(new)
  BY <1>5, <1>6, <1>7, <1>8 DEF RecordedOf, QueuedEvents, old
<1>10. \A event \in EventsIn(new) :
         /\ event.edge = e /\ event.line \in Nat /\ event.line > from /\ event.line <= read
         /\ event.line \in DOMAIN matches[e]
         /\ event.ip = matches[e][event.line].ip /\ event.seen = matches[e][event.line].seen
  <2> TAKE event \in EventsIn(new)
  <2>1. PICK k \in 1..read - from : event = new[k]
    BY <1>3 DEF EventsIn
  <2>2. from + k \in Nat /\ from + k > from /\ from + k <= read /\ from + k \in 1..read
    BY <1>2
  <2>3. /\ event.edge = e /\ event.line = from + k
        /\ event.ip = matches[e][from + k].ip /\ event.seen = matches[e][from + k].seen
    BY <1>3, <2>1
  <2> QED BY <1>2, <2>2, <2>3
<1>11. Collected(e)'
  BY <1>1, <1>2, <1>6, <1>7, <1>8, <1>9, <1>10 DEF GuardHolds, Collected, read, from
<1>12. InOrder(e)'
  <2>1. \A event \in QueuedEvents(e) : event.line <= read
    BY <1>1, <1>2 DEF GuardHolds, Collected
  <2> QED BY <1>2, <1>6, <1>7, <1>9, <1>10, <2>1 DEF InOrder
<1>13. Kept(e)'
  <2>1. Reach(e) = from /\ Reach(e)' = read
    BY <1>1, <1>6, <1>7 DEF Reach, from
  <2>2. ASSUME NEW line \in 1..read, line > from
        PROVE  \E event \in EventsIn(new) : event.line = line
    <3>1. line - from \in 1..read - from /\ line = from + (line - from)
      BY <1>2, <2>2
    <3>2. new[line - from] \in EventsIn(new) /\ new[line - from].line = line
      BY <1>2, <1>3, <3>1 DEF EventsIn
    <3> QED BY <3>2
  <2>3. \A line \in 1..read : line > from \/ line \in 1..from
    BY <1>2
  <2> QED BY <1>1, <1>6, <1>7, <1>9, <2>1, <2>2, <2>3 DEF GuardHolds, Kept
<1>14. Banned(e)'
  <2>1. Persisted(e) = from /\ Persisted(e)' = from
    BY <1>1, <1>6, <1>7 DEF Persisted, At, from
  <2>2. \A event \in EventsIn(new) : ~(event.line <= from)
    BY <1>2, <1>10
  <2> QED BY <1>1, <1>6, <1>7, <1>8, <1>9, <2>1, <2>2 DEF GuardHolds, Banned, Untold
<1>15. Answered(e)' /\ Follows(e)'
  BY <1>6, <1>7 DEF Answered, Follows, At
<1> QED BY <1>4, <1>6, <1>8, <1>11, <1>12, <1>13, <1>14, <1>15, OneGuard DEF GuardHolds

LEMMA SaveLogOffsetKeeps ==
  ASSUME BansInv, NEW e \in Guards, SaveLogOffset(e)
  PROVE  BansInv'
<1>1. BansTyped /\ GuardHolds(e) /\ guards[e] \in GuardStates /\ guards[e].at = "offset"
  BY GuardFacts DEF BansInv, SaveLogOffset, At
<1> DEFINE h == [guards[e] EXCEPT !.at = "firewall", !.offset = guards[e].reading, !.reading = 0]
<1>2. /\ guards[e].offset \in Nat /\ guards[e].reading \in Nat /\ guards[e].offset <= guards[e].reading
      /\ Len(matches[e]) \in Nat /\ 0 \in Nat
  BY <1>1, GuardFacts DEF GuardHolds, InOrder
<1>3. Guard(e, h)
  BY DEF SaveLogOffset
<1>4. /\ h \in GuardStates /\ h.queue = guards[e].queue /\ h.offset = guards[e].reading /\ h.reading = 0
      /\ h.refused = guards[e].refused /\ h.bans = guards[e].bans /\ h.at = "firewall"
  BY <1>1, <1>2 DEF GuardStates, RoundSteps
<1>5. guards'[e] = h
  BY <1>1, <1>3, ThisGuard
<1> HIDE DEF h
<1>6. /\ matches' = matches /\ clock' = clock /\ orders' = orders /\ outages' \in 0..MaxOutages
      /\ center' = center /\ center' \in Centers /\ center.recorded \subseteq center'.recorded
  BY <1>1 DEF SaveLogOffset, GuardOnly, BansTyped
<1>7. QueuedEvents(e)' = QueuedEvents(e) /\ RecordedOf(e)' = RecordedOf(e)
  BY <1>4, <1>5, <1>6 DEF QueuedEvents, RecordedOf
<1>8. Collected(e)'
  <2>1. guards[e].refused \subseteq 1..guards[e].reading
    BY <1>1, <1>2 DEF GuardHolds, Collected
  <2> QED BY <1>1, <1>2, <1>4, <1>5, <1>6, <1>7, <2>1 DEF GuardHolds, Collected
<1>9. InOrder(e)' /\ Kept(e)'
  BY <1>1, <1>4, <1>5, <1>6, <1>7 DEF GuardHolds, InOrder, Kept, Reach
<1>10. Banned(e)'
  BY <1>1, <1>4, <1>5, <1>6, <1>7 DEF GuardHolds, Banned, Persisted, Untold, At
<1>11. Answered(e)' /\ Follows(e)'
  BY <1>4, <1>5 DEF Answered, Follows, At
<1> QED BY <1>3, <1>4, <1>6, <1>8, <1>9, <1>10, <1>11, OneGuard DEF GuardHolds

\* A step that takes events from the queue: what it took is refused or recorded.
LEMMA ShorterQueue ==
  ASSUME BansInv, NEW e \in Guards, NEW h \in GuardStates, guards'[e] = h,
         EventsIn(h.queue) \subseteq QueuedEvents(e), h.offset = guards[e].offset,
         h.reading = guards[e].reading, h.bans = guards[e].bans,
         guards[e].at \in {"drop", "rest"}, h.at \in {"idle", "clear"},
         guards[e].refused \subseteq h.refused, h.refused \subseteq 1..h.offset,
         \A event \in QueuedEvents(e) :
           event \in EventsIn(h.queue) \/ event \in center.recorded \/ event.line \in h.refused,
         matches' = matches, clock' = clock, center' = center
  PROVE  Collected(e)' /\ InOrder(e)' /\ Kept(e)' /\ Banned(e)'
<1>1. QueuedEvents(e)' = EventsIn(h.queue) /\ RecordedOf(e)' = RecordedOf(e)
  BY DEF QueuedEvents, RecordedOf
<1>2. BansTyped /\ GuardHolds(e)
  BY DEF BansInv
<1>3. Collected(e)'
  BY <1>1, <1>2 DEF GuardHolds, Collected
<1>4. InOrder(e)'
  BY DEF InOrder
<1>5. Kept(e)'
  <2>1. Reach(e) = guards[e].offset /\ Reach(e)' = guards[e].offset
    BY DEF Reach
  <2>2. \A event \in QueuedEvents(e) : event.edge = e
    BY <1>2 DEF GuardHolds, Collected
  <2>3. \A event \in QueuedEvents(e) :
          event \in QueuedEvents(e)' \/ event \in RecordedOf(e)' \/ event.line \in h.refused
    BY <1>1, <2>2 DEF RecordedOf
  <2> QED BY <1>1, <1>2, <2>1, <2>3 DEF GuardHolds, Kept
<1>6. Banned(e)'
  <2>1. Persisted(e) = guards[e].offset /\ Persisted(e)' = guards[e].offset
    BY DEF Persisted, At
  <2> QED BY <1>1, <1>2, <2>1 DEF GuardHolds, Banned, Untold
<1> QED BY <1>3, <1>4, <1>5, <1>6

\* What is left of a queue when its front goes.
LEMMA RestOfQueue ==
  ASSUME NEW queue \in Seq(Event), NEW n \in Nat, n <= Len(queue)
  PROVE  LET rest == SubSeq(queue, n + 1, Len(queue)) IN
         /\ rest \in Seq(Event) /\ Len(rest) = Len(queue) - n /\ DOMAIN rest = 1..Len(queue) - n
         /\ \A j \in 1..Len(queue) - n : rest[j] = queue[n + j]
<1> DEFINE last == Len(queue)
           rest == SubSeq(queue, n + 1, last)
<1>1. last \in Nat /\ n <= last /\ \A j \in n + 1..last : queue[j] \in Event
  OBVIOUS
<1> HIDE DEF last
<1>2. /\ rest \in Seq(Event)
      /\ Len(rest) = IF n + 1 <= last THEN last - (n + 1) + 1 ELSE 0
      /\ \A j \in 1..last - (n + 1) + 1 : rest[j] = queue[n + 1 + j - 1]
  BY <1>1, SubSeqProperties
<1> HIDE DEF rest
<1>3. Len(rest) = last - n
  BY <1>1, <1>2
<1>4. ASSUME NEW j \in 1..last - n PROVE rest[j] = queue[n + j]
  <2>1. j \in 1..last - (n + 1) + 1 /\ n + 1 + j - 1 = n + j
    BY <1>1
  <2> QED BY <1>2, <2>1
<1>5. DOMAIN rest = 1..last - n
  BY <1>2, <1>3
<1> QED BY <1>2, <1>3, <1>4, <1>5 DEF last, rest

LEMMA DropRejectedKeeps ==
  ASSUME BansInv, NEW e \in Guards, DropRejected(e)
  PROVE  BansInv'
<1>1. BansTyped /\ GuardHolds(e) /\ guards[e] \in GuardStates /\ guards[e].at = "drop"
  BY GuardFacts DEF BansInv, DropRejected, At
<1> DEFINE queue == guards[e].queue
           i == guards[e].index
           front == SubSeq(queue, 1, i - 1)
           back == SubSeq(queue, i + 1, Len(queue))
           rest == front \o back
           refused == guards[e].refused \cup {queue[i].line}
           h == [guards[e] EXCEPT !.at = "idle", !.index = 0, !.refused = refused, !.queue = rest]
<1>2. /\ queue \in Seq(Event) /\ Len(queue) \in Nat /\ DOMAIN queue = 1..Len(queue)
      /\ i \in Nat /\ i \in 1..Len(queue) /\ i <= Len(queue) /\ 0 \in 0..BatchLimit
  BY <1>1, GuardFacts, BanNumbers DEF GuardHolds, Answered, At
<1>3. Guard(e, h)
  BY DEF DropRejected
<1>a. QueuedEvents(e) = EventsIn(queue)
  BY DEF QueuedEvents
<1> HIDE DEF queue, i
<1>4. /\ front \in Seq(Event) /\ Len(front) = i - 1 /\ \A j \in 1..i - 1 : front[j] = queue[j]
  <2>1. \A j \in 1..i - 1 : queue[j] \in Event
    BY <1>2
  <2> QED BY <1>2, <2>1, SubSeqProperties
<1>5. /\ back \in Seq(Event) /\ Len(back) = Len(queue) - i
      /\ \A j \in 1..Len(queue) - i : back[j] = queue[i + j]
  BY <1>2, RestOfQueue
<1> HIDE DEF front, back
<1>6. /\ rest \in Seq(Event)
      /\ EventsIn(rest) \subseteq EventsIn(queue)
      /\ \A j \in 1..Len(queue) : j # i => queue[j] \in EventsIn(rest)
  <2>0. /\ rest \in Seq(Event) /\ Len(rest) = Len(front) + Len(back)
        /\ \A j \in 1..Len(front) + Len(back) :
             rest[j] = IF j <= Len(front) THEN front[j] ELSE back[j - Len(front)]
    <3>1. front \in Seq(Event) /\ back \in Seq(Event)
      BY <1>4, <1>5
    <3> QED BY <3>1, ConcatProperties, Zenon
  <2> HIDE DEF rest
  <2>1. /\ rest \in Seq(Event) /\ Len(rest) = Len(front) + Len(back) /\ DOMAIN rest = 1..Len(rest)
        /\ \A j \in 1..Len(rest) : rest[j] = IF j <= Len(front) THEN front[j] ELSE back[j - Len(front)]
    BY <2>0
  <2>2. Len(rest) = Len(queue) - 1 /\ Len(rest) \in Nat
    BY <1>2, <1>4, <1>5, <2>1
  <2>3. ASSUME NEW j \in 1..Len(rest) PROVE rest[j] = queue[IF j < i THEN j ELSE j + 1]
    <3>1. CASE j < i
      <4>1. j \in 1..i - 1 /\ j <= Len(front)
        BY <1>2, <1>4, <2>2, <3>1
      <4> QED BY <1>4, <2>1, <3>1, <4>1
    <3>2. CASE ~(j < i)
      <4>1. j - (i - 1) \in 1..Len(queue) - i /\ ~(j <= Len(front)) /\ i + (j - (i - 1)) = j + 1
        BY <1>2, <1>4, <2>2, <3>2
      <4> QED BY <1>4, <1>5, <2>1, <3>2, <4>1
    <3> QED BY <3>1, <3>2
  <2>4. \A j \in 1..Len(rest) : (IF j < i THEN j ELSE j + 1) \in 1..Len(queue)
    BY <1>2, <2>2
  <2>5. EventsIn(rest) \subseteq EventsIn(queue)
    BY <1>2, <2>1, <2>3, <2>4 DEF EventsIn
  <2>6. ASSUME NEW j \in 1..Len(queue), j # i PROVE queue[j] \in EventsIn(rest)
    <3>1. CASE j < i
      <4>1. j \in 1..Len(rest)
        BY <1>2, <2>2, <3>1
      <4> QED BY <2>1, <2>3, <3>1, <4>1 DEF EventsIn
    <3>2. CASE ~(j < i)
      <4>1. j - 1 \in 1..Len(rest) /\ ~(j - 1 < i) /\ j - 1 + 1 = j
        BY <1>2, <2>2, <2>6, <3>2
      <4> QED BY <2>1, <2>3, <4>1 DEF EventsIn
    <3> QED BY <3>1, <3>2
  <2> QED BY <2>1, <2>5, <2>6
<1> HIDE DEF rest
<1>7. /\ queue[i] \in EventsIn(queue) /\ queue[i].line \in Nat /\ queue[i].line \in 1..guards[e].offset
      /\ refused \subseteq Nat /\ refused \subseteq 1..guards[e].offset
  <2>1. queue[i] \in EventsIn(queue) /\ queue[i] \in Event
    BY <1>2 DEF EventsIn
  <2>2. queue[i].line \in 1..MaxMatches /\ queue[i].line \in Nat /\ guards[e].offset \in Nat
    BY <1>1, <2>1, EventFacts, GuardFacts
  <2>3. queue[i].line <= guards[e].offset /\ guards[e].refused \subseteq 1..guards[e].offset
    BY <1>1, <1>a, <2>1 DEF GuardHolds, InOrder, Collected
  <2> QED BY <2>1, <2>2, <2>3, BanNumbers
<1> HIDE DEF refused
<1>8. /\ h \in GuardStates /\ h.queue = rest /\ h.offset = guards[e].offset /\ h.reading = guards[e].reading
      /\ h.refused = refused /\ h.bans = guards[e].bans /\ h.at = "idle"
      /\ h.firewall = guards[e].firewall /\ h.dirty = guards[e].dirty
  BY <1>1, <1>2, <1>6, <1>7 DEF GuardStates, RoundSteps
<1>9. guards'[e] = h
  BY <1>1, <1>3, ThisGuard
<1> HIDE DEF h
<1>10. /\ matches' = matches /\ clock' = clock /\ orders' = orders /\ outages' \in 0..MaxOutages
       /\ center' = center /\ center' \in Centers /\ center.recorded \subseteq center'.recorded
  BY <1>1 DEF DropRejected, GuardOnly, BansTyped
<1>11. \A event \in QueuedEvents(e) : event \in EventsIn(rest) \/ event.line \in refused
  BY <1>2, <1>6, <1>a DEF EventsIn, refused
<1>12. guards[e].refused \subseteq refused
  BY DEF refused
<1>13. Collected(e)' /\ InOrder(e)' /\ Kept(e)' /\ Banned(e)'
  BY <1>1, <1>6, <1>7, <1>8, <1>9, <1>10, <1>11, <1>12, <1>a, ShorterQueue
<1>14. Answered(e)' /\ Follows(e)'
  BY <1>1, <1>8, <1>9, <1>10 DEF GuardHolds, Answered, Follows, Live, At
<1> QED BY <1>3, <1>8, <1>10, <1>13, <1>14, OneGuard DEF GuardHolds

LEMMA SaveRestKeeps ==
  ASSUME BansInv, NEW e \in Guards, SaveRest(e)
  PROVE  BansInv'
<1>1. BansTyped /\ GuardHolds(e) /\ guards[e] \in GuardStates /\ guards[e].at = "rest"
  BY GuardFacts DEF BansInv, SaveRest, At
<1> DEFINE queue == guards[e].queue
           n == Len(BatchOf(e))
           rest == SubSeq(queue, n + 1, Len(queue))
           done == {event.ip : event \in EventsIn(BatchOf(e))}
           h == [guards[e] EXCEPT !.at = "clear", !.done = done, !.queue = rest]
<1>2. /\ queue \in Seq(Event) /\ Len(queue) \in Nat /\ DOMAIN queue = 1..Len(queue)
      /\ n \in Nat /\ n <= Len(queue) /\ \A j \in 1..n : queue[j] = BatchOf(e)[j]
      /\ DOMAIN BatchOf(e) = 1..n /\ EventsIn(BatchOf(e)) \subseteq QueuedEvents(e)
  BY <1>1, GuardFacts, BatchFacts
<1>3. Guard(e, h)
  BY DEF SaveRest
<1>a. QueuedEvents(e) = EventsIn(queue)
  BY DEF QueuedEvents
<1>b. guards[e].refused \subseteq 1..guards[e].offset
  BY <1>1 DEF GuardHolds, Collected
<1> HIDE DEF queue, n
<1>4. /\ rest \in Seq(Event) /\ DOMAIN rest = 1..Len(queue) - n
      /\ \A j \in 1..Len(queue) - n : rest[j] = queue[n + j]
  BY <1>2, RestOfQueue
<1> HIDE DEF rest
<1>5. EventsIn(rest) \subseteq QueuedEvents(e)
  <2>1. \A j \in 1..Len(queue) - n : n + j \in 1..Len(queue)
    BY <1>2
  <2> QED BY <1>2, <1>4, <1>a, <2>1 DEF EventsIn
<1>6. \A event \in QueuedEvents(e) : event \in EventsIn(rest) \/ event \in center.recorded
  <2> SUFFICES ASSUME NEW j \in 1..Len(queue)
               PROVE  queue[j] \in EventsIn(rest) \/ queue[j] \in center.recorded
    BY <1>2, <1>a DEF EventsIn
  <2>1. CASE j <= n
    <3>1. queue[j] \in EventsIn(BatchOf(e))
      BY <1>2, <2>1 DEF EventsIn
    <3> QED BY <1>1, <3>1 DEF GuardHolds, Answered, At
  <2>2. CASE ~(j <= n)
    <3>1. j - n \in 1..Len(queue) - n /\ n + (j - n) = j
      BY <1>2, <2>2
    <3> QED BY <1>4, <3>1 DEF EventsIn
  <2> QED BY <2>1, <2>2
<1>7. /\ done \subseteq Visitors
      /\ \A v \in done : \E event \in RecordedOf(e) : event.ip = v
  <2>1. \A event \in EventsIn(BatchOf(e)) : event.ip \in Visitors
    BY <1>1, <1>2, QueuedFacts, EventFacts
  <2>2. \A event \in EventsIn(BatchOf(e)) : event.edge = e /\ event \in center.recorded
    BY <1>1, <1>2 DEF GuardHolds, Collected, Answered, At
  <2> QED BY <2>1, <2>2 DEF RecordedOf
<1> HIDE DEF done
<1>8. /\ h \in GuardStates /\ h.queue = rest /\ h.offset = guards[e].offset /\ h.reading = guards[e].reading
      /\ h.refused = guards[e].refused /\ h.bans = guards[e].bans /\ h.at = "clear" /\ h.done = done
      /\ h.firewall = guards[e].firewall /\ h.dirty = guards[e].dirty
  BY <1>1, <1>4, <1>7 DEF GuardStates, RoundSteps
<1>9. guards'[e] = h
  BY <1>1, <1>3, ThisGuard
<1> HIDE DEF h
<1>10. /\ matches' = matches /\ clock' = clock /\ orders' = orders /\ outages' \in 0..MaxOutages
       /\ center' = center /\ center' \in Centers /\ center.recorded \subseteq center'.recorded
  BY <1>1 DEF SaveRest, GuardOnly, BansTyped
<1>11. Collected(e)' /\ InOrder(e)' /\ Kept(e)' /\ Banned(e)'
  BY <1>1, <1>5, <1>6, <1>8, <1>9, <1>10, <1>b, ShorterQueue
<1>12. Answered(e)' /\ Follows(e)'
  <2>1. RecordedOf(e)' = RecordedOf(e)
    BY <1>10 DEF RecordedOf
  <2> QED BY <1>1, <1>7, <1>8, <1>9, <1>10, <2>1 DEF GuardHolds, Answered, Follows, Live, At
<1> QED BY <1>3, <1>8, <1>10, <1>11, <1>12, OneGuard DEF GuardHolds

-----------------------------------------------------------------------------
(* nginx, time and the administrator *)

LEMMA MatchKeeps ==
  ASSUME BansInv, NEW e \in Exposed, NEW v \in Visitors, Match(e, v)
  PROVE  BansInv'
<1>1. BansTyped /\ e \in Guards /\ clock \in 0..MaxClock /\ clock \in Nat
  BY BanNumbers, BansFacts DEF BansInv, BansTyped
<1> DEFINE match == [ip |-> v, seen |-> clock]
           log == Append(matches[e], match)
<1>2. match \in LogLines
  BY <1>1 DEF LogLines
<1>3. matches[e] \in Seq(LogLines) /\ Len(matches[e]) \in Nat
  BY <1>1, GuardFacts
<1>4. /\ log \in Seq(LogLines) /\ Len(log) = Len(matches[e]) + 1
      /\ \A n \in 1..Len(matches[e]) : log[n] = matches[e][n]
      /\ log[Len(matches[e]) + 1] = match
  BY <1>2, <1>3, AppendProperties
<1>5. /\ guards' = guards /\ center' = center /\ clock' = clock /\ orders' = orders /\ outages' = outages
      /\ matches' = [matches EXCEPT ![e] = log] /\ Len(matches[e]) < MaxMatches
  BY DEF Match
<1>6. match.seen <= clock
  BY <1>1
<1> HIDE DEF log, match
<1>7. BansTyped' /\ matches'[e] = log
  BY <1>1, <1>4, <1>5 DEF BansTyped
<1>8. GuardHolds(e)'
  <2>1. GuardHolds(e)
    BY <1>1 DEF BansInv
  <2>2. QueuedEvents(e)' = QueuedEvents(e) /\ RecordedOf(e)' = RecordedOf(e)
    BY <1>5 DEF QueuedEvents, RecordedOf
  <2>3. Collected(e)'
    <3>1. guards[e].offset \in Nat /\ guards[e].reading \in Nat /\ MaxMatches \in Nat
      BY <1>1, GuardFacts, BanNumbers
    <3>2. /\ guards'[e].offset <= Len(matches'[e]) /\ guards'[e].reading <= Len(matches'[e])
          /\ Len(matches'[e]) <= MaxMatches
      BY <1>3, <1>4, <1>5, <1>7, <2>1, <3>1 DEF GuardHolds, Collected
    <3>3. \A n \in DOMAIN log : n \in DOMAIN matches[e] \/ log[n] = match
      BY <1>3, <1>4
    <3>4. \A n \in DOMAIN matches[e] : n \in DOMAIN log /\ log[n] = matches[e][n]
      BY <1>3, <1>4
    <3> QED BY <1>5, <1>6, <1>7, <2>1, <2>2, <3>2, <3>3, <3>4 DEF GuardHolds, Collected
  <2>4. InOrder(e)' /\ Kept(e)' /\ Answered(e)' /\ Banned(e)' /\ Follows(e)'
    BY <1>5, <2>1, <2>2 DEF GuardHolds, InOrder, Kept, Reach, Answered, BatchOf, Banned, Untold, Persisted,
                            Follows, Live, At
  <2> QED BY <2>3, <2>4 DEF GuardHolds
<1>9. ASSUME NEW d \in Guards, d # e PROVE GuardHolds(d)'
  <2>1. matches'[d] = matches[d] /\ guards'[d] = guards[d]
    BY <1>1, <1>5, <1>9 DEF BansTyped
  <2> QED BY <1>1, <1>5, <2>1, GuardRests DEF BansInv
<1> QED BY <1>7, <1>8, <1>9 DEF BansInv

LEMMA BanTickKeeps ==
  ASSUME BansInv, BanTick
  PROVE  BansInv'
<1>1. /\ clock < MaxClock /\ clock' = clock + 1
      /\ matches' = matches /\ guards' = guards /\ center' = center /\ orders' = orders /\ outages' = outages
  BY DEF BanTick
<1>2. BansTyped /\ clock \in Nat
  BY BansFacts DEF BansInv
<1>3. BansTyped'
  BY <1>1, <1>2, BanNumbers DEF BansTyped
<1>4. ASSUME NEW e \in Guards PROVE GuardHolds(e)'
  <2>1. GuardHolds(e)
    BY DEF BansInv
  <2>2. QueuedEvents(e)' = QueuedEvents(e) /\ RecordedOf(e)' = RecordedOf(e)
    BY <1>1 DEF QueuedEvents, RecordedOf
  <2>3. Collected(e)'
    <3>1. \A n \in DOMAIN matches[e] : matches[e][n].seen \in Nat
      <4>1. \A n \in DOMAIN matches[e] : matches[e][n] \in LogLines
        BY <1>2, GuardFacts
      <4> QED BY <4>1, BanNumbers DEF LogLines
    <3>2. \A n \in DOMAIN matches[e] : matches[e][n].seen <= clock + 1
      BY <1>2, <2>1, <3>1 DEF GuardHolds, Collected
    <3> QED BY <1>1, <2>1, <2>2, <3>2 DEF GuardHolds, Collected
  <2>4. InOrder(e)' /\ Kept(e)' /\ Answered(e)'
    BY <1>1, <2>1, <2>2 DEF GuardHolds, InOrder, Kept, Reach, Answered, BatchOf, At
  <2>5. Banned(e)'
    <3>1. \A event \in QueuedEvents(e) : event.seen + BanTicks > clock + 1 => event.seen + BanTicks > clock
      <4>1. \A event \in QueuedEvents(e) : event.seen \in Nat
        BY <1>2, QueuedFacts, EventFacts
      <4> QED BY <1>2, <4>1, BanNumbers
    <3> QED BY <1>1, <2>1, <2>2, <3>1 DEF GuardHolds, Banned, Untold, Persisted, At
  <2>6. Follows(e)'
    <3>1. ASSUME NEW v \in Visitors, Live(guards[e].firewall[v]) = Live(guards[e].bans[v].until)
          PROVE  Live(guards[e].firewall[v])' = Live(guards[e].bans[v].until)'
      <4>1. guards[e].firewall[v] \in Nat /\ guards[e].bans[v].until \in Nat
        BY <1>2, GuardFacts, BanFacts, TimeFacts
      <4> QED BY <1>1, <1>2, <3>1, <4>1 DEF Live
    <3> QED BY <1>1, <2>1, <3>1 DEF GuardHolds, Follows
  <2> QED BY <2>3, <2>4, <2>5, <2>6 DEF GuardHolds
<1> QED BY <1>3, <1>4 DEF BansInv

LEMMA AdministratorKeeps ==
  ASSUME BansInv, TogglePolicy \/ \E v \in Visitors : Unban(v)
  PROVE  BansInv'
<1>1. /\ matches' = matches /\ guards' = guards /\ clock' = clock /\ outages' = outages
      /\ orders < MaxOrders /\ orders' = orders + 1
  BY DEF TogglePolicy, Unban, Order
<1>2. BansTyped /\ center \in Centers /\ center.bans \in Timeouts
  BY BansFacts DEF BansInv, BansTyped
<1>3. center' \in Centers /\ center'.recorded = center.recorded
  <2>1. CASE TogglePolicy
    BY <1>2, <2>1 DEF TogglePolicy, Centers
  <2>2. CASE \E v \in Visitors : Unban(v)
    <3>1. PICK v \in Visitors : Unban(v)
      BY <2>2
    <3> DEFINE bans == [center.bans EXCEPT ![v] = 0]
    <3>2. bans \in Timeouts
      BY <1>2, BanNumbers DEF Timeouts
    <3>3. center' = [center EXCEPT !.bans = bans]
      BY <3>1 DEF Unban
    <3> HIDE DEF bans
    <3> QED BY <1>2, <3>2, <3>3 DEF Centers
  <2> QED BY <2>1, <2>2
<1>4. BansTyped'
  BY <1>1, <1>2, <1>3, BanNumbers DEF BansTyped
<1> QED BY <1>1, <1>2, <1>3, <1>4, GuardRests DEF BansInv

-----------------------------------------------------------------------------
\* The invariant holds at first, every step keeps it, and it says what BansHold says.
LEMMA BansStart == BansInit => BansInv
<1> SUFFICES ASSUME BansInit PROVE BansInv
  OBVIOUS
<1>1. IdleGuard \in GuardStates
  BY BanConstants, BanNumbers DEF IdleGuard, GuardStates, RoundSteps
<1>2. center \in Centers /\ center.recorded = {}
  BY BanConstants DEF BansInit, Centers
<1>3. BansTyped
  BY <1>1, <1>2, BanNumbers DEF BansInit, BansTyped
<1>4. ASSUME NEW e \in Guards PROVE GuardHolds(e)
  <2>1. guards[e] = IdleGuard /\ matches[e] = << >> /\ clock = 0
    BY DEF BansInit
  <2>2. /\ guards[e].at = "idle" /\ guards[e].offset = 0 /\ guards[e].reading = 0 /\ guards[e].queue = << >>
        /\ guards[e].refused = {} /\ guards[e].bans = [v \in Visitors |-> NoBan]
        /\ guards[e].firewall = [v \in Visitors |-> 0]
    BY <2>1 DEF IdleGuard
  <2>3. QueuedEvents(e) = {}
    BY <2>2 DEF QueuedEvents, EventsIn
  <2> QED BY <2>1, <2>2, <2>3, BanNumbers DEF GuardHolds, Collected, InOrder, Kept, Reach, Answered, At,
                                              Banned, Follows, Live, NoBan
<1> QED BY <1>3, <1>4 DEF BansInv

LEMMA BansStepKeeps == BansInv /\ [BansNext]_banVars => BansInv'
<1> SUFFICES ASSUME BansInv, [BansNext]_banVars PROVE BansInv'
  OBVIOUS
<1>1. ASSUME NEW e \in Exposed, NEW v \in Visitors, Match(e, v) PROVE BansInv'
  BY <1>1, MatchKeeps
<1>2. CASE BanTick
  BY <1>2, BanTickKeeps
<1>3. CASE TogglePolicy \/ \E v \in Visitors : Unban(v)
  BY <1>3, AdministratorKeeps
<1>4. ASSUME NEW e \in Guards, RoundStep(e) PROVE BansInv'
  BY <1>4, PersistLocalBansKeeps, SaveLogOffsetKeeps, ReplaceFirewallKeeps, DropRejectedKeeps, SaveRestKeeps,
     ClearPendingKeeps, NotModifiedKeeps, SaveRemoteBansKeeps DEF RoundStep
<1>5. ASSUME NEW e \in Guards, Advance(e) PROVE BansInv'
  BY <1>5, CollectEventsKeeps, RetryFirewallKeeps, ReportRefusedKeeps, ReportAcceptedKeeps DEF Advance
<1>6. ASSUME NEW e \in Guards, Pull(e) \/ FirewallFails(e) \/ ReportLost(e) \/ KillGuard(e) PROVE BansInv'
  BY <1>6, PullKeeps, FirewallFailsKeeps, ReportLostKeeps, KillGuardKeeps
<1>7. CASE UNCHANGED banVars
  <2>1. /\ matches' = matches /\ guards' = guards /\ clock' = clock /\ center' = center
        /\ orders' = orders /\ outages' = outages
    BY <1>7 DEF banVars
  <2>2. BansTyped'
    BY <2>1 DEF BansInv, BansTyped
  <2> QED BY <2>1, <2>2, GuardRests DEF BansInv
<1> QED BY <1>1, <1>2, <1>3, <1>4, <1>5, <1>6, <1>7 DEF BansNext

LEMMA BansInvHolds == BansInv => BansHold
<1> SUFFICES ASSUME BansInv PROVE BansHold
  OBVIOUS
<1>0. BansTyped /\ clock \in Nat
  BY BansFacts DEF BansInv
<1>1. BansTypeOK
  <2>1. ASSUME NEW e \in Guards
        PROVE  /\ matches[e] \in Seq(LogLines) /\ guards[e].at \in RoundSteps
               /\ guards[e].offset \in 0..Len(matches[e]) /\ guards[e].reading \in 0..Len(matches[e])
               /\ guards[e].queue \in Seq(Event) /\ guards[e].refused \subseteq 1..guards[e].offset
               /\ guards[e].bans \in [Visitors -> Bans]
               /\ {guards[e].revision, guards[e].answer} \subseteq Timeouts \cup {NoRevision}
               /\ guards[e].firewall \in Timeouts /\ guards[e].dirty \in BOOLEAN
               /\ guards[e].index \in 0..BatchLimit /\ guards[e].done \subseteq Visitors
    BY <1>0, GuardFacts DEF BansInv, GuardHolds, Collected
  <2>2. /\ center.bans \in Timeouts /\ center.recorded \subseteq Event /\ center.enabled \in BOOLEAN
        /\ clock \in 0..MaxClock /\ orders \in 0..MaxOrders /\ outages \in 0..MaxOutages
    BY <1>0, BansFacts DEF BansTyped
  <2> QED BY <2>1, <2>2 DEF BansTypeOK, LogLines, Bans, RoundSteps
<1>2. NoEventLost
  <2>1. ASSUME NEW e \in Guards, NEW line \in 1..guards[e].offset
        PROVE  \/ line \in guards[e].refused
               \/ \E event \in QueuedEvents(e) \cup RecordedOf(e) : event.line = line
    <3>1. /\ guards[e].offset \in Nat /\ guards[e].reading \in Nat
          /\ guards[e].at \in {"bans", "offset"} => guards[e].offset <= guards[e].reading
      BY <1>0, GuardFacts DEF BansInv, GuardHolds, InOrder
    <3>2. line \in 1..Reach(e)
      BY <3>1 DEF Reach
    <3> QED BY <3>2 DEF BansInv, GuardHolds, Kept
  <2> QED BY <2>1 DEF NoEventLost
<1>3. OwnBansHold
  <2>1. ASSUME NEW e \in Guards, NEW event \in QueuedEvents(e), event.line <= guards[e].offset,
               event.seen + BanTicks > clock, Untold(e, event.ip)
        PROVE  guards[e].bans[event.ip].until > clock
    <3>1. /\ guards[e].offset \in Nat /\ guards[e].reading \in Nat
          /\ guards[e].at \in {"bans", "offset"} => guards[e].offset <= guards[e].reading
      BY <1>0, GuardFacts DEF BansInv, GuardHolds, InOrder
    <3>2. event.line \in Nat /\ event.seen \in Nat /\ event.ip \in Visitors /\ BanTicks \in Nat
      BY <1>0, QueuedFacts, EventFacts, BanNumbers
    <3>3. event.line <= Persisted(e)
      BY <2>1, <3>1, <3>2 DEF Persisted, At
    <3>4. guards[e].bans[event.ip].until >= event.seen + BanTicks
      BY <2>1, <3>3 DEF BansInv, GuardHolds, Banned
    <3>5. guards[e].bans[event.ip].until \in Nat
      BY <1>0, <3>2, GuardFacts, BanFacts
    <3> QED BY <1>0, <2>1, <3>2, <3>4, <3>5
  <2> QED BY <2>1 DEF OwnBansHold, Untold
<1>4. FirewallFollows
  <2>1. ASSUME NEW e \in Guards, NEW v \in Visitors
        PROVE  Enforced(guards[e].bans)[v] = Live(guards[e].bans[v].until)
    BY DEF Enforced, Active, Live, NoBan
  <2> QED BY <2>1 DEF FirewallFollows, BansInv, GuardHolds, Follows, Live, At
<1> QED BY <1>1, <1>2, <1>3, <1>4 DEF BansHold

\* For every number of edges, addresses and matches, every batch and ban duration, and
\* whatever is lost, refused or killed: no match whose line the saved offset has passed
\* is forgotten, the ban of an address that the controller has not been told of stays in
\* the saved state of its edge (persistLocalBans, persistRemoteBans and clearPendingBans
\* never take it away), and a firewall that is not known to be wrong enforces the saved
\* bans (SecurityBans.BansHold).
THEOREM BansAreKept == BansSpec => []BansHold
<1>1. BansSpec => []BansInv
  BY BansStart, BansStepKeeps, PTL DEF BansSpec
<1> QED BY <1>1, BansInvHolds, PTL
=============================================================================
