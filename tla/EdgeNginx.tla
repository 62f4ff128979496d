------------------------------- MODULE EdgeNginx -------------------------------
(***************************************************************************)
(* nginx on an edge node and the two parts of the agent that change its    *)
(* files: the configuration loop, which applies a desired state, and the   *)
(* origin probes, which switch a pool of origin servers off and on.        *)
(* "nginxMu" serialises them, so one critical section is at work at a time *)
(* and its statements are the actions; the agent may be killed between any *)
(* two of them, while nginx goes on with what it has loaded.               *)
(*                                                                         *)
(* A version stands for its contents: the certificates, the nginx          *)
(* configuration with its fragments and the pools it uses.  Left out are   *)
(* the steps that change none of these (static assets, port checks, cache  *)
(* warm-ups), the reports, a stopped nginx, and a reload that is adopted   *)
(* only after the agent has given up waiting for it.                       *)
(***************************************************************************)
EXTENDS Naturals, FiniteSets

CONSTANTS
    Pools,              \* origin pools, by the identity of their transport
    NoPool,
    Uses,               \* the pools a version's configuration includes
    Certificates,       \* the sites a version has certificates for
    Unsteady,           \* the probes that may fail
    Broken,             \* versions whose configuration nginx -t rejects
    FailureThreshold,   \* OriginProbeFailureThreshold
    RecoveryThreshold,  \* OriginProbeRecoveryThreshold
    StreakLimit,        \* the largest streak that is counted
    MaxVersion,         \* bound: desired states
    MaxKills,           \* bound: kills of the agent
    MaxFailures         \* bound: failed writes, rejected reloads, missing listeners

Versions == 0..MaxVersion
Layers == {"service", "cold"}

ASSUME ConstantsAssumption ==
    /\ {MaxVersion, MaxKills, MaxFailures} \subseteq Nat
    /\ FailureThreshold \in Nat \ {0} /\ RecoveryThreshold \in Nat \ {0}
    /\ StreakLimit \in Nat
    /\ FailureThreshold =< StreakLimit /\ RecoveryThreshold =< StreakLimit
    /\ NoPool \notin Pools
    /\ Uses \in [Versions -> SUBSET Pools] /\ Uses[0] = {}
    /\ DOMAIN Certificates = Versions /\ Certificates[0] = {}
    /\ Unsteady \subseteq Pools \X Layers
    /\ Broken \subseteq Versions \ {0}

VARIABLES
    desired,    \* the version the controller offers
    failing,    \* the pools whose probes fail, with the layer
    files,      \* nginx's files
    applied,    \* the file applied-version
    circuits,   \* the file origin-connections.json
    loaded,     \* what nginx has loaded of the files
    runtimes,   \* Agent.originPools
    pc,         \* the statement that the holder of nginxMu executes next
    work,       \* what it keeps in local variables
    torn,       \* was a change cut off between two files, with nothing to mend it since?
    faults      \* faults that have happened

disk == <<files, applied, circuits>>
section == <<pc, work>>
vars == <<desired, failing, disk, loaded, runtimes, section, torn, faults>>

Streaks == [Layers -> 0..StreakLimit]
Runtime == [circuit : {"closed", "open", "recovering"}, failures : Streaks, successes : Streaks]
Runtimes == UNION {[used -> Runtime] : used \in SUBSET Pools}
Files == [certificates : Versions, config : Versions, pools : [Pools -> {"absent", "up", "down"}]]
Work == [version : Versions, pool : Pools \cup {NoPool}, files : Files, circuits : Runtimes,
         pending : Runtimes, live : BOOLEAN]

NewRuntime == [circuit |-> "closed", failures |-> [l \in Layers |-> 0], successes |-> [l \in Layers |-> 0]]
NoRuntimes == [p \in {} |-> NewRuntime]
NoFiles == [certificates |-> 0, config |-> 0, pools |-> [p \in Pools |-> "absent"]]
NoWork == [version |-> 0, pool |-> NoPool, files |-> NoFiles, circuits |-> NoRuntimes,
           pending |-> NoRuntimes, live |-> FALSE]

TypeOK ==
    /\ desired \in Versions /\ failing \subseteq Unsteady
    /\ files \in Files /\ applied \in Versions /\ circuits \in Runtimes
    /\ loaded \in Files /\ runtimes \in Runtimes
    /\ pc \in {"idle", "stopped",
               "certificates", "config", "pools", "reload", "listen", "persist", "version", "commit",
               "undo certificates", "undo pools", "undo config", "undo reload", "undo circuits",
               "failed", "switch", "switch reload"}
    /\ work \in Work
    /\ torn \in BOOLEAN
    /\ faults \in [kill : 0..MaxKills, failure : 0..MaxFailures]

Init ==
    /\ desired = 0 /\ failing = {}
    /\ files = NoFiles /\ applied = 0 /\ circuits = NoRuntimes /\ loaded = NoFiles /\ runtimes = NoRuntimes
    /\ pc = "idle" /\ work = NoWork /\ torn = FALSE
    /\ faults = [kill |-> 0, failure |-> 0]

-------------------------------------------------------------------------------
(* nginx *)

\* nginx -t: the configuration is sound and finds every file it refers to.
Testable ==
    /\ files.config \notin Broken
    /\ Certificates[files.config] \subseteq Certificates[files.certificates]
    /\ \A p \in Uses[files.config] : files.pools[p] # "absent"

Fault ==
    /\ faults.failure < MaxFailures
    /\ faults' = [faults EXCEPT !.failure = @ + 1]

\* The reload is adopted: a new worker is seen.
Adopted ==
    /\ Testable
    /\ loaded' = files
    /\ UNCHANGED faults

\* nginx -t fails, or the master drops the new configuration and keeps its
\* workers.
NotAdopted ==
    /\ \/ ~Testable /\ UNCHANGED faults
       \/ Testable /\ Fault
    /\ UNCHANGED loaded

-------------------------------------------------------------------------------
(* Circuits *)

Directive(circuit) == IF circuit = "closed" THEN "up" ELSE "down"

Longer(streak) == IF streak >= StreakLimit THEN StreakLimit ELSE streak + 1
Recovered(runtime, threshold) == \A l \in Layers : runtime.successes[l] >= threshold

Succeeded(runtime, layer) ==
    LET counted == [runtime EXCEPT !.successes[layer] = Longer(@), !.failures[layer] = 0]
        circuit == IF counted.circuit = "open" /\ Recovered(counted, 1)
                   THEN "recovering" ELSE counted.circuit
    IN  [counted EXCEPT !.circuit = IF circuit = "recovering" /\ Recovered(counted, RecoveryThreshold)
                                    THEN "closed" ELSE circuit]

Failed(runtime, layer) ==
    LET counted == [runtime EXCEPT !.failures[layer] = Longer(@), !.successes[layer] = 0]
    IN  IF counted.circuit # "closed" \/ counted.failures[layer] >= FailureThreshold
        THEN [counted EXCEPT !.circuit = "open", !.successes = [l \in Layers |-> 0]]
        ELSE counted

\* The runtimes of a version: a pool that stays keeps its circuit.
Pending(version) ==
    [p \in Uses[version] |-> IF p \in DOMAIN runtimes THEN runtimes[p] ELSE NewRuntime]

-------------------------------------------------------------------------------
(* The controller and the origins *)

OfferVersion ==
    /\ desired < MaxVersion
    /\ desired' = desired + 1
    /\ UNCHANGED <<failing, disk, loaded, runtimes, section, torn, faults>>

OriginChanges ==
    /\ \E probe \in Unsteady :
          failing' = IF probe \in failing THEN failing \ {probe} ELSE failing \cup {probe}
    /\ UNCHANGED <<desired, disk, loaded, runtimes, section, torn, faults>>

-------------------------------------------------------------------------------
(* Applying a desired state *)

\* Mutant: a configuration that nginx does not accept is never replaced.
BeginApplyTested ==
    /\ pc = "idle"
    /\ desired > applied
    /\ Testable
    /\ pc' = "certificates"
    /\ work' = [version |-> desired, pool |-> NoPool, files |-> files, circuits |-> circuits,
                pending |-> Pending(desired), live |-> FALSE]
    /\ UNCHANGED <<desired, failing, disk, loaded, runtimes, torn, faults>>

\* Sync finds a newer version; applyLocked keeps what it will replace.
BeginApply ==
    /\ pc = "idle"
    /\ desired > applied
    /\ pc' = "certificates"
    /\ work' = [version |-> desired, pool |-> NoPool, files |-> files, circuits |-> circuits,
                pending |-> Pending(desired), live |-> FALSE]
    /\ UNCHANGED <<desired, failing, disk, loaded, runtimes, torn, faults>>

StageCertificates ==
    /\ pc = "certificates"
    /\ files' = [files EXCEPT !.certificates = work.version]
    /\ pc' = "config"
    /\ UNCHANGED <<desired, failing, applied, circuits, loaded, runtimes, work, torn, faults>>

WriteConfig ==
    /\ pc = "config"
    /\ files' = [files EXCEPT !.config = work.version]
    /\ pc' = "pools"
    /\ UNCHANGED <<desired, failing, applied, circuits, loaded, runtimes, work, torn, faults>>

StageOriginPools ==
    /\ pc = "pools"
    /\ files' = [files EXCEPT !.pools = [p \in Pools |->
                    IF p \in Uses[work.version] THEN Directive(work.pending[p].circuit) ELSE @[p]]]
    /\ pc' = "reload"
    /\ UNCHANGED <<desired, failing, applied, circuits, loaded, runtimes, work, torn, faults>>

\* Mutant: the signal was sent, so the reload counts.
ReloadSignalled ==
    /\ pc = "reload"
    /\ \/ Adopted /\ pc' = "listen" /\ UNCHANGED work
       \/ NotAdopted /\ Testable /\ pc' = "listen" /\ UNCHANGED work
       \/ NotAdopted /\ ~Testable /\ pc' = "undo certificates" /\ work' = [work EXCEPT !.live = TRUE]
    /\ UNCHANGED <<desired, failing, disk, runtimes, torn>>

Reload ==
    /\ pc = "reload"
    /\ \/ Adopted /\ pc' = "listen" /\ UNCHANGED work
       \/ NotAdopted /\ pc' = "undo certificates" /\ work' = [work EXCEPT !.live = TRUE]
    /\ UNCHANGED <<desired, failing, disk, runtimes, torn>>

Listening ==
    /\ pc = "listen"
    /\ pc' = "persist"
    /\ UNCHANGED <<desired, failing, disk, loaded, runtimes, work, torn, faults>>

PersistPools ==
    /\ pc = "persist"
    /\ circuits' = work.pending
    /\ pc' = "version"
    /\ UNCHANGED <<desired, failing, files, applied, loaded, runtimes, work, torn, faults>>

WriteAppliedVersion ==
    /\ pc = "version"
    /\ applied' = work.version
    /\ pc' = "commit"
    /\ UNCHANGED <<desired, failing, files, circuits, loaded, runtimes, work, torn, faults>>

\* The new runtimes are taken over and the files of pools no longer used go.
Commit ==
    /\ pc = "commit"
    /\ runtimes' = work.pending
    /\ files' = [files EXCEPT !.pools = [p \in Pools |->
                    IF p \in DOMAIN runtimes \ Uses[work.version] THEN "absent" ELSE @[p]]]
    /\ torn' = FALSE
    /\ pc' = "idle" /\ work' = NoWork
    /\ UNCHANGED <<desired, failing, applied, circuits, loaded, faults>>

\* Mutant: a pool file that cannot be removed after all is done fails it.
ApplyFailsLate ==
    /\ pc \in {"certificates", "config", "pools", "listen", "persist", "version", "commit"}
    /\ Fault
    /\ pc' = "undo certificates"
    /\ work' = [work EXCEPT !.live = pc \in {"listen", "persist", "version", "commit"}]
    /\ UNCHANGED <<desired, failing, disk, loaded, runtimes, torn>>

\* A write fails, or nginx does not listen on every port.  Before the reload
\* the files are restored only, after it nginx is reloaded as well.
ApplyFails ==
    /\ pc \in {"certificates", "config", "pools", "listen", "persist", "version"}
    /\ Fault
    /\ pc' = "undo certificates"
    /\ work' = [work EXCEPT !.live = pc \in {"listen", "persist", "version"}]
    /\ UNCHANGED <<desired, failing, disk, loaded, runtimes, torn>>

\* restoreBackups.
UndoCertificates ==
    /\ pc = "undo certificates"
    /\ files' = [files EXCEPT !.certificates = work.files.certificates]
    /\ pc' = "undo pools"
    /\ UNCHANGED <<desired, failing, applied, circuits, loaded, runtimes, work, torn, faults>>

AfterPools == IF work.pool = NoPool THEN "undo config" ELSE "undo reload"
AfterConfig == IF work.live THEN "undo reload" ELSE "failed"

\* Mutant: only the include files are restored.
UndoPoolFiles ==
    /\ pc = "undo pools"
    /\ files' = [files EXCEPT !.pools = work.files.pools]
    /\ pc' = AfterPools
    /\ UNCHANGED <<desired, failing, applied, circuits, loaded, runtimes, work, torn, faults>>

\* originPoolStage.Rollback; the include file of a pool whose switch failed.
UndoPools ==
    /\ pc = "undo pools"
    /\ files' = [files EXCEPT !.pools = work.files.pools]
    /\ circuits' = IF work.pool = NoPool THEN work.circuits ELSE circuits
    /\ pc' = AfterPools
    /\ UNCHANGED <<desired, failing, applied, loaded, runtimes, work, torn, faults>>

\* restoreConfigurationFiles.
UndoConfig ==
    /\ pc = "undo config"
    /\ files' = [files EXCEPT !.config = work.files.config]
    /\ pc' = AfterConfig
    /\ UNCHANGED <<desired, failing, applied, circuits, loaded, runtimes, work, torn, faults>>

\* A write of a rollback fails: the error is ignored.
UndoFails ==
    /\ \/ pc = "undo certificates" /\ pc' = "undo pools"
       \/ pc = "undo pools" /\ pc' = AfterPools
       \/ pc = "undo config" /\ pc' = AfterConfig
       \/ pc = "undo circuits" /\ pc' = "idle"
    /\ Fault
    /\ work' = IF pc' = "idle" THEN NoWork ELSE work
    /\ torn' = TRUE
    /\ UNCHANGED <<desired, failing, disk, loaded, runtimes>>

\* The outcome is ignored.
UndoReload ==
    /\ pc = "undo reload"
    /\ \/ Adopted /\ UNCHANGED torn
       \/ NotAdopted /\ torn' = (torn \/ loaded # files)
    /\ pc' = IF work.pool = NoPool THEN "failed" ELSE "undo circuits"
    /\ UNCHANGED <<desired, failing, disk, runtimes, work>>

\* applyFailed.
Fail ==
    /\ pc = "failed"
    /\ pc' = "idle" /\ work' = NoWork
    /\ UNCHANGED <<desired, failing, disk, loaded, runtimes, torn, faults>>

-------------------------------------------------------------------------------
(* Origin probes: applyOriginProbeResult *)

\* A result that leaves the circuit as it is only counts; a transition is
\* persisted first, and is taken over at once unless nginx has to follow.  If
\* it cannot be persisted the result is dropped, as if it had not come.
Probe(p, layer) ==
    /\ pc = "idle"
    /\ p \in DOMAIN runtimes
    /\ LET next == IF <<p, layer>> \in failing THEN Failed(runtimes[p], layer)
                                               ELSE Succeeded(runtimes[p], layer)
           pending == [runtimes EXCEPT ![p] = next]
           switched == Directive(next.circuit) # Directive(runtimes[p].circuit)
       IN  /\ circuits' = IF next.circuit = runtimes[p].circuit THEN circuits ELSE pending
           /\ runtimes' = IF switched THEN runtimes ELSE pending
           /\ pc' = IF switched THEN "switch" ELSE "idle"
           /\ work' = IF switched THEN [NoWork EXCEPT !.pool = p, !.files = files, !.pending = pending]
                                  ELSE work
    /\ UNCHANGED <<desired, failing, files, applied, loaded, torn, faults>>

Switch ==
    /\ pc = "switch"
    /\ files' = [files EXCEPT !.pools[work.pool] = Directive(work.pending[work.pool].circuit)]
    /\ pc' = "switch reload"
    /\ UNCHANGED <<desired, failing, applied, circuits, loaded, runtimes, work, torn, faults>>

SwitchFails ==
    /\ pc = "switch"
    /\ Fault
    /\ pc' = "undo pools"
    /\ UNCHANGED <<desired, failing, disk, loaded, runtimes, work, torn>>

\* Mutant: the transition is taken over before the reload.
SwitchThenReload ==
    /\ pc = "switch reload"
    /\ runtimes' = work.pending
    /\ \/ Adopted /\ pc' = "idle" /\ work' = NoWork
       \/ NotAdopted /\ pc' = "undo pools" /\ UNCHANGED work
    /\ UNCHANGED <<desired, failing, disk, torn>>

SwitchReload ==
    /\ pc = "switch reload"
    /\ \/ Adopted /\ runtimes' = work.pending /\ pc' = "idle" /\ work' = NoWork
       \/ NotAdopted /\ pc' = "undo pools" /\ UNCHANGED <<runtimes, work>>
    /\ UNCHANGED <<desired, failing, disk, torn>>

\* The persisted state is written back as it is in memory.
UndoCircuits ==
    /\ pc = "undo circuits"
    /\ circuits' = runtimes
    /\ pc' = "idle" /\ work' = NoWork
    /\ UNCHANGED <<desired, failing, files, applied, loaded, runtimes, torn, faults>>

-------------------------------------------------------------------------------
(* The agent's process *)

\* Between these statements no file is ahead of another.
Whole == {"idle", "certificates", "commit", "failed"}

Kill ==
    /\ pc # "stopped"
    /\ faults.kill < MaxKills
    /\ faults' = [faults EXCEPT !.kill = @ + 1]
    /\ pc' = "stopped" /\ work' = NoWork /\ runtimes' = NoRuntimes
    /\ torn' = (torn \/ pc \notin Whole)
    /\ UNCHANGED <<desired, failing, disk, loaded>>

\* loadOriginRuntime.
Start ==
    /\ pc = "stopped"
    /\ runtimes' = circuits
    /\ pc' = "idle"
    /\ UNCHANGED <<desired, failing, disk, loaded, work, torn, faults>>

-------------------------------------------------------------------------------

Apply == StageCertificates \/ WriteConfig \/ StageOriginPools \/ Reload \/ Listening \/ PersistPools
         \/ WriteAppliedVersion \/ Commit
Undo == UndoCertificates \/ UndoPools \/ UndoConfig \/ UndoReload \/ UndoCircuits \/ Fail

Next ==
    \/ OfferVersion \/ OriginChanges
    \/ BeginApply \/ Apply \/ ApplyFails
    \/ Undo \/ UndoFails
    \/ \E p \in Pools, layer \in Layers : Probe(p, layer)
    \/ Switch \/ SwitchFails \/ SwitchReload
    \/ Kill \/ Start

Spec == Init /\ [][Next]_vars

\* The holder of the mutex goes on; the loops are tickers, and Go's mutex
\* lets none of them starve.
LiveSpec ==
    /\ Spec
    /\ WF_vars(Apply \/ Undo \/ Switch \/ SwitchReload \/ Start)
    /\ SF_vars(BeginApply)
    /\ \A p \in Pools, layer \in Layers : SF_vars(Probe(p, layer))

-------------------------------------------------------------------------------
(* Properties *)

\* The applied version is written only when nginx has loaded all of that
\* version: a rejected reload or a missing listener never counts as applied.
AppliedMeansLoaded ==
    [][applied' # applied =>
          /\ applied' > applied
          /\ loaded.config = applied' /\ loaded.certificates = applied']_vars

\* nginx never goes back behind the applied version, which the controller takes
\* for what the edge serves: neither a rollback nor a switched pool loads older
\* files, wherever the agent has been killed.
LoadedNotBehind ==
    loaded.config >= applied /\ loaded.certificates >= applied

\* Whatever failed, the edge is in one piece when nobody is at work on it: all
\* files are of the applied version, nginx has loaded them, and the persisted
\* circuits, those in memory and the include files of the pools agree.
RollbackRestores ==
    pc = "idle" /\ ~torn =>
        /\ files.config = applied /\ files.certificates = applied
        /\ loaded.config = applied /\ loaded.certificates = applied
        /\ DOMAIN runtimes = Uses[applied] /\ DOMAIN circuits = Uses[applied]
        /\ \A p \in Uses[applied] :
              /\ circuits[p].circuit = runtimes[p].circuit
              /\ files.pools[p] = Directive(runtimes[p].circuit)
              /\ loaded.pools[p] = files.pools[p]

Used(p) == p \in Uses[loaded.config]

\* A version that nginx accepts is applied in the end, unless a newer one is
\* offered, whatever an interrupted or failed change has left behind.
DesiredStateApplied ==
    \A v \in Versions \ Broken : desired = v ~> applied = v \/ desired > v

\* When the probes of an origin keep failing in a layer, nginx stops using it,
\* and when they succeed in both, nginx uses it again; failed reloads on the way
\* do not make the agent and nginx disagree for ever.
OriginFollowed ==
    \A p \in Pools :
        LET Follows(state) == <>[](torn \/ ~Used(p) \/ loaded.pools[p] = state)
        IN  /\ <>[](\A l \in Layers : <<p, l>> \notin failing) => Follows("up")
            /\ \A l \in Layers : <>[](<<p, l>> \in failing) => Follows("down")

\* Both loops of the agent get there, whatever failed or was killed on the way.
EdgeSettles == DesiredStateApplied /\ OriginFollowed

===============================================================================
