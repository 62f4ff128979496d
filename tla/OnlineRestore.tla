---------------------------- MODULE OnlineRestore ----------------------------
(***************************************************************************)
(* Online restore: a job stages and verifies a snapshot beside the running *)
(* controller, is committed, and the next start of the controller swaps    *)
(* the live data for it before it opens the database                       *)
(* (internal/control/online_restore.go, online_restore_apply.go,           *)
(* online_restore_clickhouse.go, backup_health.go).  Backup and            *)
(* certificate scripts take the operations lock; compose restarts the      *)
(* controller whenever it exits.                                           *)
(*                                                                         *)
(* Live data are five parts.  Each is swapped by two renames, out of the   *)
(* way and in its place, and a rollback takes the renames back in reverse. *)
(* The seven paths beside control TLS are represented by three: one that   *)
(* is never staged (wal, left by a controller that was killed), one that   *)
(* always is (db), one that may not exist yet (assets).                    *)
(***************************************************************************)
EXTENDS Integers, Sequences

CONSTANTS
  Snapshots,    \* the snapshots in the repository at first
  MaxJobs,      \* bound: restore jobs
  MaxMishapsR   \* bound: failing calls, writes and renames, timeouts, kills

ASSUME RestoreAssumption ==
  MaxJobs \in Nat /\ MaxMishapsR \in Nat

VARIABLES
  restoreJob,   \* OnlineRestoreManager.job
  storedJob,    \* restore-job.json
  snapshots,    \* the Restic repository
  control,      \* the controller: starting, up, exiting, applying, refused
  stage,        \* the goroutine of the job: what it does next
  prepared,     \* jobs whose files and temporary database are there
  holding,      \* the request that holds a mutex: Commit mu, DeleteSnapshot snapshotMu
  marker,       \* maintenance.lock: a job or 0
  operating,    \* a backup or certificate script holds operations.lock
  data,         \* each part: live, staged and set aside (`rollback') content
  renames,      \* renames of the cutover that are done
  undoing,      \* the cutover is being rolled back, and whether that failed
  expected,     \* history: what the live data ought to be
  restoreMishaps

restoreVars == <<restoreJob, storedJob, snapshots, control, stage, prepared, holding, marker,
                 operating, data, renames, undoing, expected, restoreMishaps>>

Parts == <<"clickhouse", "wal", "db", "assets", "tls">>
PartNames == {Parts[i] : i \in DOMAIN Parts}
Contents == Snapshots \union {"old", "none"}

Preparing(state) == state \in {"queued", "downloading", "validating"}
ActiveRestore(state) == Preparing(state) \/ state \in {"ready", "committing"}

NotUndoing == [on |-> FALSE, incomplete |-> FALSE]

RestoreInit ==
  /\ restoreJob = [id |-> 0, snapshot |-> "none", verify |-> FALSE, state |-> "none"]
  /\ storedJob = restoreJob /\ snapshots = Snapshots
  /\ control = "up" /\ stage = "off" /\ prepared = {} /\ holding = "none"
  /\ marker = 0 /\ operating = FALSE
  /\ \E assets \in {"old", "none"} :
       expected = [p \in PartNames |->
                     CASE p = "wal" -> "none" [] p = "assets" -> assets [] OTHER -> "old"]
  /\ data = [p \in PartNames |-> [live |-> expected[p], staged |-> "none", rollback |-> "none"]]
  /\ renames = 0 /\ undoing = NotUndoing /\ restoreMishaps = 0

RestoreMishap == restoreMishaps < MaxMishapsR /\ restoreMishaps' = restoreMishaps + 1

-----------------------------------------------------------------------------
(* The job beside the running controller.                                  *)

CutoverUnchanged == UNCHANGED <<data, renames, undoing, expected>>

\* Both kinds of job, refused while one is active or its goroutine still runs.
StartJob(s, verify) ==
  /\ control = "up" /\ holding = "none"
  /\ stage = "off" /\ ~ActiveRestore(restoreJob.state) /\ restoreJob.id < MaxJobs
  /\ restoreJob' = [id |-> restoreJob.id + 1, snapshot |-> s, verify |-> verify, state |-> "queued"]
  /\ storedJob' = restoreJob'
  /\ prepared' = prepared \ {restoreJob.id} /\ stage' = "begin"
  /\ UNCHANGED <<snapshots, control, holding, marker, operating, restoreMishaps>> /\ CutoverUnchanged

StartRestore == \E s \in Snapshots : StartJob(s, FALSE)

\* The health loop verifies the latest snapshot now and then.
VerifyLatest == \E s \in snapshots : StartJob(s, TRUE)

\* The goroutine ends: a job that is over loses its files and its database.
EndStage(state) ==
  /\ stage' = "off"
  /\ prepared' = IF state \in {"cancelled", "failed"} THEN prepared \ {restoreJob.id} ELSE prepared

FailJob ==
  /\ IF restoreJob.state = "cancelled" THEN UNCHANGED <<restoreJob, storedJob>>
     ELSE restoreJob' = [restoreJob EXCEPT !.state = "failed"] /\ storedJob' = restoreJob'
  /\ EndStage("failed")

\* Mutant: a job is updated although it was cancelled meanwhile.
UpdateJobAnyway(state, next) ==
  \/ /\ restoreJob' = [restoreJob EXCEPT !.state = state] /\ storedJob' = restoreJob'
     /\ IF next = "off" THEN EndStage(state) ELSE stage' = next /\ UNCHANGED prepared
     /\ UNCHANGED restoreMishaps
  \/ /\ restoreJob.state # "cancelled" /\ RestoreMishap
     /\ restoreJob' = [restoreJob EXCEPT !.state = "failed"]
     /\ storedJob' \in {storedJob, restoreJob'} /\ EndStage("failed")

\* updateJob: a cancelled job is left alone, and a job that cannot be written fails.
UpdateJob(state, next) ==
  \/ /\ restoreJob.state = "cancelled"
     /\ EndStage("cancelled") /\ UNCHANGED <<restoreJob, storedJob, restoreMishaps>>
  \/ /\ restoreJob.state # "cancelled"
     /\ restoreJob' = [restoreJob EXCEPT !.state = state] /\ storedJob' = restoreJob'
     /\ IF next = "off" THEN EndStage(state) ELSE stage' = next /\ UNCHANGED prepared
     /\ UNCHANGED restoreMishaps
  \/ /\ restoreJob.state # "cancelled" /\ RestoreMishap
     /\ restoreJob' = [restoreJob EXCEPT !.state = "failed"]
     /\ storedJob' \in {storedJob, restoreJob'} /\ EndStage("failed")

StageOnly == UNCHANGED <<snapshots, control, holding, marker, operating>> /\ CutoverUnchanged

BeginDownload ==
  /\ stage = "begin" /\ holding # "commit" /\ UpdateJob("downloading", "download") /\ StageOnly

Download ==
  /\ stage = "download" /\ holding # "commit"
  /\ \/ restoreJob.snapshot \in snapshots /\ UpdateJob("validating", "restore")
     \/ restoreJob.snapshot \notin snapshots /\ FailJob /\ UNCHANGED restoreMishaps
     \/ RestoreMishap /\ FailJob
  /\ StageOnly

\* Validate the files, restore into the temporary database, validate that.
RestoreTemporary ==
  /\ stage = "restore" /\ holding # "commit"
  /\ \/ prepared' = prepared \union {restoreJob.id} /\ stage' = "finish"
        /\ UNCHANGED <<restoreJob, storedJob, restoreMishaps>>
     \/ RestoreMishap /\ FailJob
  /\ StageOnly

FinishVerification ==
  /\ stage = "finish" /\ holding # "commit" /\ restoreJob.verify
  /\ \/ restoreJob.id \in prepared /\ prepared' = prepared \ {restoreJob.id}
        /\ UNCHANGED <<restoreJob, storedJob, stage, restoreMishaps>>
     \/ restoreJob.id \notin prepared /\ UpdateJob("verified", "off")
     \/ RestoreMishap /\ FailJob
  /\ StageOnly

FinishPreparation ==
  /\ stage = "finish" /\ holding # "commit" /\ ~restoreJob.verify /\ UpdateJob("ready", "off") /\ StageOnly

CancelRestore ==
  /\ control = "up" /\ holding # "commit"
  /\ restoreJob.state \notin {"none", "committing", "completed", "verified", "cancelled"}
  /\ restoreJob' = [restoreJob EXCEPT !.state = "cancelled"] /\ storedJob' = restoreJob'
  /\ marker' = IF marker = restoreJob.id THEN 0 ELSE marker
  /\ prepared' = IF Preparing(restoreJob.state) THEN prepared ELSE prepared \ {restoreJob.id}
  /\ UNCHANGED <<snapshots, control, stage, holding, operating, restoreMishaps>> /\ CutoverUnchanged

\* Commit, under mu: the marker first, then the lock, which running scripts
\* hold, then the state.  A state that cannot be written stays in memory.
BeginCommit ==
  /\ control = "up" /\ holding = "none"
  /\ restoreJob.state = "ready" /\ ~restoreJob.verify /\ restoreJob.id \in prepared /\ marker = 0
  /\ marker' = restoreJob.id /\ holding' = "commit"
  /\ UNCHANGED <<restoreJob, storedJob, snapshots, control, stage, prepared, operating,
                 restoreMishaps>> /\ CutoverUnchanged

CommitRestore ==
  /\ holding = "commit" /\ holding' = "none"
  /\ \/ /\ ~operating
        /\ restoreJob' = [restoreJob EXCEPT !.state = "committing"] /\ storedJob' = restoreJob'
        /\ control' = "exiting" /\ UNCHANGED <<marker, restoreMishaps>>
     \/ /\ ~operating /\ RestoreMishap /\ marker' = 0
        /\ restoreJob' = [restoreJob EXCEPT !.state = "committing"] /\ UNCHANGED <<storedJob, control>>
     \/ /\ operating /\ RestoreMishap /\ marker' = 0 /\ UNCHANGED <<restoreJob, storedJob, control>>
  /\ UNCHANGED <<snapshots, stage, prepared, operating>> /\ CutoverUnchanged

\* DeleteSnapshot holds snapshotMu and waits for the operations lock.
BeginDeleteSnapshot(s) ==
  /\ control = "up" /\ holding = "none" /\ s \in snapshots /\ ~ActiveRestore(restoreJob.state)
  /\ holding' = s
  /\ UNCHANGED <<restoreJob, storedJob, snapshots, control, stage, prepared, marker, operating,
                 restoreMishaps>> /\ CutoverUnchanged

DeleteSnapshot ==
  /\ holding \in Snapshots /\ holding' = "none"
  /\ \/ ~operating /\ snapshots' = snapshots \ {holding} /\ UNCHANGED restoreMishaps
     \/ RestoreMishap /\ UNCHANGED snapshots
  /\ UNCHANGED <<restoreJob, storedJob, control, stage, prepared, marker, operating>>
  /\ CutoverUnchanged

\* compose-backup.sh and compose-certbot.sh: the lock, then a look at the marker.
\* The controller holds it from the commit to its exit, and in the cutover.
RunOperation ==
  /\ \/ operating /\ operating' = FALSE
     \/ ~operating /\ control \notin {"exiting", "applying"} /\ marker = 0 /\ operating' = TRUE
  /\ UNCHANGED <<restoreJob, storedJob, snapshots, control, stage, prepared, holding, marker,
                 restoreMishaps>> /\ CutoverUnchanged

-----------------------------------------------------------------------------
(* The controller stops and starts.                                        *)

Stopped(wal) ==
  /\ control' = "starting" /\ stage' = "off" /\ holding' = "none"
  /\ data' = [data EXCEPT !["wal"].live = wal] /\ expected' = [expected EXCEPT !["wal"] = wal]
  /\ UNCHANGED <<restoreJob, storedJob, snapshots, prepared, marker, operating, renames, undoing>>

ExitForCutover == control = "exiting" /\ Stopped("none") /\ UNCHANGED restoreMishaps

\* A killed controller leaves the write-ahead log of its database.
KillControl == control \in {"up", "exiting"} /\ RestoreMishap /\ Stopped(data["db"].live)

\* The marker of an incomplete rollback keeps the controller from starting.
RefuseStart ==
  /\ control = "starting" /\ storedJob.state = "failed" /\ marker # 0
  /\ control' = "refused"
  /\ UNCHANGED <<restoreJob, storedJob, snapshots, stage, prepared, holding, marker, operating,
                 restoreMishaps>> /\ CutoverUnchanged

\* Mutant: the new manager takes up the job as it is stored.
RecoveredAsIs(j) == j

\* NewOnlineRestoreManager: an interrupted preparation has failed.
Recovered(j) == IF Preparing(j.state) THEN [j EXCEPT !.state = "failed"] ELSE j

OpenControl ==
  /\ control = "starting" /\ storedJob.state # "committing"
  /\ ~(storedJob.state = "failed" /\ marker # 0)
  /\ control' = "up" /\ marker' = IF marker = storedJob.id THEN 0 ELSE marker
  /\ storedJob' = Recovered(storedJob)
  /\ prepared' = IF Preparing(storedJob.state) THEN prepared \ {storedJob.id} ELSE prepared
  /\ restoreJob' = storedJob'
  /\ data' = [data EXCEPT !["wal"].live = "none"] /\ expected' = [expected EXCEPT !["wal"] = "none"]
  /\ UNCHANGED <<snapshots, stage, holding, operating, renames, undoing, restoreMishaps>>

-----------------------------------------------------------------------------
(* The cutover, before the database is opened.                             *)

CutoverOnly == UNCHANGED <<restoreJob, snapshots, stage, holding, operating>>

\* failPendingOnlineRestore; what was staged for the cutover is removed.
FailPending(incomplete) ==
  /\ control' = "starting" /\ renames' = 0 /\ undoing' = NotUndoing
  /\ storedJob' = [storedJob EXCEPT !.state = "failed"]
  /\ marker' = IF incomplete THEN marker ELSE 0
  /\ prepared' = IF incomplete THEN prepared ELSE prepared \ {storedJob.id}
  /\ data' = [p \in PartNames |-> [data[p] EXCEPT !.staged = "none"]]
  /\ CutoverOnly /\ UNCHANGED expected

Staged(p) == IF p = "wal" THEN "none" ELSE storedJob.snapshot

\* The lock, the hashes, the temporary database, the staged copies.
BeginCutover ==
  /\ control = "starting" /\ storedJob.state = "committing" /\ ~operating
  /\ \/ /\ storedJob.id \in prepared /\ control' = "applying"
        /\ data' = [p \in PartNames |-> [data[p] EXCEPT !.staged = Staged(p)]]
        /\ renames' = 0 /\ CutoverOnly
        /\ UNCHANGED <<storedJob, prepared, marker, undoing, expected, restoreMishaps>>
     \/ storedJob.id \in prepared /\ RestoreMishap /\ FailPending(FALSE)
     \/ storedJob.id \notin prepared /\ UNCHANGED restoreMishaps /\ FailPending(FALSE)

\* The next rename concerns this part; even ones put it out of the way.
Part(n) == Parts[(n \div 2) + 1]
Out(n) == n % 2 = 0

Renamed(n) ==
  LET p == Part(n) IN
  IF Out(n) THEN [data EXCEPT ![p].rollback = data[p].live, ![p].live = "none"]
  ELSE IF data[p].staged = "none" THEN data
  ELSE [data EXCEPT ![p].live = data[p].staged, ![p].staged = "none"]

\* The temporary database is not there any more when it has the live name.
PreparedAfter(n) == IF n = 1 THEN prepared \ {storedJob.id} ELSE prepared

Going == control = "applying" /\ ~undoing.on

\* A database under the rollback name stops the cutover before it begins.
\* No other part is met half swapped: see BeginCutover.
RenameNext ==
  /\ Going /\ renames < 2 * Len(Parts)
  /\ renames = 0 => data["clickhouse"].rollback = "none"
  /\ data' = Renamed(renames) /\ prepared' = PreparedAfter(renames) /\ renames' = renames + 1
  /\ CutoverOnly /\ UNCHANGED <<storedJob, control, marker, undoing, expected, restoreMishaps>>

StartUndo(incomplete) == undoing' = [on |-> TRUE, incomplete |-> incomplete]

\* A rename in ClickHouse of which nobody can tell whether it happened.
RenameUnknown ==
  /\ Going /\ renames < 2 /\ (renames = 0 => data["clickhouse"].rollback = "none")
  /\ RestoreMishap /\ StartUndo(TRUE)
  /\ data' = Renamed(renames) /\ prepared' = PreparedAfter(renames)
  /\ CutoverOnly /\ UNCHANGED <<storedJob, control, marker, renames, expected>>

\* A rename fails, or the phase cannot be written.
CutoverFails ==
  /\ Going /\ renames < 2 * Len(Parts)
  /\ \/ RestoreMishap
     \/ renames = 0 /\ data["clickhouse"].rollback # "none" /\ UNCHANGED restoreMishaps
  /\ StartUndo(FALSE)
  /\ CutoverOnly /\ UNCHANGED <<storedJob, control, prepared, marker, data, renames, expected>>

RejectPromoted ==
  /\ Going /\ renames = 2 * Len(Parts) /\ RestoreMishap /\ StartUndo(FALSE)
  /\ CutoverOnly /\ UNCHANGED <<storedJob, control, prepared, marker, data, renames, expected>>

Undone(n) ==
  LET p == Part(n) IN
  IF Out(n) THEN [data EXCEPT ![p].live = data[p].rollback, ![p].rollback = "none"]
  ELSE IF data[p].live = "none" THEN data
  ELSE [data EXCEPT ![p].staged = data[p].live, ![p].live = "none"]

\* The rename that a failed one leaves to be taken back: what cannot be taken
\* out of its place keeps the old content from its place.
NextUndo == IF Out(renames - 1) THEN renames - 1 ELSE renames - 2

\* Mutant: a failing rename is logged and the rollback goes on.
UndoForgiven ==
  /\ control = "applying" /\ undoing.on /\ renames > 0
  /\ \/ data' = Undone(renames - 1) /\ renames' = renames - 1 /\ UNCHANGED <<undoing, restoreMishaps>>
     \/ RestoreMishap /\ renames' = NextUndo /\ UNCHANGED <<undoing, data>>
  /\ CutoverOnly /\ UNCHANGED <<storedJob, control, prepared, marker, expected>>

UndoRename ==
  /\ control = "applying" /\ undoing.on /\ renames > 0
  /\ \/ data' = Undone(renames - 1) /\ renames' = renames - 1 /\ UNCHANGED <<undoing, restoreMishaps>>
     \/ RestoreMishap /\ renames' = NextUndo /\ StartUndo(TRUE) /\ UNCHANGED data
  /\ CutoverOnly /\ UNCHANGED <<storedJob, control, prepared, marker, expected>>

EndUndo ==
  /\ control = "applying" /\ undoing.on /\ renames = 0
  /\ FailPending(undoing.incomplete) /\ UNCHANGED restoreMishaps

\* The previous data stay under names of this job.
CompleteRestore ==
  /\ Going /\ renames = 2 * Len(Parts)
  /\ storedJob' = [storedJob EXCEPT !.state = "completed"]
  /\ control' = "starting" /\ marker' = 0 /\ renames' = 0
  /\ data' = [p \in PartNames |-> [data[p] EXCEPT !.rollback = "none", !.staged = "none"]]
  /\ expected' = [p \in PartNames |-> Staged(p)]
  /\ CutoverOnly /\ UNCHANGED <<prepared, undoing, restoreMishaps>>

\* The controller is killed in the cutover, or its last write fails.
InterruptCutover ==
  /\ control = "applying" /\ RestoreMishap
  /\ control' = "starting" /\ renames' = 0 /\ undoing' = NotUndoing
  /\ CutoverOnly /\ UNCHANGED <<storedJob, prepared, marker, data, expected>>

-----------------------------------------------------------------------------
StageStep == BeginDownload \/ Download \/ RestoreTemporary \/ FinishVerification \/ FinishPreparation

ControlStep == ExitForCutover \/ RefuseStart \/ OpenControl

CutoverStep ==
  \/ BeginCutover \/ RenameNext \/ RenameUnknown \/ CutoverFails \/ RejectPromoted
  \/ UndoRename \/ EndUndo \/ CompleteRestore

RestoreNext ==
  \/ StartRestore \/ VerifyLatest \/ CancelRestore \/ BeginCommit \/ CommitRestore
  \/ StageStep \/ RunOperation \/ KillControl \/ ControlStep \/ CutoverStep
  \/ (\E s \in Snapshots : BeginDeleteSnapshot(s)) \/ DeleteSnapshot

\* The goroutine, a request once begun, the scripts, and compose's restarts go on.
RestoreFairness ==
  /\ WF_restoreVars(StageStep) /\ WF_restoreVars(CommitRestore) /\ WF_restoreVars(DeleteSnapshot)
  /\ WF_restoreVars(operating /\ RunOperation)
  /\ WF_restoreVars(ControlStep) /\ WF_restoreVars(CutoverStep)

RestoreSpec == RestoreInit /\ [][RestoreNext]_restoreVars /\ RestoreFairness

InterruptedRestore ==
  RestoreInit /\ [][RestoreNext \/ InterruptCutover]_restoreVars /\ RestoreFairness

-----------------------------------------------------------------------------
RestoreTypeOK ==
  /\ \A j \in {restoreJob, storedJob} :
       j \in [id : 0..MaxJobs, snapshot : Snapshots \union {"none"}, verify : BOOLEAN,
              state : {"none", "queued", "downloading", "validating", "ready", "verified",
                       "committing", "completed", "failed", "cancelled"}]
  /\ snapshots \subseteq Snapshots
  /\ control \in {"starting", "up", "exiting", "applying", "refused"}
  /\ stage \in {"off", "begin", "download", "restore", "finish"}
  /\ prepared \subseteq 1..MaxJobs /\ marker \in 0..MaxJobs
  /\ holding \in Snapshots \union {"none", "commit"} /\ operating \in BOOLEAN
  /\ data \in [PartNames -> [live : Contents, staged : Contents, rollback : Contents]]
  /\ renames \in 0..(2 * Len(Parts)) /\ undoing \in [on : BOOLEAN, incomplete : BOOLEAN]
  /\ expected \in [PartNames -> Contents] /\ restoreMishaps \in 0..MaxMishapsR

\* docs/COMPOSE_DEPLOYMENT.md:172: "rather than resume writers against a mixed
\* state": the controller opens its database only with data that are all of the
\* snapshot, when the job completed, and otherwise all as they were when it stopped.
CutoverAllOrNothing ==
  [][control = "starting" /\ control' = "up" =>
       \A p \in PartNames : data[p].live = expected[p]]_restoreVars

\* A snapshot is never pruned while a job downloads or is about to apply it,
\* and a cancelled job never becomes ready again.
RestoreSourceKept ==
  [][/\ ActiveRestore(restoreJob'.state) => restoreJob'.snapshot \notin snapshots \ snapshots'
     /\ restoreJob.state = "cancelled" /\ restoreJob'.id = restoreJob.id
          => restoreJob'.state = "cancelled"]_restoreVars

\* A preparation ends, a committed restore is applied or rolled back, and
\* neither is ever left without its snapshot.
RestoreSettles ==
  /\ []RestoreTypeOK
  /\ RestoreSourceKept
  /\ Preparing(restoreJob.state) ~> ~Preparing(restoreJob.state)
  /\ storedJob.state = "committing" ~> storedJob.state # "committing"
=============================================================================
