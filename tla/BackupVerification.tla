-------------------------- MODULE BackupVerification --------------------------
(***************************************************************************)
(* The controller's watch over its backups (control/backup_health.go):     *)
(* stale and stalled runs and failed verifications are told once, and the  *)
(* newest snapshot is restored into isolation when the last proof is too   *)
(* old.  The job of a verification is that of a restore                    *)
(* (control/online_restore.go); its record is a file of its own, written   *)
(* after the job's, and the process may be killed between the two.         *)
(***************************************************************************)
EXTENDS Naturals, FiniteSets

CONSTANTS
  FreshHours, StallHours, ProofHours, RetryHours,   \* ages that matter
  MaxHours, MaxRestoreJobs, MaxBackups, MaxWatchFaults   \* bounds

ASSUME VerificationAssumption ==
  {FreshHours, StallHours, ProofHours, RetryHours, MaxHours, MaxRestoreJobs, MaxBackups,
   MaxWatchFaults} \subseteq Nat

VARIABLES
  hour,       \* the clock
  backupRun,  \* the backup's status file
  newest,     \* the newest snapshot
  serving,    \* the controller runs
  restoreJob, \* the job in memory
  jobOnDisk,  \* its file
  stager,     \* the goroutine that prepares it has not ended
  watch,      \* who holds workMu and lists the snapshots: "idle", "tick", "admin"
  record,     \* backup-verification.json
  alerts,     \* messages of source backup_health
  proven,     \* history: proofs, the last first, and whether it was recorded
  failures,   \* history: failed verifications, and those replaced by an administrator
  lastTry,    \* history: when the watch last tried, if no job was cancelled since
  jobsMade,   \* ids given
  watchFaults \* faults so far

watchVars == <<hour, backupRun, newest, serving, restoreJob, jobOnDisk, stager, watch, record,
               alerts, proven, failures, lastTry, jobsMade, watchFaults>>

None == 0
NoJob == [id |-> None, only |-> FALSE, state |-> "none", of |-> None, at |-> None]
Active(job) == job.state \in {"preparing", "ready"}

\* evaluateBackupHealth
RunState ==
  IF backupRun.state = "running" /\ hour >= backupRun.started + StallHours THEN "stalled"
  ELSE IF backupRun.succeeded # None /\ hour >= backupRun.succeeded + FreshHours THEN "stale"
  ELSE IF backupRun.state \in {"failed", "running"} THEN backupRun.state
  ELSE IF backupRun.succeeded # None THEN "healthy" ELSE "unknown"

Overdue == record.provenAt = None \/ hour >= record.provenAt + ProofHours

-----------------------------------------------------------------------------
(* The two files *)

\* Mutant: the record is only that of the last attempt.
LastAttempt(job) ==
  [job |-> job.id, state |-> job.state, at |-> job.at,
   provenAt |-> IF job.state = "verified" THEN hour ELSE None,
   proof |-> IF job.state = "verified" THEN job.of ELSE None]

\* recordBackupVerification: a later attempt keeps the last proof.
Recorded(job) ==
  [job |-> job.id, state |-> job.state, at |-> job.at,
   provenAt |-> IF job.state = "verified" THEN hour ELSE record.provenAt,
   proof |-> IF job.state = "verified" THEN job.of ELSE record.proof]

\* What is remembered of a job for the properties.
Note(job, whole) ==
  /\ proven' = IF job.only /\ job.state = "verified"
               THEN [proof |-> job.of, before |-> record.proof, whole |-> whole] ELSE proven
  /\ failures' = IF job.only /\ job.state = "failed" /\ whole
                 THEN [failures EXCEPT !.all = @ \union {job.id}] ELSE failures

\* writeOnlineRestoreJob, and the job that is now in memory.
WriteJob(job) ==
  /\ restoreJob' = job /\ jobOnDisk' = job
  /\ record' = IF job.only THEN Recorded(job) ELSE record
  /\ Note(job, TRUE)
  /\ UNCHANGED <<serving, watchFaults>>

\* The process is killed after the job's file.
DieWriting(job) ==
  /\ watchFaults < MaxWatchFaults /\ watchFaults' = watchFaults + 1
  /\ jobOnDisk' = job /\ restoreJob' = NoJob /\ serving' = FALSE
  /\ UNCHANGED record

Persist(job) == WriteJob(job) \/ (DieWriting(job) /\ Note(job, FALSE))

-----------------------------------------------------------------------------
(* The watch *)

\* An alarm for each run and state, and for each failed verification.
Alarms ==
  (IF RunState \in {"stale", "stalled", "unknown"} THEN {<<"run", backupRun.started, RunState>>} ELSE {})
  \union (IF record.state = "failed" THEN {<<"verification", record.job, "failed">>} ELSE {})

\* Mutant: a failed verification is tried again at once.
DueNow == Overdue \/ record.state = "failed"

Due == /\ Overdue \/ record.state = "failed"
       /\ record.at # None => hour >= record.at + RetryHours

\* Mutant: a verification that failed is told when the next one fails too.
RunAlarms ==
  IF RunState \in {"stale", "stalled", "unknown"} THEN {<<"run", backupRun.started, RunState>>} ELSE {}

Told == Alarms

\* Tick: alarms first, each with a mail when its message is new; a mail that fails
\* ends the tick.
Tick ==
  /\ serving /\ watch = "idle"
  /\ alerts' = alerts \union Told
  /\ watch' \in (IF Due /\ RunState \notin {"running", "stalled"} /\ ~Active(restoreJob)
                 THEN {"tick"} ELSE {"idle"})
                \union (IF Told \subseteq alerts THEN {} ELSE {"idle"})
  /\ UNCHANGED <<hour, backupRun, newest, serving, restoreJob, jobOnDisk, stager, record, proven,
                 failures, lastTry, jobsMade, watchFaults>>

VerifyNow ==
  /\ serving /\ watch = "idle" /\ ~Active(restoreJob)
  /\ watch' = "admin"
  /\ UNCHANGED <<hour, backupRun, newest, serving, restoreJob, jobOnDisk, stager, record, alerts,
                 proven, failures, lastTry, jobsMade, watchFaults>>

\* A verification that failed is replaced before it was told.
Replaced(by) ==
  by = "admin" /\ record.state = "failed" /\ <<"verification", record.job, "failed">> \notin alerts

\* ListSnapshots fails, or there is none: the attempt is recorded without a job.
ListingFails ==
  /\ watch # "idle" /\ jobsMade < MaxRestoreJobs /\ jobsMade' = jobsMade + 1
  /\ newest = None \/ watchFaults < MaxWatchFaults
  /\ watchFaults' = IF newest = None THEN watchFaults ELSE watchFaults + 1
  /\ record' = Recorded([id |-> jobsMade + 1, state |-> "failed", at |-> hour, of |-> None])
  /\ failures' = [all |-> failures.all \union {jobsMade + 1},
                  replaced |-> failures.replaced \union (IF Replaced(watch) THEN {record.job} ELSE {})]
  /\ lastTry' = IF watch = "tick" THEN hour ELSE lastTry
  /\ watch' = "idle"
  /\ UNCHANGED <<hour, backupRun, newest, serving, restoreJob, jobOnDisk, stager, alerts, proven>>

\* start refuses while a job is active or its goroutine has not ended.
CanStart == ~stager /\ ~Active(restoreJob)

\* StartVerification of the newest snapshot, or of none if a job came between.
BeginVerification ==
  /\ watch # "idle" /\ newest # None
  /\ watch' = "idle"
  /\ \/ /\ CanStart /\ jobsMade < MaxRestoreJobs /\ jobsMade' = jobsMade + 1
        /\ LET job == [id |-> jobsMade + 1, only |-> TRUE, state |-> "preparing", of |-> newest, at |-> hour]
           IN \/ /\ restoreJob' = job /\ jobOnDisk' = job /\ record' = Recorded(job)
                 /\ stager' = TRUE /\ UNCHANGED <<serving, watchFaults>>
              \/ DieWriting(job) /\ stager' = FALSE
        /\ failures' = [failures EXCEPT !.replaced =
                          @ \union (IF Replaced(watch) THEN {record.job} ELSE {})]
        /\ lastTry' = IF watch = "tick" THEN hour ELSE lastTry
        /\ UNCHANGED proven
     \/ /\ ~CanStart
        /\ UNCHANGED <<serving, restoreJob, jobOnDisk, stager, record, failures, proven, lastTry,
                       jobsMade, watchFaults>>
  /\ UNCHANGED <<hour, backupRun, newest, alerts>>

-----------------------------------------------------------------------------
(* The job *)

StartRestore ==
  /\ serving /\ newest # None /\ CanStart
  /\ jobsMade < MaxRestoreJobs /\ jobsMade' = jobsMade + 1
  /\ WriteJob([id |-> jobsMade + 1, only |-> FALSE, state |-> "preparing", of |-> newest, at |-> hour])
  /\ stager' = TRUE
  /\ UNCHANGED <<hour, backupRun, newest, watch, alerts, lastTry>>

\* The goroutine ends; a cancelled job stays as it is.
EndStage(ok) ==
  /\ serving /\ stager
  /\ IF restoreJob.state = "cancelled"
     THEN /\ stager' = FALSE
          /\ UNCHANGED <<serving, restoreJob, jobOnDisk, record, proven, failures, watchFaults, watch>>
     ELSE /\ Persist([restoreJob EXCEPT !.state =
                        IF ~ok THEN "failed" ELSE IF restoreJob.only THEN "verified" ELSE "ready"])
          /\ stager' = FALSE
          /\ watch' = IF serving' THEN watch ELSE "idle"
  /\ UNCHANGED <<hour, backupRun, newest, alerts, lastTry, jobsMade>>

CancelJob ==
  /\ serving /\ restoreJob.state \in {"preparing", "ready", "failed"}
  /\ restoreJob' = [restoreJob EXCEPT !.state = "cancelled"] /\ jobOnDisk' = restoreJob'
  /\ record' = IF restoreJob.only THEN Recorded(restoreJob') ELSE record
  /\ failures' = [failures EXCEPT !.replaced = @ \union (IF restoreJob.only THEN {restoreJob.id, record.job} ELSE {})]
  /\ lastTry' = IF restoreJob.only THEN None ELSE lastTry
  /\ UNCHANGED <<hour, backupRun, newest, serving, stager, watch, alerts, proven, jobsMade, watchFaults>>

KillWatch ==
  /\ watchFaults < MaxWatchFaults /\ watchFaults' = watchFaults + 1
  /\ serving /\ serving' = FALSE
  /\ restoreJob' = NoJob /\ stager' = FALSE /\ watch' = "idle"
  /\ UNCHANGED <<hour, backupRun, newest, jobOnDisk, record, alerts, proven, failures, lastTry, jobsMade>>

\* NewOnlineRestoreManager: a preparation that was interrupted has failed.
RestartWatch ==
  /\ ~serving /\ serving' = TRUE
  /\ LET job == IF jobOnDisk.state = "preparing" THEN [jobOnDisk EXCEPT !.state = "failed"] ELSE jobOnDisk
     IN /\ restoreJob' = job /\ jobOnDisk' = job
        /\ IF job # jobOnDisk
           THEN record' = (IF job.only THEN Recorded(job) ELSE record) /\ Note(job, TRUE)
           ELSE UNCHANGED <<record, proven, failures>>
  /\ UNCHANGED <<hour, backupRun, newest, stager, watch, alerts, lastTry, jobsMade, watchFaults>>

-----------------------------------------------------------------------------
(* Around it *)

BackupSteps ==
  /\ \/ /\ backupRun.state # "running" /\ newest < MaxBackups
        /\ backupRun' = [backupRun EXCEPT !.state = "running", !.started = hour] /\ UNCHANGED newest
     \/ /\ backupRun.state = "running" /\ newest < MaxBackups /\ newest' = newest + 1
        /\ backupRun' = [backupRun EXCEPT !.state = "succeeded", !.succeeded = hour]
     \/ /\ backupRun.state = "running"
        /\ backupRun' = [backupRun EXCEPT !.state = "failed"] /\ UNCHANGED newest
  /\ UNCHANGED <<hour, serving, restoreJob, jobOnDisk, stager, watch, record, alerts, proven,
                 failures, lastTry, jobsMade, watchFaults>>

PassHour ==
  /\ hour < MaxHours /\ hour' = hour + 1
  /\ UNCHANGED <<backupRun, newest, serving, restoreJob, jobOnDisk, stager, watch, record, alerts,
                 proven, failures, lastTry, jobsMade, watchFaults>>

WatchInit ==
  /\ hour = 1 /\ backupRun = [state |-> "none", started |-> None, succeeded |-> None]
  /\ newest = None /\ serving = TRUE /\ restoreJob = NoJob /\ jobOnDisk = NoJob
  /\ stager = FALSE /\ watch = "idle"
  /\ record = [job |-> None, state |-> "never", at |-> None, provenAt |-> None, proof |-> None]
  /\ alerts = {} /\ proven = [proof |-> None, before |-> None, whole |-> TRUE]
  /\ failures = [all |-> {}, replaced |-> {}] /\ lastTry = None /\ jobsMade = 0 /\ watchFaults = 0

WatchNext ==
  \/ Tick \/ VerifyNow \/ ListingFails \/ BeginVerification \/ StartRestore
  \/ \E ok \in BOOLEAN : EndStage(ok)
  \/ CancelJob \/ KillWatch \/ RestartWatch \/ BackupSteps \/ PassHour

-----------------------------------------------------------------------------
(* Properties *)

WatchTypeOK ==
  /\ restoreJob.state \in {"none", "preparing", "ready", "verified", "failed", "cancelled"}
  /\ stager => serving /\ restoreJob.state \in {"preparing", "cancelled"}
  /\ restoreJob.state = "preparing" => stager
  /\ serving => restoreJob = jobOnDisk

\* The last proof is never forgotten, whatever failed, was cancelled or was
\* interrupted since; a kill between the two files costs at most the last one.
ProofKept ==
  /\ record.proof = proven.proof \/ (~proven.whole /\ record.proof = proven.before)
  /\ (record.proof = None) = (record.provenAt = None)

\* A failed verification that was recorded stays so until it was told, unless an
\* administrator cancels or replaces it.
FailuresTold ==
  \A id \in failures.all \ failures.replaced :
    \/ <<"verification", id, "failed">> \in alerts
    \/ record.job = id /\ record.state = "failed"

\* The watch waits between two attempts, also across a restart; a cancellation
\* lets it try at once.
AttemptsSpaced == watch = "tick" /\ lastTry # None => hour >= lastTry + RetryHours

\* The watch loses no proof and no failure and does not hurry
\* (control/backup_health.go).
WatchHolds == WatchTypeOK /\ ProofKept /\ FailuresTold /\ AttemptsSpaced
=============================================================================
