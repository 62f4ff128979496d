--------------------------- MODULE NginxArtifacts ---------------------------
(***************************************************************************)
(* Managed Nginx bundles on the controller: the check that downloads a new *)
(* stable release and catalogs it, its promotion, the collection of old    *)
(* files, the upgrade tasks that refer to a bundle, and the backup that    *)
(* captures catalog and files (control/nginx_updates.go,                   *)
(* store/nginx_artifacts.go, control/upgrade.go).  A bundle stands for its *)
(* digest and is the content of one release.                               *)
(***************************************************************************)
EXTENDS Naturals, FiniteSets

CONSTANTS
  Bundles,          \* bundles that are ever released
  Release,          \* a bundle's version
  MaxOrders,        \* bound: upgrades started
  MaxStops          \* bound: kills of the controller and failed downloads

ASSUME BundleAssumption == /\ Release \in [Bundles -> Nat \ {0}]
                           /\ {MaxOrders, MaxStops} \subseteq Nat

VARIABLES
  offered,     \* the newest stable release, or none
  catalog,     \* nginx_artifacts: the state of each cataloged bundle
  shelf,       \* bundle files, each TRUE once it is older than the retention
  announced,   \* bundles with a candidate message
  checker,     \* Check, under checkMu
  collector,   \* GC, under checkMu and the exclusive operation lock
  archive,     \* a backup under the shared operation lock
  orders,      \* upgrades being started, and the tasks in flight
  stops        \* kills and failures so far

artifactVars == <<offered, catalog, shelf, announced, checker, collector, archive, orders, stops>>

InState(s) == {b \in DOMAIN catalog : catalog[b] = s}
Known(b, s) == [c \in DOMAIN catalog \union {b} |-> IF c = b THEN s ELSE catalog[c]]
Shelved == DOMAIN shelf
\* fallbackVersion is older than every release.
Newer(b, v) == Release[b] > v
CurrentVersion == IF InState("current") = {} THEN 0
                  ELSE Release[CHOOSE b \in InState("current") : TRUE]
Referenced == {t.bundle : t \in orders.tasks}

NoCheck == [at |-> "idle", bundle |-> {}]
NoCollection == [at |-> "idle", keep |-> {}]
NoBackup == [at |-> "idle", needs |-> {}, holds |-> {}]

Stop == /\ stops < MaxStops /\ stops' = stops + 1

\* The publisher of the bundles releases one, or withdraws the newest.
Publish ==
  /\ offered' \in {{b} : b \in Bundles} \union {{}} /\ offered' # offered
  /\ UNCHANGED <<catalog, shelf, announced, checker, collector, archive, orders, stops>>

-----------------------------------------------------------------------------
(* The check *)

\* The bundle the release list offers, if it is newer than the current one and
\* not yet a candidate with its file; that one only gets its message.
StartCheck ==
  /\ checker.at = "idle" /\ collector.at = "idle"
  /\ \E b \in offered :
       /\ Newer(b, CurrentVersion)
       /\ LET ready == {c \in InState("candidate") \intersect Shelved : Release[c] = Release[b]}
          IN checker' = IF ready # {} THEN [at |-> "announce", bundle |-> ready]
                        ELSE [at |-> "download", bundle |-> {b}]
  /\ UNCHANGED <<offered, catalog, shelf, announced, collector, archive, orders, stops>>

\* downloadBundle: a file that is there already keeps its age.
DownloadBundle ==
  /\ checker.at = "download"
  /\ shelf' = [b \in Shelved \union checker.bundle |-> IF b \in Shelved THEN shelf[b] ELSE FALSE]
  /\ checker' = [checker EXCEPT !.at = "save"]
  /\ UNCHANGED <<offered, catalog, announced, collector, archive, orders, stops>>

\* ResolveNginxBundle: the archive is not a bundle, or not the one the release's
\* manifest describes.  Only a temporary file was written.
RefuseBundle ==
  /\ checker.at = "download"
  /\ checker' = NoCheck
  /\ UNCHANGED <<offered, catalog, shelf, announced, collector, archive, orders, stops>>

\* Mutant: the former candidate stays one.
BesideFormer(b) == Known(b, "candidate")

\* The other candidates are retired.
SavedCandidate(b) ==
  [c \in DOMAIN catalog \union {b} |->
    IF c = b THEN "candidate" ELSE IF catalog[c] = "candidate" THEN "retired" ELSE catalog[c]]

\* SaveNginxArtifactCandidate: refused for a version with another digest; left
\* alone when the bundle has become current.
SaveCandidate ==
  /\ checker.at = "save"
  /\ \E b \in checker.bundle :
       IF \E c \in DOMAIN catalog : Release[c] = Release[b] /\ c # b
       THEN checker' = NoCheck /\ UNCHANGED catalog
       ELSE /\ checker' = [checker EXCEPT !.at = "announce"]
            /\ catalog' = IF b \in InState("current") THEN catalog ELSE SavedCandidate(b)
  /\ UNCHANGED <<offered, shelf, announced, collector, archive, orders, stops>>

\* ensureCandidateMessage: once for each bundle.
Announce ==
  /\ checker.at = "announce"
  /\ announced' = announced \union checker.bundle
  /\ checker' = NoCheck
  /\ UNCHANGED <<offered, catalog, shelf, collector, archive, orders, stops>>

\* Promote does not take checkMu.
Promote(b) ==
  /\ b \in InState("candidate") /\ b \in Shelved
  /\ catalog' = [c \in DOMAIN catalog |->
       IF c = b THEN "current" ELSE IF catalog[c] = "current" THEN "retired" ELSE catalog[c]]
  /\ UNCHANGED <<offered, shelf, announced, checker, collector, archive, orders, stops>>

-----------------------------------------------------------------------------
(* Upgrade tasks *)

\* nodeUpgradeInstruction reads the current target; its file is there.
ReadTarget(b) ==
  /\ orders.count < MaxOrders /\ orders.pending = {}
  /\ b \in InState("current") /\ b \in Shelved
  /\ orders' = [orders EXCEPT !.count = @ + 1, !.pending = {b}]
  /\ UNCHANGED <<offered, catalog, shelf, announced, checker, collector, archive, stops>>

\* CreateOrGetNodeUpgrade, or the rollout with its frozen instructions.
CreateTask ==
  /\ \E b \in orders.pending :
       orders' = [orders EXCEPT !.pending = {},
                    !.tasks = @ \union {[bundle |-> b, current |-> b \in InState("current")]}]
  /\ UNCHANGED <<offered, catalog, shelf, announced, checker, collector, archive, stops>>

EndTask ==
  /\ \E t \in orders.tasks : orders' = [orders EXCEPT !.tasks = @ \ {t}]
  /\ UNCHANGED <<offered, catalog, shelf, announced, checker, collector, archive, stops>>

-----------------------------------------------------------------------------
(* The collection and the backup *)

\* A file has not been touched for the retention.
Age(b) ==
  /\ b \in Shelved /\ ~shelf[b]
  /\ shelf' = [shelf EXCEPT ![b] = TRUE]
  /\ UNCHANGED <<offered, catalog, announced, checker, collector, archive, orders, stops>>

\* Mutant: the operation lock is not taken.
CollectorMayRun == checker.at = "idle"

\* The exclusive operation lock, then checkMu.
LockedForCollection == archive.at = "idle" /\ checker.at = "idle"

ListCatalog ==
  /\ collector.at = "idle" /\ LockedForCollection
  /\ collector' = [at |-> "references", keep |-> InState("candidate") \union InState("current")]
  /\ UNCHANGED <<offered, catalog, shelf, announced, checker, archive, orders, stops>>

\* Mutant: bundles of upgrades in flight are not kept.
NothingReferenced == {}

\* ReferencedUpgradeNginxSHA256s.
InUse == Referenced

ReadReferences ==
  /\ collector.at = "references"
  /\ collector' = [at |-> "remove", keep |-> collector.keep \union InUse]
  /\ UNCHANGED <<offered, catalog, shelf, announced, checker, archive, orders, stops>>

\* Files that are old enough and not kept go, one after the other.
Collectable == {b \in Shelved : shelf[b] /\ b \notin collector.keep}

RemoveFile ==
  /\ collector.at = "remove"
  /\ \E b \in Collectable : shelf' = [c \in Shelved \ {b} |-> shelf[c]]
  /\ UNCHANGED <<offered, catalog, announced, checker, collector, archive, orders, stops>>

EndCollection ==
  /\ collector.at = "remove" /\ Collectable = {}
  /\ collector' = NoCollection
  /\ UNCHANGED <<offered, catalog, shelf, announced, checker, archive, orders, stops>>

\* The backup's snapshot of the database, and what it refers to.
Snapshot ==
  /\ archive.at = "idle" /\ collector.at = "idle"
  /\ archive' = [NoBackup EXCEPT !.at = "snapshot",
       !.needs = InState("candidate") \union InState("current")
                 \union {t.bundle : t \in {u \in orders.tasks : u.current}}]
  /\ UNCHANGED <<offered, catalog, shelf, announced, checker, collector, orders, stops>>

\* The files, while the lock is still held.
ArchiveFiles ==
  /\ archive.at = "snapshot"
  /\ archive' = [archive EXCEPT !.at = "archived", !.holds = Shelved]
  /\ UNCHANGED <<offered, catalog, shelf, announced, checker, collector, orders, stops>>

\* It is complete, or was interrupted.
EndBackup ==
  /\ archive.at # "idle"
  /\ archive' = NoBackup
  /\ UNCHANGED <<offered, catalog, shelf, announced, checker, collector, orders, stops>>

\* The controller is killed, or what it does fails: the locks are released.
StopController ==
  /\ Stop
  /\ checker.at # "idle" \/ collector.at # "idle" \/ orders.pending # {}
  /\ checker' = NoCheck /\ collector' = NoCollection
  /\ orders' = [orders EXCEPT !.pending = {}]
  /\ UNCHANGED <<offered, catalog, shelf, announced, archive>>

-----------------------------------------------------------------------------

ArtifactsInit ==
  /\ offered = {} /\ catalog = [b \in {} |-> "current"] /\ shelf = [b \in {} |-> FALSE]
  /\ announced = {} /\ checker = NoCheck /\ collector = NoCollection /\ archive = NoBackup
  /\ orders = [count |-> 0, pending |-> {}, tasks |-> {}] /\ stops = 0

ArtifactsNext ==
  \/ Publish \/ StartCheck \/ DownloadBundle \/ RefuseBundle \/ SaveCandidate \/ Announce
  \/ \E b \in Bundles : Promote(b) \/ ReadTarget(b) \/ Age(b)
  \/ CreateTask \/ EndTask
  \/ ListCatalog \/ ReadReferences \/ RemoveFile \/ EndCollection
  \/ Snapshot \/ ArchiveFiles \/ EndBackup \/ StopController

ArtifactsSpec == ArtifactsInit /\ [][ArtifactsNext]_artifactVars

-----------------------------------------------------------------------------
(* Properties *)

ArtifactTypeOK ==
  /\ DOMAIN catalog \subseteq Bundles /\ Shelved \subseteq Bundles /\ announced \subseteq Bundles
  /\ \A b \in DOMAIN catalog : catalog[b] \in {"candidate", "current", "retired"}
  /\ \A t \in orders.tasks : t.bundle \in Bundles

\* One target of upgrades and one candidate at most, one digest for a version,
\* and their files are there.
TargetsReady ==
  /\ Cardinality(InState("candidate")) <= 1 /\ Cardinality(InState("current")) <= 1
  /\ \A b, c \in DOMAIN catalog : Release[b] = Release[c] => b = c
  /\ InState("candidate") \union InState("current") \subseteq Shelved

\* A bundle that was the target when its task was created stays until the task ends.
TasksKeepBundles == {t.bundle : t \in {u \in orders.tasks : u.current}} \subseteq Shelved

\* A bundle that is or will be a target was announced, unless its check was stopped.
TargetsAnnounced ==
  \A b \in InState("current") \union InState("candidate") :
    b \in announced \union checker.bundle \/ stops > 0

\* A backup holds the files its snapshot refers to.
BackupComplete == archive.at = "archived" => archive.needs \subseteq archive.holds

\* Bundles are there while they are needed (control/nginx_updates.go, Check,
\* Promote and GC).
BundlesKept ==
  ArtifactTypeOK /\ TargetsReady /\ TasksKeepBundles /\ TargetsAnnounced /\ BackupComplete
=============================================================================
