---------------------------- MODULE StaticAssets ----------------------------
(***************************************************************************)
(* Static resources: uploaded objects, the bindings that put them at URLs  *)
(* (control/static_assets.go, store/static_assets.go), the desired states  *)
(* that refer to them, and the edges that fetch them before they use them  *)
(* and drop them when they no longer do (edge/static_assets.go).  An       *)
(* object stands for its digest; a path for a URL of a site.               *)
(***************************************************************************)
EXTENDS Naturals, FiniteSets, Functions

CONSTANTS
  Objects,          \* contents an administrator uploads
  Paths,            \* URLs of sites
  Carriers,         \* edges
  MaxChanges,       \* bound: requests of the administrator
  MaxMishaps        \* bound: kills and failures

ASSUME AssetAssumption == {MaxChanges, MaxMishaps} \subseteq Nat

VARIABLES
  rows,        \* objects with a row in static_assets
  files,       \* the object files of the controller
  bindings,    \* static_asset_bindings: an object for each bound path
  wanted,      \* the bindings in each edge's desired state, and its version
  change,      \* the request that holds staticAssetMu
  leftBehind,  \* history: a change of the bindings ended without its publication
  carrier,     \* each edge: its objects, what its nginx serves, its round
  spent        \* requests and mishaps so far

assetVars == <<rows, files, bindings, wanted, change, leftBehind, carrier, spent>>

NoChange == [at |-> "idle", object |-> {}, undo |-> <<>>, withdrawn |-> FALSE]
Bound(object) == {p \in DOMAIN bindings : bindings[p] = object}
Refers(state) == Range(state)
Without(f, p) == Restrict(f, DOMAIN f \ {p})
With1(f, p, object) == [q \in DOMAIN f \union {p} |-> IF q = p THEN object ELSE f[q]]

Request == /\ change.at = "idle" /\ spent.changes < MaxChanges
           /\ spent' = [spent EXCEPT !.changes = @ + 1]
Mishap == /\ spent.mishaps < MaxMishaps
          /\ spent' = [spent EXCEPT !.mishaps = @ + 1]

\* uploadStaticAsset: the file is in place before its row; the same content
\* again finds the row.  A failure in between leaves the file.
Upload(object) ==
  /\ Request
  /\ files' = files \union {object}
  /\ rows' \in {rows, rows \union {object}}
  /\ UNCHANGED <<bindings, wanted, change, leftBehind, carrier>>

\* The bindings of this request are committed; it goes on to publish them.
Bind(to) ==
  /\ bindings' = to
  /\ change' = [NoChange EXCEPT !.at = "publish", !.undo = bindings]

\* createStaticAssetBinding: the path must be free.
CreateBinding(p, object) ==
  /\ Request
  /\ object \in rows /\ p \notin DOMAIN bindings
  /\ Bind(With1(bindings, p, object))
  /\ UNCHANGED <<rows, files, wanted, leftBehind, carrier>>

\* updateStaticAssetBinding: the object gets another URL.
MoveBinding(p, q) ==
  /\ Request
  /\ p \in DOMAIN bindings /\ q \notin DOMAIN bindings
  /\ Bind(With1(Without(bindings, p), q, bindings[p]))
  /\ UNCHANGED <<rows, files, wanted, leftBehind, carrier>>

\* deleteStaticAssetBinding.
DeleteBinding(p) ==
  /\ Request
  /\ p \in DOMAIN bindings
  /\ Bind(Without(bindings, p))
  /\ UNCHANGED <<rows, files, wanted, leftBehind, carrier>>

\* deleteStaticAsset: its bindings go first, one transaction each.
DeleteAsset(object) ==
  /\ Request
  /\ object \in rows
  /\ change' = [NoChange EXCEPT !.at = "withdraw", !.object = {object}, !.undo = bindings]
  /\ UNCHANGED <<rows, files, bindings, wanted, leftBehind, carrier>>

WithdrawBinding ==
  /\ change.at = "withdraw"
  /\ \E object \in change.object : \E p \in Bound(object) :
       bindings' = Without(bindings, p)
  /\ change' = [change EXCEPT !.withdrawn = TRUE]
  /\ UNCHANGED <<rows, files, wanted, leftBehind, carrier, spent>>

\* Mutant: the object goes before the desired states that refer to it.
WithoutPublication(c) == [c EXCEPT !.at = "row"]

\* The bindings are gone; a publication is due if there were any.
AfterWithdrawal(c) == [c EXCEPT !.at = IF c.withdrawn THEN "publish" ELSE "row"]

Withdrawn ==
  /\ change.at = "withdraw"
  /\ \A object \in change.object : Bound(object) = {}
  /\ change' = AfterWithdrawal(change)
  /\ UNCHANGED <<rows, files, bindings, wanted, leftBehind, carrier, spent>>

\* renderNodeStateUpdates and SaveNodeStates, for every edge in one transaction.
Published(state) ==
  [n \in Carriers |-> IF wanted[n].state = state THEN wanted[n]
                      ELSE [state |-> state, version |-> wanted[n].version + 1]]

\* What follows the publication: the rest of a deletion, or nothing.
AfterPublication(c) == IF c.object = {} THEN NoChange ELSE [c EXCEPT !.at = "row"]

\* PublishAll for the request.
PublishChange ==
  /\ change.at = "publish"
  /\ wanted' = Published(bindings)
  /\ leftBehind' = FALSE
  /\ change' = AfterPublication(change)
  /\ UNCHANGED <<rows, files, bindings, carrier, spent>>

\* A withdrawal or PublishAll fails: the bindings are put back, which may fail too.
UndoChange ==
  /\ change.at \in {"withdraw", "publish"} /\ Mishap
  /\ bindings' \in {bindings, change.undo}
  /\ leftBehind' = (leftBehind \/ \E n \in Carriers : wanted[n].state # bindings')
  /\ change' = NoChange
  /\ UNCHANGED <<rows, files, wanted, carrier>>

\* DeleteStaticAsset, then the file; a failure to remove the file is logged.
DeleteRow ==
  /\ change.at = "row"
  /\ rows' = rows \ change.object
  /\ change' = [change EXCEPT !.at = "file"]
  /\ UNCHANGED <<files, bindings, wanted, leftBehind, carrier, spent>>

DeleteFile ==
  /\ change.at = "file"
  /\ files' = files \ change.object
  /\ change' = NoChange
  /\ UNCHANGED <<rows, bindings, wanted, leftBehind, carrier, spent>>

\* The controller is killed during a request.
KillRequest ==
  /\ change.at # "idle" /\ Mishap
  /\ leftBehind' = (leftBehind \/ \E n \in Carriers : wanted[n].state # bindings)
  /\ change' = NoChange
  /\ UNCHANGED <<rows, files, bindings, wanted, carrier>>

\* Another publication, or the rebuild a heartbeat asks for when the node's
\* references differ (staticAssetStateNeedsRebuild).
RebuildNode(n) ==
  /\ wanted[n].state # bindings
  /\ wanted' = [wanted EXCEPT ![n] = Published(bindings)[n]]
  /\ leftBehind' = (leftBehind /\ \E m \in Carriers \ {n} : wanted[m].state # bindings)
  /\ UNCHANGED <<rows, files, bindings, change, carrier, spent>>

-----------------------------------------------------------------------------
(* The edge *)

\* apply starts with syncStaticAssets.
StartSync(n) ==
  /\ carrier[n].at = "idle" /\ carrier[n].applied < wanted[n].version
  /\ carrier' = [carrier EXCEPT ![n].at = "sync", ![n].next = wanted[n]]
  /\ UNCHANGED <<rows, files, bindings, wanted, change, leftBehind, spent>>

\* edgeStaticAsset serves what the edge's present desired state refers to.
Download(n, object) ==
  /\ carrier[n].at = "sync" /\ object \in Refers(carrier[n].next.state) \ carrier[n].has
  /\ IF object \in Refers(wanted[n].state) /\ object \in files
     THEN carrier' = [carrier EXCEPT ![n].has = @ \union {object}]
     ELSE carrier' = [carrier EXCEPT ![n].at = "idle"]
  /\ UNCHANGED <<rows, files, bindings, wanted, change, leftBehind, spent>>

\* Mutant: nginx is reloaded while objects are missing.
NothingToFetch(n) == TRUE

\* syncStaticAssets returns only when every object is there.
AllFetched(n) == Refers(carrier[n].next.state) \subseteq carrier[n].has

\* The rest of apply, up to the reload.
ReloadWith(n) ==
  /\ carrier[n].at = "sync" /\ AllFetched(n)
  /\ carrier' = [carrier EXCEPT ![n].at = "persist", ![n].before = carrier[n].serves,
                                ![n].serves = carrier[n].next.state]
  /\ UNCHANGED <<rows, files, bindings, wanted, change, leftBehind, spent>>

\* Mutant: objects are dropped as soon as nginx has been reloaded.
DropAtOnce(n) ==
  [carrier[n] EXCEPT !.at = "idle", !.serves = carrier[n].before,
                     !.has = @ \intersect Refers(carrier[n].next.state)]

\* The configuration that was in force returns.
ReturnedToFormer(n) == [carrier[n] EXCEPT !.at = "idle", !.serves = carrier[n].before]

\* A step of apply after the reload fails.
RollBack(n) ==
  /\ carrier[n].at = "persist" /\ Mishap
  /\ carrier' = [carrier EXCEPT ![n] = ReturnedToFormer(n)]
  /\ UNCHANGED <<rows, files, bindings, wanted, change, leftBehind>>

\* The applied version is on disk.
PersistApplied(n) ==
  /\ carrier[n].at = "persist"
  /\ carrier' = [carrier EXCEPT ![n].at = "clean", ![n].applied = carrier[n].next.version]
  /\ UNCHANGED <<rows, files, bindings, wanted, change, leftBehind, spent>>

\* cleanupStaticAssets: objects this state does not refer to.
CleanUp(n) ==
  /\ carrier[n].at = "clean"
  /\ carrier' = [carrier EXCEPT ![n].at = "idle",
                                ![n].has = @ \intersect Refers(carrier[n].next.state)]
  /\ UNCHANGED <<rows, files, bindings, wanted, change, leftBehind, spent>>

\* The agent is killed, or a download fails; nginx goes on.
AbandonRound(n) ==
  /\ carrier[n].at # "idle" /\ Mishap
  /\ carrier' = [carrier EXCEPT ![n].at = "idle"]
  /\ UNCHANGED <<rows, files, bindings, wanted, change, leftBehind>>

-----------------------------------------------------------------------------

AssetsInit ==
  /\ rows = {} /\ files = {} /\ bindings = <<>>
  /\ wanted = [n \in Carriers |-> [state |-> <<>>, version |-> 0]]
  /\ change = NoChange /\ leftBehind = FALSE
  /\ carrier = [n \in Carriers |-> [has |-> {}, serves |-> <<>>, before |-> <<>>, applied |-> 0,
                                    at |-> "idle", next |-> [state |-> <<>>, version |-> 0]]]
  /\ spent = [changes |-> 0, mishaps |-> 0]

AssetsNext ==
  \/ \E object \in Objects : Upload(object) \/ DeleteAsset(object)
  \/ \E p \in Paths, object \in Objects : CreateBinding(p, object)
  \/ \E p, q \in Paths : MoveBinding(p, q)
  \/ \E p \in Paths : DeleteBinding(p)
  \/ WithdrawBinding \/ Withdrawn \/ PublishChange \/ UndoChange \/ DeleteRow \/ DeleteFile
  \/ KillRequest
  \/ \E n \in Carriers :
       \/ RebuildNode(n) \/ StartSync(n) \/ \E object \in Objects : Download(n, object)
       \/ ReloadWith(n) \/ RollBack(n) \/ PersistApplied(n) \/ CleanUp(n) \/ AbandonRound(n)

AssetsSpec == AssetsInit /\ [][AssetsNext]_assetVars

-----------------------------------------------------------------------------
(* Properties *)

States == UNION {[P -> Objects] : P \in SUBSET Paths}

AssetTypeOK ==
  /\ rows \subseteq Objects /\ files \subseteq Objects /\ bindings \in States
  /\ \A n \in Carriers : /\ wanted[n].state \in States
                         /\ carrier[n].serves \in States /\ carrier[n].has \subseteq Objects
                         /\ carrier[n].applied <= wanted[n].version

\* What can be bound is there, in the rows and on the controller's disk.
BoundObjectsExist ==
  /\ Refers(bindings) \subseteq rows
  /\ rows \subseteq files

\* An edge's nginx serves only objects the edge holds, also after a rollback or
\* a kill in any part of a round.
ServedObjectsPresent == \A n \in Carriers : Refers(carrier[n].serves) \subseteq carrier[n].has

\* An edge can fetch every object its desired state refers to.
ObjectsFetchable == \A n \in Carriers : Refers(wanted[n].state) \subseteq files

\* Objects are never missing where they are needed, unless an earlier change of
\* the bindings was left unpublished (control/static_assets.go, edge/static_assets.go).
AssetsHold ==
  AssetTypeOK /\ BoundObjectsExist /\ ServedObjectsPresent /\ (leftBehind \/ ObjectsFetchable)
=============================================================================
