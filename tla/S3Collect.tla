----------------------------- MODULE S3Collect -----------------------------
(***************************************************************************)
(* Collection of superseded releases beside the publications of S3Host:    *)
(* adapters/host/s3/collect.go, called by engine/collect.go.  The collector *)
(* reads the host once, computes what must survive, and then deletes       *)
(* object by object.  It takes no lease.                                   *)
(***************************************************************************)
EXTENDS S3Host

CONSTANT Alone   \* is collection run only while nothing publishes?

ASSUME AloneAssumption == Alone \in BOOLEAN

VARIABLE collector   \* [pc, keep]: what the collection in progress protects

cvars == <<vars, collector>>

Resting == [pc |-> "idle", keep |-> {}]

CollectInit == Init /\ collector = Resting

\* Mutation: the caller's ledger is trusted.
TrustLedger(ledger) == ledger

\* Mutation: only the live tree is protected, not what it replaced.
ProtectLiveOnly(ledger) == ledger \union {TreeOf(root)}

(* The caller's trees, the live one, and the one the live one replaced.    *)
ProtectedTrees(ledger) ==
  LET before == restores[root.id] IN
  ledger \union {TreeOf(root)} \union (IF before \in Revisions THEN {TreeOf(before)} ELSE {})

Quiet == late = {} /\ \A r \in Runners : At(r, "idle")

(* protectedTrees: refused unless Observe finds an intact managed root.    *)
(* The ledger of the checkout may name any trees: it may be behind.        *)
StartCollect(ledger) ==
  /\ collector = Resting
  /\ Alone => Quiet
  /\ root \in Revisions /\ Intact(root)
  /\ collector' = [pc |-> "releases", keep |-> ProtectedTrees(ledger)]
  /\ UNCHANGED vars

(* One object of a release directory nobody protects.                      *)
DeleteReleaseObject(k) ==
  /\ collector.pc = "releases"
  /\ k \in objects /\ k.dir \in Trees \ collector.keep
  /\ objects' = objects \ {k}
  /\ UNCHANGED <<plans, staging, releases, manifests, undo, live, lease, page, session, collector>>

DeleteReleaseDescriptor(t) ==
  /\ collector.pc = "releases"
  /\ t \in releases \ collector.keep
  /\ releases' = releases \ {t}
  /\ UNCHANGED <<plans, staging, objects, manifests, undo, live, lease, page, session, collector>>

(* referencedObjectKeys refuses if a surviving tree has no descriptor.     *)
ReferencesEstablished == collector.keep \subseteq releases

(* The listing ends, or a request fails: the deletions done stay done.     *)
EndReleases ==
  /\ collector.pc = "releases"
  /\ collector' = IF ~RootRewriter /\ ReferencesEstablished THEN [collector EXCEPT !.pc = "orphans"] ELSE Resting
  /\ UNCHANGED vars

(* One object at a canonical path that no surviving revision names.        *)
DeleteOrphan(k) ==
  /\ collector.pc = "orphans"
  /\ k \in objects /\ k.dir = None
  /\ \A t \in collector.keep : k.path \notin FilesOf[t]
  /\ objects' = objects \ {k}
  /\ UNCHANGED <<plans, staging, releases, manifests, undo, live, lease, page, session, collector>>

EndOrphans ==
  /\ collector.pc = "orphans"
  /\ collector' = Resting
  /\ UNCHANGED vars

Collect ==
  \/ \E ledger \in SUBSET Trees : StartCollect(ledger)
  \/ \E k \in objects : DeleteReleaseObject(k) \/ DeleteOrphan(k)
  \/ \E t \in Trees : DeleteReleaseDescriptor(t)
  \/ EndReleases \/ EndOrphans

(* With Alone, sessions start only between collections.                    *)
PublishStep == (Alone => collector = Resting) /\ UNCHANGED collector

CollectNext ==
  \/ Progress /\ PublishStep
  \/ Fault /\ PublishStep
  \/ Collect

CollectSpec == CollectInit /\ [][CollectNext]_cvars

----------------------------------------------------------------------------

(* A collection takes nothing from the live revision or from what its      *)
(* rollback depends on, although the ledger it works from may be behind    *)
(* (README.md:508): a step that leaves the root alone leaves both whole.   *)
CollectSpares ==
  [][root' = root /\ root \in Revisions =>
       /\ Intact(root) => Intact(root)'
       /\ Materialized(restores[root.id]) => Materialized(restores[root.id])']_cvars

============================================================================
