------------------------------- MODULE Hosts -------------------------------
(***************************************************************************)
(* The three hosts that are not an object store.  A repository has one of  *)
(* them, so they share no state; they share what the engine gives them:    *)
(* its runners, and the trees it built.                                    *)
(***************************************************************************)
CONSTANTS
  Runners,
  Trees,
  RsyncPlans,          \* reviewed plans of a repository on an rsync host
  LocalPlans,          \* publications into a local directory
  Releases,            \* names of local release directories
  Effects,             \* reviewed changes of a repository on a Pages branch
  PreviewConfigured,
  AnyTree, Foreign, Unmanaged, Unplanned, None

ASSUME TreesAssumption == {Foreign, None} \intersect Trees = {}
ASSUME PlansAssumption == LocalPlans \subseteq [tree : Trees, expected : Trees \union {AnyTree, None}]
ASSUME ReleasesAssumption == None \notin Releases
ASSUME EffectsAssumption ==
  /\ {None, Unmanaged, Unplanned} \intersect (Effects \union [plan : Effects]) = {}
  /\ Unplanned \notin {None, Unmanaged}

(* A plan file of the rsync host is no mark for its absence.               *)
ASSUME RsyncMarkAssumption == None \notin [tree : Trees, expected : Trees \union {None}]

VARIABLES
  plans, link, remote, staging, lock, ssh,                    \* rsync
  output, control, current, release, build,                   \* local
  previous, branch, preview, stageRefs, restoreRefs, inflight, lived, pages

(* Publications of one tree and collections do not overlap: what happens   *)
(* when they do is note E of README.                                       *)
Rsync == INSTANCE RsyncHost WITH
  Plans <- RsyncPlans, Overlap <- {}, release <- remote, session <- ssh

Local == INSTANCE LocalHost WITH
  Plans <- LocalPlans, session <- build

Pages == INSTANCE GitHubPages WITH
  session <- pages

rsyncVars == <<plans, link, remote, staging, lock, ssh>>
localVars == <<output, control, current, release, build>>
pagesVars == <<previous, branch, preview, stageRefs, restoreRefs, inflight, lived, pages>>

----------------------------------------------------------------------------
(* rsync: a reader following the published link reaches a complete release *)
(* at every moment and after any interruption (rsync.go:118-120).          *)
RsyncLiveWhole == Rsync!LiveWhole

(* rsync: the link only moves from the revision a plan was reviewed against *)
(* to that plan's tree, by the runner that holds the lock directory.       *)
RsyncSwapsExpected == Rsync!SwapsExpected

(* local: what the output path resolves to is a complete, verified release *)
(* after every call, failure and crash of publishRelease.                  *)
LocalLiveWhole == Local!LiveWhole

(* local: a publication that reports success displaced exactly the release *)
(* it was checked against (exchangeReleaseLink).                           *)
LocalReportsLostUpdate == Local!ReportsLostUpdate

(* local: the orphan clean-up and the deferred clean-up of a failed build  *)
(* never take away the release that is being served.                       *)
LocalNeverWithdrawn == Local!NeverWithdrawn

(* Pages: what the branch serves can be observed: its restore descriptor   *)
(* was pushed before the branch moved and is there after a restore.        *)
PagesLiveObservable == Pages!LiveObservable

(* Pages: the adapter implements the abstract host of module Publication:  *)
(* a push with a lease replaces exactly the planned-against revision and a *)
(* restore puts back exactly what was replaced, however late it lands.     *)
PagesKeepsContract == Pages!KeepsContract
============================================================================
