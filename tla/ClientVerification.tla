------------------------- MODULE ClientVerification -------------------------
(***************************************************************************)
(* Verifying a built or published repository with a real package client    *)
(* (internal/app: VerifyDebClient, VerifyRPMClient, VerifyAPKClient,       *)
(* VerifyHelmClient, VerifyPyPIClient and the endpoint variants).          *)
(*                                                                         *)
(* A local verification checks the release against its manifest, links it  *)
(* file by file into a snapshot, checks the snapshot, and lets clients     *)
(* install from it.  An endpoint verification checks the local tree, then  *)
(* waits until the host serves the same bytes.  Container clients run      *)
(* concurrently and share one budget of slots across the repositories      *)
(* being verified; Helm and pip clients run one after the other.  A client *)
(* image that cannot be fetched is told apart from a broken repository by  *)
(* some clients and not by others.                                         *)
(*                                                                         *)
(* A release file may be renamed over or removed meanwhile, never edited   *)
(* in place (linkOrCopyFile's comment: releases are immutable), and a host *)
(* changes what it serves file by file.  File 1 is the signing keyring.    *)
(***************************************************************************)
EXTENDS Integers, Sequences, FiniteSets, FiniteSetsExt

CONSTANTS
  Verifications,  \* what is verified together: repository -> entry point
  Published,      \* repository -> the trees its release may be of at first
  Trees, Gone,    \* the trees a file may belong to; a file that is missing
  Structure,      \* tree -> [indexes, keyed, signatures]: the indexes match the
                  \* artifacts, a key is published, "none", "valid" or "mixed"
  FileCount,      \* the files of a tree, 1 .. FileCount; the manifest follows
  Cases,          \* tree -> its cases, [package, rank], rank 0 unorderable
  Broken,         \* the <<tree, index>> whose client run fails
  Slots,          \* maxConcurrentVerifications
  Sweeps,         \* times awaitHostedBytes looks within its timeout
  MaxChanges, MaxFaults

VARIABLES
  entry,       \* repository -> the entry point verifying it
  release,     \* repository -> the tree each release file and the manifest are of
  snapshot,    \* the same for the snapshot's files
  served,      \* the same for what the host serves
  run,         \* repository -> the verification in progress
  cancelled,   \* the caller's context
  changes, faults

vars == <<entry, release, snapshot, served, run, cancelled, changes, faults>>

Manifest == FileCount + 1
Names == 1 .. Manifest
Repositories == DOMAIN entry

-----------------------------------------------------------------------------
(* What a failure to fetch the client's image or to start its container is *)
(* reported as.  The deb, rpm and apk cases recognise a registry's refusal *)
(* in platformImage and in the output of the run, the endpoint's Debian    *)
(* case in the former only, Helm's not at all; pip runs without an image.  *)
verifyDebCase == {"unavailable"}
verifyRPMCase == {"unavailable"}
verifyAPKCase == {"unavailable"}
verifyDebEndpointCase == {"unavailable", "failed"}
verifyHelmCase == {"failed"}
verifyPyPICases == {}

(* The structure of a tree is what a build of its artifacts gives, and its *)
(* signatures are those of the published key.  RPM and APK trees are left  *)
(* to their clients.                                                       *)
verifyPyPIStructure(t) ==
  Structure[t].indexes /\ ~Structure[t].keyed /\ Structure[t].signatures = "none"
verifyDebStructure(t) ==
  Structure[t].indexes /\ Structure[t].signatures = IF Structure[t].keyed THEN "valid" ELSE "none"
verifyHelmStructure(t) ==
  verifyDebStructure(t) /\ (Structure[t].keyed => Cases[t] # <<>>)
verifyRawStructure(t) == Structure[t].indexes /\ ~Structure[t].keyed

StructureOf(format, t) ==
  CASE format = "pypi" -> verifyPyPIStructure(t)
    [] format = "deb"  -> verifyDebStructure(t)
    [] format = "helm" -> verifyHelmStructure(t)
    [] format = "raw"  -> verifyRawStructure(t)
    [] OTHER -> TRUE

(* The entry points: the format, whether the clients read a snapshot of    *)
(* the release or the host, whether the cases share the pool of containers *)
(* (and are sampled), whether an empty repository gets a probe of its own, *)
(* and how an outage is reported.  A raw repository has no client.         *)
VerifyDebClient == [format |-> "deb", local |-> TRUE, client |-> TRUE, pooled |-> TRUE,
                    probes |-> TRUE, outage |-> verifyDebCase]
VerifyRPMClient == [format |-> "rpm", local |-> TRUE, client |-> TRUE, pooled |-> TRUE,
                    probes |-> FALSE, outage |-> verifyRPMCase]
VerifyAPKClient == [format |-> "apk", local |-> TRUE, client |-> TRUE, pooled |-> TRUE,
                    probes |-> FALSE, outage |-> verifyAPKCase]
VerifyHelmClient == [format |-> "helm", local |-> TRUE, client |-> TRUE, pooled |-> FALSE,
                     probes |-> TRUE, outage |-> verifyHelmCase]
VerifyPyPIClient == [format |-> "pypi", local |-> TRUE, client |-> TRUE, pooled |-> FALSE,
                     probes |-> TRUE, outage |-> verifyPyPICases]
VerifyDebClientEndpointAccess ==
  [VerifyDebClient EXCEPT !.local = FALSE, !.outage = verifyDebEndpointCase]
VerifyPyPIClientEndpointAccess == [VerifyPyPIClient EXCEPT !.local = FALSE]
VerifyRawClientEndpointAccess == [format |-> "raw", local |-> FALSE, client |-> FALSE,
                                  pooled |-> FALSE, probes |-> FALSE, outage |-> {}]

EntryPoint == [deb |-> VerifyDebClient, rpm |-> VerifyRPMClient, apk |-> VerifyAPKClient,
               helm |-> VerifyHelmClient, pypi |-> VerifyPyPIClient,
               debEndpoint |-> VerifyDebClientEndpointAccess,
               pypiEndpoint |-> VerifyPyPIClientEndpointAccess,
               rawEndpoint |-> VerifyRawClientEndpointAccess]

(* The cases of a tree, with the probe of an empty one.                    *)
Probe == <<[package |-> Gone, rank |-> 0]>>
CasesFor(r, t) == IF Cases[t] = <<>> /\ entry[r].probes THEN Probe ELSE Cases[t]

Idle == [pc |-> "release", tree |-> Gone, next |-> 1, sweep |-> 1, cases |-> <<>>,
         cut |-> {}, result |-> "none", blames |-> 0]

Init ==
  /\ \E e \in Verifications : entry = [r \in DOMAIN e |-> EntryPoint[e[r]]]
  /\ \E t \in [Repositories -> Trees], h \in Trees :
       /\ \A r \in Repositories : t[r] \in Published[r]
       /\ release = [r \in Repositories |-> [f \in Names |-> t[r]]]
       /\ served = [r \in Repositories |-> [f \in Names |-> IF entry[r].local THEN t[r] ELSE h]]
  /\ snapshot = [r \in Repositories |-> [f \in Names |-> Gone]]
  /\ run = [r \in Repositories |-> Idle]
  /\ cancelled = FALSE
  /\ changes = 0
  /\ faults = 0

At(r, pc) == run[r].pc = pc
Set(r, v) == run' = [run EXCEPT ![r] = v]
Return(r, result) == Set(r, [run[r] EXCEPT !.pc = "done", !.result = result])
Root(r) == IF At(r, "release") THEN release[r] ELSE snapshot[r]
World == <<entry, release, served, cancelled, changes>>

-----------------------------------------------------------------------------
(* verifyRepository, of the release and then of the snapshot: the manifest *)
(* is read first, then every file is hashed, then the structure rebuilt.   *)

AfterVerify(r) ==
  CASE At(r, "snapshot") -> "select"
    [] At(r, "release") /\ entry[r].local -> "link"
    [] OTHER -> "hosted"

ReadManifest(r) ==
  /\ run[r].pc \in {"release", "snapshot"}
  /\ run[r].next = 1 /\ run[r].tree = Gone
  /\ IF Root(r)[Manifest] = Gone THEN Return(r, "refused")
     ELSE Set(r, [run[r] EXCEPT !.tree = Root(r)[Manifest]])
  /\ UNCHANGED <<World, snapshot, faults>>

hashRepositoryFile(r) ==
  /\ run[r].pc \in {"release", "snapshot"}
  /\ run[r].tree # Gone
  /\ run[r].next <= FileCount
  /\ IF Root(r)[run[r].next] # run[r].tree THEN Return(r, "refused")
     ELSE Set(r, [run[r] EXCEPT !.next = @ + 1])
  /\ UNCHANGED <<World, snapshot, faults>>

verifyStructure(r) ==
  /\ run[r].pc \in {"release", "snapshot"}
  /\ run[r].tree # Gone
  /\ run[r].next = Manifest
  /\ IF ~StructureOf(entry[r].format, run[r].tree) THEN Return(r, "refused")
     ELSE Set(r, [run[r] EXCEPT !.pc = AfterVerify(r), !.next = 1])
  /\ UNCHANGED <<World, snapshot, faults>>

AfterLink(r) == [run[r] EXCEPT !.pc = "snapshot", !.tree = Gone, !.next = 1]

(* snapshotRepository links the files in order, the manifest last.  A file *)
(* of another tree is linked too unless its size gives it away.            *)
snapshotRepository(r) ==
  /\ At(r, "link")
  /\ LET content == release[r][run[r].next]
     IN  \/ /\ cancelled \/ content # run[r].tree
            /\ Return(r, "refused")
            /\ UNCHANGED snapshot
         \/ /\ ~cancelled /\ content # Gone
            /\ snapshot' = [snapshot EXCEPT ![r][run[r].next] = content]
            /\ Set(r, IF run[r].next = Manifest THEN AfterLink(r)
                      ELSE [run[r] EXCEPT !.next = @ + 1])
  /\ UNCHANGED <<World, faults>>

-----------------------------------------------------------------------------
(* awaitHostedBytes: one sweep reads every route; after a mismatch the     *)
(* whole sweep is repeated until the propagation budget is used up.        *)
verifyHostedBytes(r) ==
  /\ At(r, "hosted")
  /\ IF served[r][run[r].next] = run[r].tree
     THEN Set(r, IF run[r].next < FileCount THEN [run[r] EXCEPT !.next = @ + 1]
                 ELSE [run[r] EXCEPT !.pc = IF entry[r].format = "deb" THEN "trust" ELSE "select"])
     ELSE IF run[r].sweep < Sweeps /\ ~cancelled
     THEN Set(r, [run[r] EXCEPT !.sweep = @ + 1, !.next = 1])
     ELSE Return(r, "refused")
  /\ UNCHANGED <<World, snapshot, faults>>

fetchEndpointTrust(r) ==
  /\ At(r, "trust")
  /\ IF ~Structure[run[r].tree].keyed \/ served[r][1] = run[r].tree THEN Set(r, [run[r] EXCEPT !.pc = "select"])
     ELSE Return(r, "refused")
  /\ UNCHANGED <<World, snapshot, faults>>

-----------------------------------------------------------------------------
(* SampleVerificationCases: the oldest and the newest of each package, all *)
(* of a package with two versions or with one that cannot be ordered.      *)
Group(list, i) == {j \in DOMAIN list : list[j].package = list[i].package}
Older(list, i, j) == list[i].rank < list[j].rank \/ (list[i].rank = list[j].rank /\ i < j)

Sampled(list) ==
  {i \in DOMAIN list :
     LET group == Group(list, i)
     IN  \/ Cardinality(group) < 3
         \/ \E j \in group : list[j].rank = 0
         \/ \A j \in group \ {i} : Older(list, i, j)
         \/ \A j \in group \ {i} : Older(list, j, i)}

Selected(r, list) == IF entry[r].pooled THEN Sampled(list) ELSE DOMAIN list

(* The selection is refused when the client cannot be used at all: no      *)
(* runner, an image that is not pinned, too small a workspace, a version   *)
(* without a wheel.                                                        *)
Select(r) ==
  /\ At(r, "select")
  /\ LET list == CasesFor(r, run[r].tree)
         state == [i \in DOMAIN list |-> IF i \in Selected(r, list) THEN "waiting" ELSE "skipped"]
     IN  \/ entry[r].client /\ Set(r, [run[r] EXCEPT !.pc = "cases", !.cases = state])
         \/ entry[r].client /\ Return(r, "refused")
         \/ ~entry[r].client /\ Return(r, "verified")
  /\ UNCHANGED <<World, snapshot, faults>>

In(r, states) == {i \in DOMAIN run[r].cases : run[r].cases[i] \in states}
Case(r, i, state) == Set(r, [run[r] EXCEPT !.cases[i] = state])
Cut(r, i) == Set(r, [run[r] EXCEPT !.cases[i] = "failed", !.cut = @ \cup {i}])
Busy == {<<r, i>> \in Repositories \X (1 .. Max({1} \cup {Len(Cases[t]) : t \in Trees})) :
           entry[r].pooled /\ i \in In(r, {"running"})}

(* A goroutine takes a slot.  With several cases a cancelled context is    *)
(* looked at before the client starts.                                     *)
TakeSlot(r, i) ==
  /\ At(r, "cases") /\ entry[r].pooled
  /\ i \in In(r, {"waiting"})
  /\ Cardinality(Busy) < Slots
  /\ IF cancelled /\ Cardinality(DOMAIN run[r].cases \ In(r, {"skipped"})) > 1
     THEN Cut(r, i) ELSE Case(r, i, "running")
  /\ UNCHANGED <<World, snapshot, faults>>

(* The loops of VerifyHelmClient and verifyPyPICases: the next case starts *)
(* when the ones before it have passed.                                    *)
StartNext(r, i) ==
  /\ At(r, "cases") /\ ~entry[r].pooled
  /\ i \in In(r, {"waiting"})
  /\ \A j \in 1 .. i - 1 : run[r].cases[j] = "ok"
  /\ Case(r, i, "running")
  /\ UNCHANGED <<World, snapshot, faults>>

(* The client ends: it installed the version or could not, over what the   *)
(* host serves by then; it was cut off by its deadline or by the caller;   *)
(* or its image could not be had.                                          *)
EndCase(r, i) ==
  /\ i \in In(r, {"running"})
  /\ \/ /\ Case(r, i, IF <<run[r].tree, i>> \in Broken THEN "failed" ELSE "ok")
        /\ UNCHANGED faults
     \/ /\ ~entry[r].local /\ \E f \in 1 .. FileCount : served[r][f] # run[r].tree
        /\ Case(r, i, "failed")
        /\ UNCHANGED faults
     \/ /\ cancelled
        /\ Cut(r, i)
        /\ UNCHANGED faults
     \/ /\ faults < MaxFaults
        /\ faults' = faults + 1
        /\ Cut(r, i) \/ \E state \in entry[r].outage : Case(r, i, state)
  /\ UNCHANGED <<World, snapshot>>

Failed == {"failed", "unavailable"}

(* Mutation: the first failure seen is reported and the rest abandoned.    *)
ReadyAtFirstFailure(r) == In(r, {"waiting", "running"}) = {} \/ In(r, Failed) # {}

(* wait.Wait() for the pool; a serial loop returns at its first failure.   *)
Ready(r) ==
  \/ In(r, {"waiting", "running"}) = {}
  \/ ~entry[r].pooled /\ In(r, Failed) # {}

Report(r) ==
  /\ At(r, "cases")
  /\ Ready(r)
  /\ LET failed == In(r, Failed)
     IN  IF failed = {} THEN Return(r, "verified")
         ELSE Set(r, [run[r] EXCEPT !.pc = "done", !.blames = Min(failed),
                                    !.result = run[r].cases[Min(failed)]])
  /\ UNCHANGED <<World, snapshot, faults>>

-----------------------------------------------------------------------------
(* The world meanwhile: a release file is replaced or removed, a host      *)
(* starts to serve another tree's file, the caller gives up.               *)
ReplaceRelease(r, f, t) ==
  /\ changes < MaxChanges
  /\ entry[r].local /\ run[r].pc \in {"release", "link"}
  /\ release[r][f] # t
  /\ release' = [release EXCEPT ![r][f] = t]
  /\ changes' = changes + 1
  /\ UNCHANGED <<entry, served, cancelled, snapshot, run, faults>>

ServeOther(r, f, t) ==
  /\ changes < MaxChanges
  /\ ~entry[r].local /\ ~At(r, "done")
  /\ served[r][f] # t
  /\ served' = [served EXCEPT ![r][f] = t]
  /\ changes' = changes + 1
  /\ UNCHANGED <<entry, release, cancelled, snapshot, run, faults>>

Cancel ==
  /\ ~cancelled
  /\ faults < MaxFaults
  /\ cancelled' = TRUE
  /\ faults' = faults + 1
  /\ UNCHANGED <<entry, release, served, changes, snapshot, run>>

Verifies(r) ==
  \/ ReadManifest(r) \/ hashRepositoryFile(r) \/ verifyStructure(r)
  \/ snapshotRepository(r)
  \/ verifyHostedBytes(r) \/ fetchEndpointTrust(r)
  \/ Select(r) \/ Report(r)
  \/ \E i \in DOMAIN run[r].cases : TakeSlot(r, i) \/ StartNext(r, i) \/ EndCase(r, i)

Meanwhile(r) ==
  \E f \in Names, t \in Trees \cup {Gone} :
    ReplaceRelease(r, f, t) \/ (t # Gone /\ ServeOther(r, f, t))

Next == Cancel \/ \E r \in Repositories : Verifies(r) \/ Meanwhile(r)

Spec == Init /\ [][Next]_vars

-----------------------------------------------------------------------------
Passed(r, i) == run[r].cases[i] = "ok"

(* What the verdict of a verification says is so, however its clients and  *)
(* the other repositories' were scheduled.  A repository is called         *)
(* verified only when the files the clients read are those of the returned *)
(* manifest and rebuild, and, of every package, a newest and an oldest     *)
(* version were installed (every version, by the serial clients; an empty  *)
(* repository that gets a probe passed it).  A failure is reported at a    *)
(* case before which every chosen case was run and passed, so that the     *)
(* same defect is reported the same way on every run; and where the client *)
(* reads a snapshot and tells an image that cannot be fetched from a bad   *)
(* package, a case that is called failed and was not cut off really fails. *)
(* (verifyRepository, snapshotRepository, SampleVerificationCases,         *)
(* verifyCases, registryUnavailable.)                                      *)
VerdictSound ==
  \A r \in Repositories :
    LET list == CasesFor(r, run[r].tree)
        blamed == run[r].blames
    IN  /\ run[r].result = "verified" =>
             /\ StructureOf(entry[r].format, run[r].tree)
             /\ entry[r].local => \A f \in Names : snapshot[r][f] = run[r].tree
             /\ entry[r].client =>
                  \A i \in DOMAIN list :
                    /\ \E j \in Group(list, i) : Passed(r, j) /\ list[j].rank <= list[i].rank
                    /\ \E j \in Group(list, i) : Passed(r, j) /\ list[j].rank >= list[i].rank
                    /\ ~entry[r].pooled \/ list[i].rank = 0 => Passed(r, i)
        /\ run[r].result \in Failed =>
             \A j \in 1 .. blamed - 1 : run[r].cases[j] \in {"ok", "skipped"}
        /\ run[r].result = "failed" /\ entry[r].local /\ "failed" \notin entry[r].outage =>
             blamed \in run[r].cut \/ <<run[r].tree, blamed>> \in Broken
=============================================================================
