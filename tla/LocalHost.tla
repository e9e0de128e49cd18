----------------------------- MODULE LocalHost -----------------------------
(***************************************************************************)
(* The local directory host, adapters/host/local and the materializer of   *)
(* internal/app/materialize.go and commit.go: a tree is written to a fresh *)
(* release directory and becomes live when `current', a link inside the    *)
(* control directory that the public output path links to, is exchanged.   *)
(*                                                                         *)
(* One file-system call is one step; any of them may fail, and the process *)
(* may die between two of them.  The flock of lockOutput excludes other    *)
(* builds and goes with its process; a writer that does not take it may    *)
(* still replace the output path or the current link.                      *)
(***************************************************************************)
CONSTANTS
  Runners, Trees,
  Plans,      \* publications: [tree, expected], expected = AnyTree for a plain build
  Releases,   \* supply of release directory names
  AnyTree, None

VARIABLES
  output,     \* the public path: "absent", "managed" or "foreign"
  control,    \* does the control directory exist?
  current,    \* the release its current link names, or None
  release,    \* release -> [tree, state], state "absent", "partial" or "whole"
  session

vars == <<output, control, current, release, session>>
disk == <<output, control, current, release>>

Idle == [pc |-> "idle", plan |-> None, link |-> None, dir |-> None, displaced |-> None]

Init ==
  /\ output = "absent" /\ control = FALSE /\ current = None
  /\ release = [d \in Releases |-> [tree |-> None, state |-> "absent"]]
  /\ session = [r \in Runners |-> Idle]

At(r, pc) == session[r].pc = pc
Goto(r, pc) == session' = [session EXCEPT ![r].pc = pc]
Whole(d) == d # None /\ release[d].state = "whole"

(* VerifyRepository of what the output path resolves to.                   *)
LiveTree == IF output = "managed" /\ Whole(current) THEN release[current].tree ELSE None

(* lockOutput: LOCK_EX|LOCK_NB                                             *)
LockOutput(r, p) ==
  /\ \A q \in Runners : At(q, "idle")
  /\ session' = [session EXCEPT ![r] = [Idle EXCEPT !.pc = "inspect", !.plan = p]]
  /\ UNCHANGED disk

(* currentManagedRelease, and the comparison with the plan's target tree.  *)
CurrentManagedRelease(r) ==
  /\ At(r, "inspect")
  /\ \/ /\ output = "absent"
        /\ Goto(r, IF control THEN "orphan" ELSE "expected")
     \/ /\ output = "foreign" \/ (output = "managed" /\ ~Whole(current))
        /\ session' = [session EXCEPT ![r] = Idle]
     \/ /\ output = "managed" /\ Whole(current)
        /\ session' = [session EXCEPT ![r].pc = "expected", ![r].link = current]
  /\ UNCHANGED disk

(* removeOrphanedControl, in its order: the link, the directory, the       *)
(* release.  A release that does not verify is left, and the build refused.*)
OrphanLink(r) ==
  /\ At(r, "orphan")
  /\ IF current # None /\ release[current].state = "partial"
     THEN session' = [session EXCEPT ![r] = Idle] /\ UNCHANGED current
     ELSE session' = [session EXCEPT ![r].pc = "orphandir", ![r].dir = current] /\ current' = None
  /\ UNCHANGED <<output, control, release>>

OrphanDirectory(r) ==
  /\ At(r, "orphandir")
  /\ control' = FALSE
  /\ Goto(r, "orphanrelease")
  /\ UNCHANGED <<output, current, release>>

OrphanRelease(r) ==
  /\ At(r, "orphanrelease")
  /\ release' = IF session[r].dir = None THEN release ELSE [release EXCEPT ![session[r].dir].state = "absent"]
  /\ session' = [session EXCEPT ![r].pc = "expected", ![r].dir = None]
  /\ UNCHANGED <<output, control, current>>

(* "stale target"                                                          *)
ExpectedTree(r) ==
  LET plan == session[r].plan
      tree == IF session[r].link = None THEN None ELSE release[session[r].link].tree
  IN plan.expected = AnyTree \/ plan.expected = tree

CheckExpected(r) ==
  /\ At(r, "expected")
  /\ IF ExpectedTree(r) THEN Goto(r, "write") ELSE session' = [session EXCEPT ![r] = Idle]
  /\ UNCHANGED disk

(* MkdirTemp, then every file with O_EXCL, its digest checked, synced.     *)
CreateRelease(r, d) ==
  /\ At(r, "write") /\ session[r].dir = None
  /\ release[d].tree = None
  /\ release' = [release EXCEPT ![d] = [tree |-> session[r].plan.tree, state |-> "partial"]]
  /\ session' = [session EXCEPT ![r].dir = d]
  /\ UNCHANGED <<output, control, current>>

(* Mutation: the release is published while its files are being written.   *)
MaterializeNothing(r) ==
  /\ At(r, "write") /\ session[r].dir # None
  /\ Goto(r, IF session[r].link = None THEN "control" ELSE "recheck")
  /\ UNCHANGED disk

MaterializeFiles(r) ==
  /\ At(r, "write") /\ session[r].dir # None
  /\ release' = [release EXCEPT ![session[r].dir].state = "whole"]
  /\ Goto(r, IF session[r].link = None THEN "control" ELSE "recheck")
  /\ UNCHANGED <<output, control, current>>

(* publishRelease, first publication                                       *)
MakeControl(r) ==
  /\ At(r, "control")
  /\ control' = TRUE
  /\ Goto(r, IF control THEN "cleanup" ELSE "current")
  /\ UNCHANGED <<output, current, release>>

MakeCurrent(r) ==
  /\ At(r, "current")
  /\ current' = session[r].dir
  /\ Goto(r, "output")
  /\ UNCHANGED <<output, control, release>>

(* os.Symlink fails when the path exists.                                  *)
MakeOutput(r) ==
  /\ At(r, "output")
  /\ output' = IF output = "absent" THEN "managed" ELSE output
  /\ Goto(r, IF output = "absent" THEN "done" ELSE "cleanup")
  /\ UNCHANGED <<control, current, release>>

(* publishRelease, replacement: look again, then exchange the links.       *)
Recheck(r) ==
  /\ At(r, "recheck")
  /\ Goto(r, IF output = "managed" /\ current = session[r].link /\ Whole(current) THEN "exchange" ELSE "cleanup")
  /\ UNCHANGED disk

Exchange(r) ==
  /\ At(r, "exchange")
  /\ current' = session[r].dir
  /\ session' = [session EXCEPT ![r].pc = "displaced", ![r].displaced = current]
  /\ UNCHANGED <<output, control, release>>

(* Mutation: the displaced link is not read back.                          *)
DisplacedUnread(r) ==
  /\ At(r, "displaced")
  /\ session' = IF output = "managed" THEN [session EXCEPT ![r].pc = "done"] ELSE [session EXCEPT ![r] = Idle]
  /\ UNCHANGED disk

(* Mutation: a surprise after the exchange is handled like one before it,  *)
(* and the release that has just gone live is removed.                     *)
DisplacedCleansUp(r) ==
  /\ At(r, "displaced")
  /\ Goto(r, IF session[r].displaced = session[r].link /\ output = "managed" THEN "done" ELSE "cleanup")
  /\ UNCHANGED disk

(* exchangeReleaseLink reads what was displaced; publishRelease then reads *)
(* the output link again.  Either surprise is an error after the commit.   *)
Displaced(r) ==
  /\ At(r, "displaced")
  /\ session' = IF session[r].displaced = session[r].link /\ output = "managed"
                THEN [session EXCEPT ![r].pc = "done"] ELSE [session EXCEPT ![r] = Idle]
  /\ UNCHANGED disk

(* The deferred RemoveAll of a release that was not committed.             *)
Cleanup(r) ==
  /\ At(r, "cleanup")
  /\ release' = [release EXCEPT ![session[r].dir].state = IF @ = "whole" THEN "partial" ELSE "absent"]
  /\ session' = IF release[session[r].dir].state = "whole" THEN session ELSE [session EXCEPT ![r] = Idle]
  /\ UNCHANGED <<output, control, current>>

Done(r) ==
  /\ At(r, "done")
  /\ session' = [session EXCEPT ![r] = Idle]
  /\ UNCHANGED disk

Step(r) ==
  \/ CurrentManagedRelease(r) \/ OrphanLink(r) \/ OrphanDirectory(r) \/ OrphanRelease(r)
  \/ CheckExpected(r) \/ (\E d \in Releases : CreateRelease(r, d)) \/ MaterializeFiles(r)
  \/ MakeControl(r) \/ MakeCurrent(r) \/ MakeOutput(r)
  \/ Recheck(r) \/ Exchange(r) \/ Displaced(r) \/ Cleanup(r) \/ Done(r)

----------------------------------------------------------------------------
(* A call fails and leaves the disk as it was; before the release exists   *)
(* the build ends, after it the release is removed.                        *)
CallFails(r) ==
  /\ session[r].pc \in {"inspect", "orphan", "orphandir", "orphanrelease", "write", "control", "current", "output", "exchange"}
  /\ session' = IF session[r].dir # None /\ session[r].pc \notin {"orphandir", "orphanrelease"}
                THEN [session EXCEPT ![r].pc = "cleanup"] ELSE [session EXCEPT ![r] = Idle]
  /\ UNCHANGED disk

Crash(r) ==
  /\ ~At(r, "idle")
  /\ session' = [session EXCEPT ![r] = Idle]
  /\ UNCHANGED disk

(* A writer that does not take the lock.                                   *)
Intrude ==
  \/ output = "absent" /\ output' = "foreign" /\ UNCHANGED <<control, current, release, session>>
  \/ /\ output = "managed"
     /\ \E d \in Releases : /\ d # current /\ Whole(d) /\ \A r \in Runners : session[r].dir # d
                           /\ current' = d
     /\ UNCHANGED <<output, control, release, session>>

Progress ==
  \/ \E r \in Runners, p \in Plans : LockOutput(r, p)
  \/ \E r \in Runners : Step(r)

Fault ==
  \/ \E r \in Runners : CallFails(r) \/ Crash(r)
  \/ Intrude

Next == Progress \/ Fault
Spec == Init /\ [][Next]_vars

----------------------------------------------------------------------------
(* What the output path resolves to is a complete, verified release, after *)
(* every call, failure and crash.                                          *)
LiveWhole == output = "managed" => control /\ Whole(current)

(* A publication that reports success displaced exactly the release it was *)
(* checked against: an update by another writer is reported, not lost.     *)
ReportsLostUpdate == \A r \in Runners : At(r, "done") => session[r].displaced = session[r].link

(* A build only ever takes away a release that it is not served from: the  *)
(* orphan clean-up and the deferred clean-up never touch the live one.     *)
(* The live tree is replaced only by a publication, never withdrawn.       *)
NeverWithdrawn == [][LiveTree # None => LiveTree' # None]_vars
============================================================================
