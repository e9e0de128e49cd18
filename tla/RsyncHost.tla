----------------------------- MODULE RsyncHost -----------------------------
(***************************************************************************)
(* The directory host reached over ssh, adapters/host/rsync: a publication *)
(* is copied into a staging directory, renamed to the release directory    *)
(* named by its tree digest, and goes live when the published path, a      *)
(* symbolic link, is replaced while a lock directory is held.              *)
(*                                                                         *)
(* Every remote command is a step with an outcome: "ok" runs and answers,  *)
(* "lost" runs and its answer is lost, "cut" never runs (or, for rm -rf,   *)
(* stops half way).  ssh reports its own failures with exit status 255,    *)
(* which SSHRunner.Run wraps like the exit status of the remote command,   *)
(* so an adapter that asks exitCode cannot tell them from an answer.       *)
(***************************************************************************)
EXTENDS FiniteSets

CONSTANTS
  Runners,   \* invocations of the engine, from any number of clones
  Plans,     \* reviewed plans
  Trees,     \* tree digests
  Overlap,   \* what runs beside a publication: {}, "publish" of the same tree, "collect"
  Foreign,   \* the published path is a directory the adapter did not create
  None

VARIABLES
  plans,     \* plan -> [tree, expected] or None
  link,      \* what the published path is: a tree, Foreign or None
  release,   \* tree -> "absent", "partial" or "whole"
  staging,   \* tree -> "absent", "partial" or "whole"
  lock,      \* does the lock directory exist?
  session    \* runner -> where its invocation is

vars == <<plans, link, release, staging, lock, session>>

Outcomes == {"ok", "lost", "cut"}
Idle == [pc |-> "idle", plan |-> None, ok |-> FALSE, keep |-> {}, doomed |-> {}]

(* The commands the lock directory is held across.                         *)
Holding == {"observe", "test", "swap", "unlock"}

Init ==
  /\ plans = [p \in Plans |-> None]
  /\ link \in Trees \union {Foreign, None}
  /\ release = [t \in Trees |-> IF t = link THEN "whole" ELSE "absent"]
  /\ staging = [t \in Trees |-> "absent"]
  /\ lock = FALSE
  /\ session = [r \in Runners |-> Idle]

At(r, pc) == session[r].pc = pc
Goto(r, pc) == session' = [session EXCEPT ![r].pc = pc]
Tree(r) == plans[session[r].plan].tree
Expected(r) == plans[session[r].plan].expected

(* Observe: readlink, where anything but a link into the releases, and     *)
(* every failure that has an exit status, is no managed revision.          *)
Observe(f) == IF f = "ok" /\ link \in Trees THEN link ELSE None

----------------------------------------------------------------------------
(* Planning, and the guards of apply that precede Commit                   *)

MakePlan(p, t) ==
  /\ plans[p] = None /\ t # Observe("ok")
  /\ plans' = [plans EXCEPT ![p] = [tree |-> t, expected |-> Observe("ok")]]
  /\ UNCHANGED <<link, release, staging, lock, session>>

Collecting(r) == session[r].pc \in {"list", "delete"}
Publishing == {r \in Runners : ~At(r, "idle") /\ ~Collecting(r)}

(* prepareRepository lets a plan reach Commit while the revision it was    *)
(* computed against is live; Stage then verifies the local tree.           *)
Begin(r, p) ==
  /\ At(r, "idle") /\ plans[p] # None
  /\ Observe("ok") = plans[p].expected
  /\ "collect" \in Overlap \/ \A q \in Runners : ~Collecting(q)
  /\ "publish" \in Overlap \/ \A q \in Publishing : Tree(q) # plans[p].tree
  /\ session' = [session EXCEPT ![r] = [Idle EXCEPT !.pc = "copy", !.plan = p]]
  /\ UNCHANGED <<plans, link, release, staging, lock>>

----------------------------------------------------------------------------
(* Commit                                                                  *)

(* mkdir -p staging, and rsync starts to fill it.                          *)
Copy(r, f) ==
  /\ At(r, "copy")
  /\ staging' = IF f # "cut" /\ staging[Tree(r)] = "absent"
                THEN [staging EXCEPT ![Tree(r)] = "partial"] ELSE staging
  /\ Goto(r, IF f = "ok" THEN "sent" ELSE "abort")
  /\ UNCHANGED <<plans, link, release, lock>>

(* rsync --delete ends: the staging directory is the local tree, unless    *)
(* somebody took the directory away meanwhile.                             *)
Sent(r, f) ==
  /\ At(r, "sent")
  /\ LET done == f # "cut" /\ staging[Tree(r)] # "absent" IN
     /\ staging' = IF done THEN [staging EXCEPT ![Tree(r)] = "whole"] ELSE staging
     /\ Goto(r, IF done /\ f = "ok" THEN "remove" ELSE "abort")
  /\ UNCHANGED <<plans, link, release, lock>>

(* rm -rf release                                                          *)
Remove(r, f) ==
  /\ At(r, "remove")
  /\ \/ f # "cut" /\ release' = [release EXCEPT ![Tree(r)] = "absent"]
     \/ f = "cut" /\ release' = release
     \/ f = "cut" /\ release[Tree(r)] # "absent" /\ release' = [release EXCEPT ![Tree(r)] = "partial"]
  /\ Goto(r, IF f = "ok" THEN "move" ELSE "abort")
  /\ UNCHANGED <<plans, link, staging, lock>>

(* mv staging release: a release that exists again swallows the staging    *)
(* directory and keeps what it has.                                        *)
Move(r, f) ==
  /\ At(r, "move")
  /\ LET runs == f # "cut" /\ staging[Tree(r)] # "absent" IN
     /\ staging' = IF runs THEN [staging EXCEPT ![Tree(r)] = "absent"] ELSE staging
     /\ release' = IF runs /\ release[Tree(r)] = "absent"
                   THEN [release EXCEPT ![Tree(r)] = staging[Tree(r)]] ELSE release
     /\ Goto(r, IF runs /\ f = "ok" THEN "lock" ELSE "abort")
  /\ UNCHANGED <<plans, link, lock>>

(* lock: mkdir fails when the directory exists.                            *)
Lock(r, f) ==
  /\ At(r, "lock")
  /\ lock' = (lock \/ f # "cut")
  /\ Goto(r, IF ~lock /\ f = "ok" THEN "observe" ELSE "abort")
  /\ UNCHANGED <<plans, link, release, staging>>

(* Mutation: an observation that finds nothing is not compared.            *)
StaleUnlessAbsent(r, seen) == seen # Expected(r) /\ seen # None

(* The published revision is not the one the plan was computed against.    *)
Stale(r, seen) == seen # Expected(r)

(* Under the lock: already live, stale, absent, or as expected.            *)
CheckExpected(r, f) ==
  /\ At(r, "observe")
  /\ LET seen == Observe(f) IN
     \/ /\ seen = Tree(r)
        /\ session' = [session EXCEPT ![r].pc = "unlock", ![r].ok = TRUE]
     \/ /\ seen # Tree(r) /\ Stale(r, seen)
        /\ Goto(r, "unlock")
     \/ /\ seen # Tree(r) /\ ~Stale(r, seen)
        /\ Goto(r, IF seen = None THEN "test" ELSE "swap")
  /\ UNCHANGED <<plans, link, release, staging, lock>>

(* requireAbsentOrSymlink: test -e follows the link.                       *)
RequireAbsentOrSymlink(r, f) ==
  /\ At(r, "test")
  /\ LET exists == link = Foreign \/ (link \in Trees /\ release[link] # "absent") IN
     Goto(r, IF f = "ok" /\ exists THEN "unlock" ELSE "swap")
  /\ UNCHANGED <<plans, link, release, staging, lock>>

(* swapRoot: one rename; it does not replace a directory.                  *)
SwapRoot(r, f) ==
  /\ At(r, "swap")
  /\ link' = IF f # "cut" /\ link # Foreign THEN Tree(r) ELSE link
  /\ session' = [session EXCEPT ![r].pc = "unlock", ![r].ok = (f = "ok" /\ link # Foreign)]
  /\ UNCHANGED <<plans, release, staging, lock>>

(* The deferred rmdir, best effort.                                        *)
Unlock(r, f) ==
  /\ At(r, "unlock")
  /\ lock' = (lock /\ f = "cut")
  /\ Goto(r, "abort")
  /\ UNCHANGED <<plans, link, release, staging>>

(* Abort: apply always ends with it; rm -rf staging.                       *)
Abort(r, f) ==
  /\ At(r, "abort")
  /\ staging' = IF f = "cut" THEN staging ELSE [staging EXCEPT ![Tree(r)] = "absent"]
  /\ session' = [session EXCEPT ![r] = Idle]
  /\ UNCHANGED <<plans, link, release, lock>>

----------------------------------------------------------------------------
(* Collect: the caller's ledger, possibly behind, names trees to keep      *)

(* Mutation: only what the ledger names is kept, not what is live.         *)
CollectForgetsLive(r, K, f) ==
  /\ At(r, "idle")
  /\ "collect" \in Overlap \/ Publishing = {}
  /\ Observe(f) # None
  /\ session' = [session EXCEPT ![r] = [Idle EXCEPT !.pc = "list", !.keep = K]]
  /\ UNCHANGED <<plans, link, release, staging, lock>>

CollectObserve(r, K, f) ==
  /\ At(r, "idle")
  /\ "collect" \in Overlap \/ Publishing = {}
  /\ Observe(f) # None   \* otherwise refused
  /\ session' = [session EXCEPT ![r] = [Idle EXCEPT !.pc = "list", !.keep = K \union {Observe(f)}]]
  /\ UNCHANGED <<plans, link, release, staging, lock>>

(* releaseTrees: a failed ls is an empty list.                             *)
CollectList(r, f) ==
  /\ At(r, "list")
  /\ session' = [session EXCEPT ![r].pc = "delete",
                   ![r].doomed = {t \in Trees : f = "ok" /\ release[t] # "absent"} \ session[r].keep]
  /\ UNCHANGED <<plans, link, release, staging, lock>>

CollectDelete(r, t, f) ==
  /\ At(r, "delete") /\ t \in session[r].doomed
  /\ \/ f # "cut" /\ release' = [release EXCEPT ![t] = "absent"]
     \/ f = "cut" /\ release' \in {release, [release EXCEPT ![t] = "partial"]}
  /\ session' = [session EXCEPT ![r].doomed = IF f = "ok" THEN @ \ {t} ELSE {}]
  /\ UNCHANGED <<plans, link, staging, lock>>

CollectDone(r) ==
  /\ At(r, "delete") /\ session[r].doomed = {}
  /\ session' = [session EXCEPT ![r] = Idle]
  /\ UNCHANGED <<plans, link, release, staging, lock>>

----------------------------------------------------------------------------
(* The invocation dies.                                                    *)
Crash(r) ==
  /\ ~At(r, "idle")
  /\ session' = [session EXCEPT ![r] = Idle]
  /\ UNCHANGED <<plans, link, release, staging, lock>>

(* "if none is running, remove it": the operator clears a leaked lock.     *)
RemoveLock ==
  /\ lock /\ \A r \in Runners : session[r].pc \notin Holding
  /\ lock' = FALSE
  /\ UNCHANGED <<plans, link, release, staging, session>>

Commit(r, f) ==
  \/ Copy(r, f) \/ Sent(r, f) \/ Remove(r, f) \/ Move(r, f) \/ Lock(r, f) \/ CheckExpected(r, f)
  \/ RequireAbsentOrSymlink(r, f) \/ SwapRoot(r, f) \/ Unlock(r, f) \/ Abort(r, f)

Collect(r, f) ==
  \/ \E K \in SUBSET Trees : CollectObserve(r, K, f)
  \/ CollectList(r, f)
  \/ \E t \in Trees : CollectDelete(r, t, f)

Progress ==
  \/ \E p \in Plans, t \in Trees : MakePlan(p, t)
  \/ \E r \in Runners, p \in Plans : Begin(r, p)
  \/ \E r \in Runners : Commit(r, "ok") \/ Collect(r, "ok") \/ CollectDone(r)
  \/ RemoveLock

Fault ==
  \/ \E r \in Runners, f \in Outcomes \ {"ok"} : Commit(r, f) \/ Collect(r, f)
  \/ \E r \in Runners : Crash(r)

Next == Progress \/ Fault
Spec == Init /\ [][Next]_vars

----------------------------------------------------------------------------
(* A reader following the published link reaches a complete release, at    *)
(* every moment and after any interruption (rsync.go:118-120).             *)
LiveWhole == link \in Trees => release[link] = "whole"

(* The link only ever moves from the revision a plan was reviewed against  *)
(* to the tree of that plan, by a runner that holds the lock: the lock     *)
(* directory and the check under it stand in for a compare-and-swap.       *)
SwapsExpected ==
  [][link' # link => \E r \in Runners : At(r, "swap") /\ link = Expected(r) /\ link' = Tree(r)]_vars
============================================================================
