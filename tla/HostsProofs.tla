---------------------------- MODULE HostsProofs ----------------------------
(***************************************************************************)
(* Proofs about the hosts that are not an object store, for any number of  *)
(* runners, plans, trees and faults.                                       *)
(***************************************************************************)
EXTENDS Hosts, TLAPS

USE TreesAssumption, PlansAssumption, ReleasesAssumption, EffectsAssumption, RsyncMarkAssumption

----------------------------------------------------------------------------
(* rsync *)

States == {"absent", "partial", "whole"}
RsyncFiles == [tree : Trees, expected : Trees \union {None}]

(* The phases in which the tree of a runner is not live, those in which it *)
(* is being moved into its place, and those in which it is in place.       *)
Moving == {"remove", "move"}
InPlace == {"lock", "observe", "test", "swap"}
Unpublished == {"copy", "sent"} \union Moving \union InPlace
PublishPhases == Unpublished \union {"unlock", "abort"}
RsyncSessions ==
  [pc : PublishPhases \union {"idle", "list", "delete"}, plan : RsyncPlans \union {None}, ok : BOOLEAN,
   keep : SUBSET Trees, doomed : SUBSET Trees]

Publishes(r) == ssh[r].pc \in PublishPhases

RsyncType ==
  /\ plans \in [RsyncPlans -> RsyncFiles \union {None}]
  /\ link \in Trees \union {Foreign, None}
  /\ remote \in [Trees -> States] /\ staging \in [Trees -> States]
  /\ ssh \in [Runners -> RsyncSessions]
  /\ \A r \in Runners : Publishes(r) => ssh[r].plan \in RsyncPlans /\ plans[ssh[r].plan] # None

(* No publication is computed against its own tree, so none removes the    *)
(* live release; publications that run together have trees of their own,   *)
(* and a collection runs alone and keeps what is live.                     *)
RsyncInv ==
  /\ RsyncType
  /\ RsyncLiveWhole
  /\ \A p \in RsyncPlans : plans[p] # None => plans[p].expected # plans[p].tree
  /\ \A r \in Runners :
       /\ ssh[r].pc \in Unpublished => link # Rsync!Tree(r)
       /\ ssh[r].pc \in Moving => staging[Rsync!Tree(r)] = "whole"
       /\ ssh[r].pc = "move" => remote[Rsync!Tree(r)] = "absent"
       /\ ssh[r].pc \in InPlace => remote[Rsync!Tree(r)] = "whole"
       /\ Rsync!Collecting(r) => \A q \in Runners : ~Publishes(q)
       /\ ssh[r].pc = "list" => link \in ssh[r].keep
       /\ ssh[r].pc = "delete" => link \notin ssh[r].doomed
  /\ \A r, q \in Runners : r # q /\ Publishes(r) /\ Publishes(q) => Rsync!Tree(r) # Rsync!Tree(q)

(* One runner moves.                                                       *)
RsyncMoved(r, pc, plan, keep, doomed) ==
  /\ ssh' \in [Runners -> RsyncSessions]
  /\ ssh'[r].pc = pc /\ ssh'[r].plan = plan /\ ssh'[r].keep = keep /\ ssh'[r].doomed = doomed
  /\ \A q \in Runners \ {r} : ssh'[q] = ssh[q]

(* The moves the steps share.                                              *)
LEMMA RsyncMoves ==
  ASSUME RsyncType, NEW r \in Runners
  PROVE  /\ \A x \in PublishPhases :
              Rsync!Goto(r, x) => RsyncMoved(r, x, ssh[r].plan, ssh[r].keep, ssh[r].doomed)
         /\ \A x \in PublishPhases, b \in BOOLEAN :
              ssh' = [ssh EXCEPT ![r].pc = x, ![r].ok = b]
                => RsyncMoved(r, x, ssh[r].plan, ssh[r].keep, ssh[r].doomed)
         /\ ssh' = [ssh EXCEPT ![r] = Rsync!Idle] => RsyncMoved(r, "idle", None, {}, {})
<1>0. ssh \in [Runners -> RsyncSessions] /\ ssh[r] \in RsyncSessions
  BY DEF RsyncType
<1>1. ASSUME NEW x \in PublishPhases, Rsync!Goto(r, x)
      PROVE  RsyncMoved(r, x, ssh[r].plan, ssh[r].keep, ssh[r].doomed)
  <2>1. ssh' = [ssh EXCEPT ![r] = ssh'[r]] /\ ssh'[r] = [ssh[r] EXCEPT !.pc = x]
    BY <1>0, <1>1 DEF Rsync!Goto
  <2>2. ssh'[r] \in RsyncSessions /\ ssh'[r].pc = x /\ ssh'[r].plan = ssh[r].plan
        /\ ssh'[r].keep = ssh[r].keep /\ ssh'[r].doomed = ssh[r].doomed
    BY <1>0, <2>1 DEF RsyncSessions
  <2> QED
    BY <1>0, <2>1, <2>2 DEF RsyncMoved
<1>2. ASSUME NEW x \in PublishPhases, NEW b \in BOOLEAN, ssh' = [ssh EXCEPT ![r].pc = x, ![r].ok = b]
      PROVE  RsyncMoved(r, x, ssh[r].plan, ssh[r].keep, ssh[r].doomed)
  <2>1. ssh' = [ssh EXCEPT ![r] = ssh'[r]] /\ ssh'[r] = [ssh[r] EXCEPT !.pc = x, !.ok = b]
    BY <1>0, <1>2, Zenon
  <2>2. ssh'[r] \in RsyncSessions /\ ssh'[r].pc = x /\ ssh'[r].plan = ssh[r].plan
        /\ ssh'[r].keep = ssh[r].keep /\ ssh'[r].doomed = ssh[r].doomed
    BY <1>0, <2>1, ZenonT(60) DEF RsyncSessions
  <2> QED
    BY <1>0, <2>1, <2>2 DEF RsyncMoved
<1>3. ASSUME ssh' = [ssh EXCEPT ![r] = Rsync!Idle] PROVE RsyncMoved(r, "idle", None, {}, {})
  <2>1. Rsync!Idle \in RsyncSessions
    BY DEF Rsync!Idle, RsyncSessions
  <2> QED
    BY <1>0, <1>3, <2>1 DEF RsyncMoved, Rsync!Idle
<1> QED
  BY <1>1, <1>2, <1>3

(* A publication works on the directories of its own tree, and leaves the  *)
(* link alone unless it has its tree in place.                             *)
LEMMA PublishStep ==
  ASSUME RsyncInv, UNCHANGED plans, NEW r \in Runners, Publishes(r), NEW t \in Trees, t = Rsync!Tree(r),
         NEW x \in PublishPhases, RsyncMoved(r, x, ssh[r].plan, ssh[r].keep, ssh[r].doomed),
         remote' \in [Trees -> States], staging' \in [Trees -> States],
         \A u \in Trees \ {t} : remote'[u] = remote[u] /\ staging'[u] = staging[u],
         link' \in {link, t},
         x \in Unpublished => link' # t,
         x \in Moving => staging'[t] = "whole",
         x = "move" => remote'[t] = "absent",
         x \in InPlace => remote'[t] = "whole",
         link' = t => remote'[t] = "whole"
  PROVE  RsyncInv'
<1>0. RsyncType /\ RsyncLiveWhole
  BY DEF RsyncInv
<1>1. /\ ssh'[r].pc = x /\ ssh'[r].plan = ssh[r].plan /\ \A q \in Runners \ {r} : ssh'[q] = ssh[q]
      /\ ssh' \in [Runners -> RsyncSessions]
  BY DEF RsyncMoved
<1>2. \A q \in Runners : Publishes(q) <=> Publishes(q)'
  BY <1>1 DEF Publishes
<1>3. \A q \in Runners : ssh'[q].plan = ssh[q].plan /\ Rsync!Tree(q)' = Rsync!Tree(q)
  BY <1>1 DEF Rsync!Tree
<1>4. \A q \in Runners : Publishes(q) => Rsync!Tree(q) \in Trees
  BY <1>0 DEF RsyncType, RsyncFiles, Rsync!Tree
<1>5. \A q \in Runners \ {r} : Publishes(q) => Rsync!Tree(q) # t
  BY DEF RsyncInv
<1>6. RsyncType'
  BY <1>0, <1>1, <1>2, <1>3 DEF RsyncType
<1>7. RsyncLiveWhole'
  BY <1>0 DEF RsyncLiveWhole, Rsync!LiveWhole
<1>8. \A q \in Runners : ~Rsync!Collecting(q) /\ ~Rsync!Collecting(q)'
  <2>1. \A q \in Runners : ~Rsync!Collecting(q)
    BY DEF RsyncInv
  <2>2. ~Rsync!Collecting(r)'
    BY <1>1 DEF Rsync!Collecting, PublishPhases, Unpublished, Moving, InPlace
  <2> QED
    BY <1>1, <2>1, <2>2 DEF Rsync!Collecting
<1>9. ASSUME NEW q \in Runners
      PROVE  (/\ ssh[q].pc \in Unpublished => link # Rsync!Tree(q)
              /\ ssh[q].pc \in Moving => staging[Rsync!Tree(q)] = "whole"
              /\ ssh[q].pc = "move" => remote[Rsync!Tree(q)] = "absent"
              /\ ssh[q].pc \in InPlace => remote[Rsync!Tree(q)] = "whole")'
  <2>1. CASE q = r
    BY <1>1, <1>3, <2>1
  <2>2. CASE q # r
    <3>1. ssh'[q].pc \in Unpublished \union Moving \union InPlace \union {"move"} => Publishes(q)
      BY <1>1, <2>2 DEF Publishes, PublishPhases, Unpublished, Moving
    <3>2. PICK u : u = Rsync!Tree(q) /\ Rsync!Tree(q)' = u
      BY <1>3
    <3>3. Publishes(q) => u \in Trees \ {t}
      BY <1>4, <1>5, <2>2, <3>2
    <3>4. /\ ssh[q].pc \in Unpublished => link # u
          /\ ssh[q].pc \in Moving => staging[u] = "whole"
          /\ ssh[q].pc = "move" => remote[u] = "absent"
          /\ ssh[q].pc \in InPlace => remote[u] = "whole"
      BY <3>2 DEF RsyncInv
    <3>5. ssh'[q] = ssh[q]
      BY <1>1, <2>2
    <3> QED
      BY <3>1, <3>2, <3>3, <3>4, <3>5 DEF Moving
  <2> QED
    BY <2>1, <2>2
<1>10. ASSUME NEW q \in Runners, NEW s \in Runners, q # s, Publishes(q)', Publishes(s)'
       PROVE  Rsync!Tree(q)' # Rsync!Tree(s)'
  BY <1>2, <1>3, <1>10 DEF RsyncInv
<1> QED
  BY <1>6, <1>7, <1>8, <1>9, <1>10 DEF RsyncInv, Rsync!Collecting

(* Every command of Commit, whatever its outcome.                          *)
LEMMA CommitSteps ==
  ASSUME RsyncInv, NEW r \in Runners, NEW f, Rsync!Commit(r, f), ~Rsync!Abort(r, f)
  PROVE  RsyncInv'
<1>0. RsyncType /\ RsyncLiveWhole
  BY DEF RsyncInv
<1>1. ssh[r].pc \in PublishPhases
  BY DEF Rsync!Commit, Rsync!Copy, Rsync!Sent, Rsync!Remove, Rsync!Move, Rsync!Lock, Rsync!CheckExpected,
         Rsync!RequireAbsentOrSymlink, Rsync!SwapRoot, Rsync!Unlock, Rsync!At,
         PublishPhases, Unpublished, Moving, InPlace
<1>2. PICK t \in Trees : t = Rsync!Tree(r)
  BY <1>0, <1>1 DEF RsyncType, RsyncFiles, Rsync!Tree, Publishes
<1>3. /\ remote[t] \in States /\ staging[t] \in States /\ remote \in [Trees -> States] /\ staging \in [Trees -> States]
      /\ link = t => remote[t] = "whole"
  BY <1>0 DEF RsyncType, RsyncLiveWhole, Rsync!LiveWhole
<1>4. /\ ssh[r].pc \in Unpublished => link # t
      /\ ssh[r].pc \in Moving => staging[t] = "whole"
      /\ ssh[r].pc = "move" => remote[t] = "absent"
      /\ ssh[r].pc \in InPlace => remote[t] = "whole"
  BY <1>2 DEF RsyncInv
<1>5. ASSUME NEW x \in PublishPhases, Rsync!Goto(r, x) \/ \E b \in BOOLEAN : ssh' = [ssh EXCEPT ![r].pc = x, ![r].ok = b]
      PROVE  RsyncMoved(r, x, ssh[r].plan, ssh[r].keep, ssh[r].doomed)
  BY <1>0, <1>5, RsyncMoves
<1>6. /\ States = {"absent", "partial", "whole"} /\ Moving = {"remove", "move"}
      /\ InPlace = {"lock", "observe", "test", "swap"}
      /\ Unpublished = {"copy", "sent", "remove", "move", "lock", "observe", "test", "swap"}
      /\ PublishPhases = {"copy", "sent", "remove", "move", "lock", "observe", "test", "swap", "unlock", "abort"}
  BY DEF States, Moving, InPlace, Unpublished, PublishPhases
<1>7. CASE Rsync!Copy(r, f)
  <2>1. PICK x \in {"sent", "abort"} : Rsync!Goto(r, x)
    BY <1>7 DEF Rsync!Copy
  <2>2. /\ ssh[r].pc = "copy" /\ UNCHANGED <<plans, link, remote>>
        /\ staging' = staging \/ staging' = [staging EXCEPT ![t] = "partial"]
    BY <1>2, <1>7 DEF Rsync!Copy, Rsync!At
  <2>3. staging' \in [Trees -> States] /\ \A u \in Trees \ {t} : staging'[u] = staging[u]
    BY <1>3, <1>6, <2>2
  <2> QED
    BY <1>1, <1>2, <1>3, <1>4, <1>5, <1>6, <2>1, <2>2, <2>3, PublishStep DEF Publishes
<1>8. CASE Rsync!Sent(r, f)
  <2>1. PICK x \in {"remove", "abort"} :
          /\ Rsync!Goto(r, x)
          /\ \/ staging' = [staging EXCEPT ![t] = "whole"]
             \/ staging' = staging /\ x = "abort"
    BY <1>2, <1>8 DEF Rsync!Sent
  <2>2. ssh[r].pc = "sent" /\ UNCHANGED <<plans, link, remote>>
    BY <1>8 DEF Rsync!Sent, Rsync!At
  <2>3. /\ staging' \in [Trees -> States] /\ \A u \in Trees \ {t} : staging'[u] = staging[u]
        /\ x = "remove" => staging'[t] = "whole"
    BY <1>3, <1>6, <2>1
  <2> QED
    BY <1>1, <1>2, <1>3, <1>4, <1>5, <1>6, <2>1, <2>2, <2>3, PublishStep DEF Publishes
<1>9. CASE Rsync!Remove(r, f)
  <2>1. PICK x \in {"move", "abort"} :
          /\ Rsync!Goto(r, x)
          /\ \/ remote' = [remote EXCEPT ![t] = "absent"]
             \/ remote' \in {remote, [remote EXCEPT ![t] = "partial"]} /\ x = "abort"
    BY <1>2, <1>9 DEF Rsync!Remove
  <2>2. ssh[r].pc = "remove" /\ UNCHANGED <<plans, link, staging>>
    BY <1>9 DEF Rsync!Remove, Rsync!At
  <2>3. /\ remote' \in [Trees -> States] /\ \A u \in Trees \ {t} : remote'[u] = remote[u]
        /\ x = "move" => remote'[t] = "absent"
    BY <1>3, <1>6, <2>1
  <2> QED
    BY <1>1, <1>2, <1>3, <1>4, <1>5, <1>6, <2>1, <2>2, <2>3, PublishStep DEF Publishes
<1>10. CASE Rsync!Move(r, f)
  <2>0. ssh[r].pc = "move" /\ UNCHANGED <<plans, link>>
    BY <1>10 DEF Rsync!Move, Rsync!At
  <2>1. PICK x \in {"lock", "abort"} :
          /\ Rsync!Goto(r, x)
          /\ \/ staging' = [staging EXCEPT ![t] = "absent"] /\ remote' = [remote EXCEPT ![t] = "whole"]
             \/ UNCHANGED <<staging, remote>> /\ x = "abort"
    BY <1>2, <1>4, <1>6, <1>10, <2>0, Zenon DEF Rsync!Move
  <2>2. /\ remote' \in [Trees -> States] /\ staging' \in [Trees -> States]
        /\ \A u \in Trees \ {t} : remote'[u] = remote[u] /\ staging'[u] = staging[u]
        /\ x = "lock" => remote'[t] = "whole"
    BY <1>3, <1>6, <2>1
  <2> QED
    BY <1>1, <1>2, <1>3, <1>4, <1>5, <1>6, <2>0, <2>1, <2>2, PublishStep DEF Publishes
<1>11. CASE \/ Rsync!Lock(r, f) \/ Rsync!CheckExpected(r, f) \/ Rsync!RequireAbsentOrSymlink(r, f)
            \/ Rsync!Unlock(r, f)
  <2>1. PICK x \in {"observe", "test", "swap", "unlock", "abort"} :
          Rsync!Goto(r, x) \/ \E b \in BOOLEAN : ssh' = [ssh EXCEPT ![r].pc = x, ![r].ok = b]
    BY <1>11, ZenonT(60) DEF Rsync!Lock, Rsync!CheckExpected, Rsync!RequireAbsentOrSymlink, Rsync!Unlock
  <2>2. UNCHANGED <<plans, link, remote, staging>>
    BY <1>11 DEF Rsync!Lock, Rsync!CheckExpected, Rsync!RequireAbsentOrSymlink, Rsync!Unlock
  <2>3. CASE ssh[r].pc = "unlock"
    <3>1. Rsync!Goto(r, "abort")
      BY <1>11, <2>3 DEF Rsync!Lock, Rsync!CheckExpected, Rsync!RequireAbsentOrSymlink, Rsync!Unlock, Rsync!At
    <3> QED
      BY <1>1, <1>2, <1>3, <1>4, <1>5, <1>6, <2>2, <3>1, PublishStep DEF Publishes
  <2>4. CASE ssh[r].pc \in {"lock", "observe", "test"}
    BY <1>1, <1>2, <1>3, <1>4, <1>5, <1>6, <2>1, <2>2, <2>4, PublishStep DEF Publishes
  <2> QED
    BY <1>11, <2>3, <2>4
    DEF Rsync!Lock, Rsync!CheckExpected, Rsync!RequireAbsentOrSymlink, Rsync!Unlock, Rsync!At
<1>12. CASE Rsync!SwapRoot(r, f)
  <2>1. /\ ssh[r].pc = "swap" /\ link' \in {link, t} /\ UNCHANGED <<plans, remote, staging>>
        /\ \E b \in BOOLEAN : ssh' = [ssh EXCEPT ![r].pc = "unlock", ![r].ok = b]
    BY <1>2, <1>12, ZenonT(60) DEF Rsync!SwapRoot, Rsync!At
  <2> QED
    BY <1>1, <1>2, <1>3, <1>4, <1>5, <1>6, <2>1, PublishStep, Zenon DEF Publishes
<1> QED
  BY <1>7, <1>8, <1>9, <1>10, <1>11, <1>12 DEF Rsync!Commit

(* A runner ends, with or without the cleanup of its own staging area.     *)
LEMMA LeaveStep ==
  ASSUME RsyncInv, NEW r \in Runners, ssh' = [ssh EXCEPT ![r] = Rsync!Idle], UNCHANGED <<plans, link, remote>>,
         staging' \in [Trees -> States],
         \A q \in Runners \ {r} : Publishes(q) => staging'[Rsync!Tree(q)] = staging[Rsync!Tree(q)]
  PROVE  RsyncInv'
<1>0. RsyncType /\ RsyncLiveWhole
  BY DEF RsyncInv
<1>1. /\ ssh' \in [Runners -> RsyncSessions] /\ ssh'[r].pc = "idle"
      /\ \A q \in Runners \ {r} : ssh'[q] = ssh[q]
  BY <1>0, RsyncMoves, Zenon DEF RsyncMoved
<1>2. ~Publishes(r)' /\ ~Rsync!Collecting(r)' /\ ssh'[r].pc \notin Unpublished /\ ssh'[r].pc \notin Moving
      /\ ssh'[r].pc \notin InPlace
  BY <1>1 DEF Publishes, Rsync!Collecting, PublishPhases, Unpublished, Moving, InPlace
<1>3. \A q \in Runners \ {r} : /\ Publishes(q)' = Publishes(q) /\ Rsync!Tree(q)' = Rsync!Tree(q)
                               /\ Rsync!Collecting(q)' = Rsync!Collecting(q)
  BY <1>1 DEF Publishes, Rsync!Tree, Rsync!Collecting
<1>4. RsyncType'
  BY <1>0, <1>1, <1>2, <1>3 DEF RsyncType
<1>5. \A q \in Runners : ssh[q].pc \in Moving => Publishes(q)
  BY DEF Publishes, PublishPhases, Unpublished
<1>6. ASSUME NEW q \in Runners
      PROVE  (/\ ssh[q].pc \in Unpublished => link # Rsync!Tree(q)
              /\ ssh[q].pc \in Moving => staging[Rsync!Tree(q)] = "whole"
              /\ ssh[q].pc = "move" => remote[Rsync!Tree(q)] = "absent"
              /\ ssh[q].pc \in InPlace => remote[Rsync!Tree(q)] = "whole"
              /\ Rsync!Collecting(q) => \A s \in Runners : ~Publishes(s)
              /\ ssh[q].pc = "list" => link \in ssh[q].keep
              /\ ssh[q].pc = "delete" => link \notin ssh[q].doomed)'
  <2>1. CASE q = r
    BY <1>1, <1>2, <2>1
  <2>2. CASE q # r
    <3>1. PICK u : u = Rsync!Tree(q) /\ Rsync!Tree(q)' = u
      BY <1>3, <2>2
    <3>2. ssh'[q] = ssh[q] /\ (Publishes(q) => staging'[u] = staging[u])
      BY <1>1, <2>2, <3>1
    <3>3. /\ ssh[q].pc \in Unpublished => link # u
          /\ ssh[q].pc \in Moving => staging[u] = "whole"
          /\ ssh[q].pc = "move" => remote[u] = "absent"
          /\ ssh[q].pc \in InPlace => remote[u] = "whole"
          /\ Rsync!Collecting(q) => \A s \in Runners : ~Publishes(s)
          /\ ssh[q].pc = "list" => link \in ssh[q].keep
          /\ ssh[q].pc = "delete" => link \notin ssh[q].doomed
      BY <3>1 DEF RsyncInv
    <3>4. Rsync!Collecting(q)' => \A s \in Runners : ~Publishes(s)'
      BY <1>2, <1>3, <2>2, <3>3
    <3> QED
      BY <1>5, <3>1, <3>2, <3>3, <3>4
  <2> QED
    BY <2>1, <2>2
<1>7. \A p \in RsyncPlans : plans'[p] # None => plans'[p].expected # plans'[p].tree
  BY DEF RsyncInv
<1>8. RsyncLiveWhole'
  BY <1>0 DEF RsyncLiveWhole, Rsync!LiveWhole
<1>9. ASSUME NEW q \in Runners, NEW s \in Runners, q # s, Publishes(q)', Publishes(s)'
      PROVE  Rsync!Tree(q)' # Rsync!Tree(s)'
  BY <1>2, <1>3, <1>9 DEF RsyncInv
<1> QED
  BY <1>4, <1>6, <1>7, <1>8, <1>9 DEF RsyncInv

(* Abort removes the staging directory of a tree of its own.               *)
LEMMA AbortSteps ==
  ASSUME RsyncInv, NEW r \in Runners, Rsync!Crash(r) \/ Rsync!CollectDone(r) \/ \E f : Rsync!Abort(r, f)
  PROVE  RsyncInv'
<1>0. RsyncType
  BY DEF RsyncInv
<1>1. CASE Rsync!Crash(r) \/ Rsync!CollectDone(r)
  BY <1>0, <1>1, LeaveStep DEF Rsync!Crash, Rsync!CollectDone, RsyncType
<1>2. ASSUME NEW f, Rsync!Abort(r, f) PROVE RsyncInv'
  <2>1. Publishes(r)
    BY <1>2 DEF Rsync!Abort, Rsync!At, Publishes, PublishPhases
  <2>2. PICK t \in Trees : t = Rsync!Tree(r)
    BY <1>0, <2>1 DEF RsyncType, RsyncFiles, Rsync!Tree
  <2>3. staging' = staging \/ staging' = [staging EXCEPT ![t] = "absent"]
    BY <1>2, <2>2 DEF Rsync!Abort
  <2>4. staging' \in [Trees -> States] /\ \A u \in Trees \ {t} : staging'[u] = staging[u]
    BY <1>0, <2>3 DEF RsyncType, States
  <2>5. ASSUME NEW q \in Runners \ {r}, Publishes(q) PROVE Rsync!Tree(q) \in Trees \ {t}
    <3>1. Rsync!Tree(q) \in Trees
      BY <1>0, <2>5 DEF RsyncType, RsyncFiles, Rsync!Tree
    <3> QED
      BY <2>1, <2>2, <2>5, <3>1 DEF RsyncInv
  <2> QED
    BY <1>2, <2>4, <2>5, LeaveStep, ZenonT(60) DEF Rsync!Abort
<1> QED
  BY <1>1, <1>2

(* A plan, and a runner that begins to carry one out.                      *)
LEMMA BeginSteps ==
  ASSUME RsyncInv,
         \/ \E p \in RsyncPlans, t \in Trees : Rsync!MakePlan(p, t)
         \/ \E r \in Runners, p \in RsyncPlans : Rsync!Begin(r, p)
         \/ Rsync!RemoveLock
         \/ UNCHANGED Rsync!vars
  PROVE  RsyncInv'
<1>0. RsyncType /\ RsyncLiveWhole
  BY DEF RsyncInv
<1>1. ASSUME NEW p \in RsyncPlans, NEW t \in Trees, Rsync!MakePlan(p, t) PROVE RsyncInv'
  <2>1. [tree |-> t, expected |-> Rsync!Observe("ok")] \in RsyncFiles
    BY DEF RsyncFiles, Rsync!Observe
  <2>2. PICK m \in RsyncFiles : plans' = [plans EXCEPT ![p] = m] /\ m.tree # m.expected
    BY <1>1, <2>1, Zenon DEF Rsync!MakePlan
  <2>3. /\ plans[p] = None /\ UNCHANGED <<link, remote, staging, ssh>>
        /\ \A q \in RsyncPlans : plans[q] # None => plans'[q] = plans[q]
    BY <1>0, <1>1, <2>2 DEF Rsync!MakePlan, RsyncType
  <2>4. plans' \in [RsyncPlans -> RsyncFiles \union {None}]
        /\ \A q \in RsyncPlans : plans'[q] # None => plans'[q].expected # plans'[q].tree
    BY <1>0, <2>2 DEF RsyncType, RsyncInv
  <2>5. \A r \in Runners : /\ Publishes(r) => Publishes(r)' /\ ssh[r].plan \in RsyncPlans
                           /\ Publishes(r)' => Publishes(r) /\ Rsync!Tree(r)' = Rsync!Tree(r) /\ plans'[ssh[r].plan] # None
                           /\ Rsync!Collecting(r)' = Rsync!Collecting(r)
    BY <1>0, <2>3 DEF RsyncType, Publishes, Rsync!Tree, Rsync!Collecting
  <2>6. RsyncType'
    BY <1>0, <2>3, <2>4, <2>5 DEF RsyncType
  <2>7. \A r \in Runners : ssh[r].pc \in Unpublished \union Moving \union InPlace \union {"move"} => Publishes(r)
    BY DEF Publishes, PublishPhases, Unpublished, Moving
  <2>8. RsyncLiveWhole'
    BY <1>0, <2>3 DEF RsyncLiveWhole, Rsync!LiveWhole
  <2>9. ASSUME NEW q \in Runners
        PROVE  (/\ ssh[q].pc \in Unpublished => link # Rsync!Tree(q)
                /\ ssh[q].pc \in Moving => staging[Rsync!Tree(q)] = "whole"
                /\ ssh[q].pc = "move" => remote[Rsync!Tree(q)] = "absent"
                /\ ssh[q].pc \in InPlace => remote[Rsync!Tree(q)] = "whole"
                /\ Rsync!Collecting(q) => \A s \in Runners : ~Publishes(s)
                /\ ssh[q].pc = "list" => link \in ssh[q].keep
                /\ ssh[q].pc = "delete" => link \notin ssh[q].doomed)'
    <3>1. PICK u : u = Rsync!Tree(q) /\ (Publishes(q) => Rsync!Tree(q)' = u)
      BY <2>5
    <3>2. /\ ssh[q].pc \in Unpublished => link # u
          /\ ssh[q].pc \in Moving => staging[u] = "whole"
          /\ ssh[q].pc = "move" => remote[u] = "absent"
          /\ ssh[q].pc \in InPlace => remote[u] = "whole"
          /\ Rsync!Collecting(q) => \A s \in Runners : ~Publishes(s)
          /\ ssh[q].pc = "list" => link \in ssh[q].keep
          /\ ssh[q].pc = "delete" => link \notin ssh[q].doomed
      BY <3>1 DEF RsyncInv
    <3> QED
      BY <2>3, <2>5, <2>7, <3>1, <3>2
  <2>10. ASSUME NEW q \in Runners, NEW s \in Runners, q # s, Publishes(q)', Publishes(s)'
         PROVE  Rsync!Tree(q)' # Rsync!Tree(s)'
    BY <2>5, <2>10 DEF RsyncInv
  <2> QED
    BY <2>4, <2>6, <2>8, <2>9, <2>10 DEF RsyncInv
<1>2. ASSUME NEW r \in Runners, NEW p \in RsyncPlans, Rsync!Begin(r, p) PROVE RsyncInv'
  <2>1. /\ ssh' = [ssh EXCEPT ![r] = ssh'[r]]
        /\ ssh'[r] = [Rsync!Idle EXCEPT !.pc = "copy", !.plan = p]
    BY <1>0, <1>2, Zenon DEF Rsync!Begin, RsyncType
  <2>2. ssh'[r] \in RsyncSessions /\ ssh'[r].pc = "copy" /\ ssh'[r].plan = p
    BY <2>1, Zenon DEF RsyncSessions, Rsync!Idle, PublishPhases, Unpublished
  <2>3. ssh' \in [Runners -> RsyncSessions] /\ \A q \in Runners \ {r} : ssh'[q] = ssh[q]
    BY <1>0, <2>1, <2>2 DEF RsyncType
  <2>4. PICK t \in Trees : /\ t = plans[p].tree /\ plans[p] # None /\ Rsync!Observe("ok") # t
                           /\ \A q \in Rsync!Publishing : Rsync!Tree(q) # t
                           /\ \A q \in Runners : ~Rsync!Collecting(q)
    BY <1>0, <1>2, Zenon DEF Rsync!Begin, RsyncType, RsyncFiles, RsyncInv
  <2>5. link # t
    BY <2>4 DEF Rsync!Observe
  <2>6. UNCHANGED <<plans, link, remote, staging>>
    BY <1>2, Zenon DEF Rsync!Begin
  <2>7. \A q \in Runners \ {r} : /\ Publishes(q)' = Publishes(q) /\ Rsync!Tree(q)' = Rsync!Tree(q)
                                 /\ ~Rsync!Collecting(q)' /\ ssh'[q].pc \notin {"list", "delete"}
                                 /\ Publishes(q) => Rsync!Tree(q) # t
    BY <2>3, <2>4, <2>6 DEF Publishes, Rsync!Tree, Rsync!Collecting, Rsync!Publishing, Rsync!At,
                            PublishPhases, Unpublished, Moving, InPlace
  <2>8. Rsync!Tree(r)' = t /\ ~Rsync!Collecting(r)'
    BY <2>2, <2>4, <2>6 DEF Rsync!Tree, Rsync!Collecting
  <2>9. RsyncType'
    BY <1>0, <2>2, <2>3, <2>4, <2>6, <2>7 DEF RsyncType
  <2>10. ASSUME NEW q \in Runners
        PROVE  (/\ ssh[q].pc \in Unpublished => link # Rsync!Tree(q)
                /\ ssh[q].pc \in Moving => staging[Rsync!Tree(q)] = "whole"
                /\ ssh[q].pc = "move" => remote[Rsync!Tree(q)] = "absent"
                /\ ssh[q].pc \in InPlace => remote[Rsync!Tree(q)] = "whole"
                /\ Rsync!Collecting(q) => \A s \in Runners : ~Publishes(s)
                /\ ssh[q].pc = "list" => link \in ssh[q].keep
                /\ ssh[q].pc = "delete" => link \notin ssh[q].doomed)'
    <3>1. CASE q = r
      <4>1. "copy" \notin Moving /\ "copy" \notin InPlace
        BY DEF Moving, InPlace
      <4> QED
        BY <2>2, <2>5, <2>6, <2>8, <3>1, <4>1
    <3>2. CASE q # r
      <4>1. PICK u : u = Rsync!Tree(q) /\ Rsync!Tree(q)' = u
        BY <2>7, <3>2
      <4>2. /\ ssh[q].pc \in Unpublished => link # u
            /\ ssh[q].pc \in Moving => staging[u] = "whole"
            /\ ssh[q].pc = "move" => remote[u] = "absent"
            /\ ssh[q].pc \in InPlace => remote[u] = "whole"
        BY <4>1 DEF RsyncInv
      <4>3. ssh'[q] = ssh[q] /\ ~Rsync!Collecting(q)' /\ ssh'[q].pc \notin {"list", "delete"}
        BY <2>3, <2>7, <3>2
      <4> QED
        BY <2>6, <4>1, <4>2, <4>3
    <3> QED
      BY <3>1, <3>2
  <2>11. ASSUME NEW q \in Runners, NEW s \in Runners, q # s, Publishes(q)', Publishes(s)'
         PROVE  Rsync!Tree(q)' # Rsync!Tree(s)'
    BY <2>7, <2>8, <2>11 DEF RsyncInv
  <2>12. RsyncLiveWhole'
    BY <1>0, <2>6 DEF RsyncLiveWhole, Rsync!LiveWhole
  <2> QED
    BY <2>6, <2>9, <2>10, <2>11, <2>12 DEF RsyncInv
<1>3. CASE UNCHANGED <<plans, link, remote, staging, ssh>>
  BY <1>3 DEF RsyncInv, RsyncType, RsyncLiveWhole, Rsync!LiveWhole, Publishes, Rsync!Tree, Rsync!Collecting
<1> QED
  BY <1>1, <1>2, <1>3 DEF Rsync!RemoveLock, Rsync!vars

(* A collection runs alone, and leaves the live release alone.             *)
LEMMA CollectStep ==
  ASSUME RsyncInv, NEW r \in Runners, UNCHANGED <<plans, link, staging>>, \A q \in Runners : ~Publishes(q),
         NEW y \in RsyncSessions, ssh' = [ssh EXCEPT ![r] = y], y.pc \in {"list", "delete"},
         y.pc = "list" => link \in y.keep, y.pc = "delete" => link \notin y.doomed,
         remote' \in [Trees -> States], link \in Trees => remote'[link] = remote[link]
  PROVE  RsyncInv'
<1>0. RsyncType /\ RsyncLiveWhole
  BY DEF RsyncInv
<1>1. ssh' \in [Runners -> RsyncSessions] /\ ssh'[r] = y /\ \A q \in Runners \ {r} : ssh'[q] = ssh[q]
  BY <1>0 DEF RsyncType
<1>2. \A q \in Runners : ~Publishes(q)'
  BY <1>1 DEF Publishes, PublishPhases, Unpublished, Moving, InPlace
<1>3. \A q \in Runners : ssh'[q].pc \notin Unpublished /\ ssh'[q].pc \notin Moving /\ ssh'[q].pc \notin InPlace
  BY <1>2 DEF Publishes, PublishPhases, Unpublished
<1>4. "move" \in Moving
  BY DEF Moving
<1>5. \A q \in Runners : /\ ssh'[q].pc = "list" => link \in ssh'[q].keep
                         /\ ssh'[q].pc = "delete" => link \notin ssh'[q].doomed
  BY <1>1 DEF RsyncInv
<1>6. RsyncType' /\ RsyncLiveWhole'
  BY <1>0, <1>1, <1>2 DEF RsyncType, RsyncLiveWhole, Rsync!LiveWhole
<1>7. \A p \in RsyncPlans : plans'[p] # None => plans'[p].expected # plans'[p].tree
  BY DEF RsyncInv
<1> QED
  BY <1>2, <1>3, <1>4, <1>5, <1>6, <1>7 DEF RsyncInv

(* Collect keeps what it observes live, whatever the ledger says.          *)
LEMMA CollectSteps ==
  ASSUME RsyncInv, NEW r \in Runners, NEW f, Rsync!Collect(r, f)
  PROVE  RsyncInv'
<1>0. RsyncType
  BY DEF RsyncInv
<1>1. PICK y \in RsyncSessions : y = ssh[r]
  BY <1>0 DEF RsyncType
<1>2. ASSUME NEW K \in SUBSET Trees, Rsync!CollectObserve(r, K, f) PROVE RsyncInv'
  <2>1. Rsync!Observe(f) = link /\ link \in Trees
    BY <1>2 DEF Rsync!CollectObserve, Rsync!Observe
  <2>2. [Rsync!Idle EXCEPT !.pc = "list", !.keep = K \union {link}] \in RsyncSessions
    BY <2>1, ZenonT(60) DEF RsyncSessions, Rsync!Idle
  <2>3. \A q \in Runners : ~Publishes(q)
    BY <1>2 DEF Rsync!CollectObserve, Rsync!Publishing, Rsync!At, Rsync!Collecting, Publishes,
                PublishPhases, Unpublished, Moving, InPlace
  <2>4. PICK z \in RsyncSessions : z = [Rsync!Idle EXCEPT !.pc = "list", !.keep = K \union {link}]
    BY <2>2
  <2>5. z.pc = "list" /\ link \in z.keep
    BY <2>4 DEF Rsync!Idle
  <2>6. ssh' = [ssh EXCEPT ![r] = z] /\ UNCHANGED <<plans, link, staging, remote>>
    BY <1>2, <2>1, <2>4 DEF Rsync!CollectObserve
  <2> QED
    BY <1>0, <2>3, <2>5, <2>6, CollectStep, Zenon DEF RsyncType
<1>3. CASE Rsync!CollectList(r, f)
  <2>1. y.pc = "list" /\ link \in y.keep /\ \A q \in Runners : ~Publishes(q)
    BY <1>1, <1>3 DEF Rsync!CollectList, Rsync!At, Rsync!Collecting, RsyncInv
  <2>2. PICK D \in SUBSET Trees : D = {t \in Trees : f = "ok" /\ remote[t] # "absent"} \ y.keep
    BY <1>1, Zenon
  <2>3. ssh' = [ssh EXCEPT ![r].pc = "delete", ![r].doomed = D] /\ UNCHANGED <<plans, link, staging, remote>>
    BY <1>1, <1>3, <2>2 DEF Rsync!CollectList
  <2>4. PICK z \in RsyncSessions : z = [y EXCEPT !.pc = "delete", !.doomed = D]
    BY Zenon DEF RsyncSessions
  <2>5. z.pc = "delete" /\ z.doomed = D
    BY <2>4 DEF RsyncSessions
  <2>6. ssh' = [ssh EXCEPT ![r] = z]
    BY <1>0, <1>1, <2>3, <2>4, ZenonT(60) DEF RsyncType
  <2>7. link \notin D
    BY <2>1, <2>2
  <2> QED
    BY <1>0, <2>1, <2>3, <2>5, <2>6, <2>7, CollectStep, Zenon DEF RsyncType
<1>4. ASSUME NEW t \in Trees, Rsync!CollectDelete(r, t, f) PROVE RsyncInv'
  <2>1. y.pc = "delete" /\ link \notin y.doomed /\ t \in y.doomed /\ \A q \in Runners : ~Publishes(q)
    BY <1>1, <1>4 DEF Rsync!CollectDelete, Rsync!At, Rsync!Collecting, RsyncInv
  <2>2. PICK D \in SUBSET Trees : D = (IF f = "ok" THEN y.doomed \ {t} ELSE {})
    BY <1>1, Zenon DEF RsyncSessions
  <2>3. ssh' = [ssh EXCEPT ![r].doomed = D] /\ UNCHANGED <<plans, link, staging>>
    BY <1>0, <1>1, <1>4, <2>2 DEF Rsync!CollectDelete, RsyncType
  <2>4. PICK z \in RsyncSessions : z = [y EXCEPT !.doomed = D]
    BY Zenon DEF RsyncSessions
  <2>5. z.pc = "delete" /\ z.doomed = D
    BY <2>1, <2>4 DEF RsyncSessions
  <2>6. ssh' = [ssh EXCEPT ![r] = z]
    BY <1>0, <1>1, <2>3, <2>4 DEF RsyncType
  <2>7. link \notin D /\ link # t
    BY <2>1, <2>2
  <2>8. remote' \in {remote, [remote EXCEPT ![t] = "absent"], [remote EXCEPT ![t] = "partial"]}
    BY <1>4 DEF Rsync!CollectDelete
  <2>9. remote' \in [Trees -> States] /\ (link \in Trees => remote'[link] = remote[link])
    BY <1>0, <2>7, <2>8 DEF RsyncType, States
  <2> QED
    BY <2>1, <2>3, <2>5, <2>6, <2>7, <2>9, CollectStep, Zenon
<1> QED
  BY <1>2, <1>3, <1>4 DEF Rsync!Collect

(* Every step keeps the invariant, whatever the outcome of its command.    *)
LEMMA RsyncNext ==
  ASSUME RsyncInv, [Rsync!Next]_Rsync!vars
  PROVE  RsyncInv'
<1>1. ASSUME NEW r \in Runners, NEW f, Rsync!Commit(r, f) PROVE RsyncInv'
  BY <1>1, CommitSteps, AbortSteps
<1>2. ASSUME NEW r \in Runners, NEW f, Rsync!Collect(r, f) PROVE RsyncInv'
  BY <1>2, CollectSteps
<1>3. ASSUME NEW r \in Runners, Rsync!Crash(r) \/ Rsync!CollectDone(r) PROVE RsyncInv'
  BY <1>3, AbortSteps
<1> QED
  BY <1>1, <1>2, <1>3, BeginSteps DEF Rsync!Next, Rsync!Progress, Rsync!Fault

(* The published link of an rsync host leads to a complete release, at     *)
(* every moment and after any interruption, whatever the runners, plans    *)
(* and trees, as long as no two publications of one tree and no collection *)
(* and publication overlap.                                                *)
THEOREM RsyncStaysWhole == Rsync!Spec => []RsyncLiveWhole
<1>1. Rsync!Init => RsyncInv
  BY DEF Rsync!Init, Rsync!Idle, RsyncInv, RsyncType, RsyncLiveWhole, Rsync!LiveWhole, RsyncSessions, States,
         Publishes, PublishPhases, Unpublished, Moving, InPlace, Rsync!Collecting
<1>2. RsyncInv /\ [Rsync!Next]_Rsync!vars => RsyncInv'
  BY RsyncNext
<1>3. RsyncInv => RsyncLiveWhole
  BY DEF RsyncInv
<1> QED
  BY <1>1, <1>2, <1>3, PTL DEF Rsync!Spec

(* The commands that read the published path under the lock are answered:  *)
(* ssh does not fail between the lock and the swap.  A failure of its own  *)
(* looks like the answer that nothing is published.                        *)
Answered ==
  \A r \in Runners, f \in Rsync!Outcomes :
    /\ Rsync!CheckExpected(r, f) => Rsync!CheckExpected(r, "ok")
    /\ Rsync!RequireAbsentOrSymlink(r, f) => Rsync!RequireAbsentOrSymlink(r, "ok")

Holds(r) == ssh[r].pc \in Rsync!Holding

(* The lock directory exists while a runner holds it, one runner holds it, *)
(* and what that runner has read still stands.                             *)
LockInv ==
  /\ lock \in BOOLEAN
  /\ \A r \in Runners : Holds(r) => lock
  /\ \A r, q \in Runners : Holds(r) /\ Holds(q) => r = q
  /\ \A r \in Runners : ssh[r].pc = "test" => link \notin Trees /\ Rsync!Expected(r) = None
  /\ \A r \in Runners : ssh[r].pc = "swap" => link = Rsync!Expected(r)

(* A step of a runner that takes no lock and moves no link.                *)
LEMMA UnlockedStep ==
  ASSUME RsyncType, LockInv, NEW r \in Runners, UNCHANGED <<plans, link>>, lock' \in BOOLEAN,
         lock => lock' \/ \A q \in Runners \ {r} : ~Holds(q),
         \A q \in Runners \ {r} : ssh'[q] = ssh[q],
         ~Holds(r)'
  PROVE  LockInv'
<1>1. \A q \in Runners \ {r} : Holds(q)' = Holds(q) /\ Rsync!Expected(q)' = Rsync!Expected(q)
  BY DEF Holds, Rsync!Expected
<1>2. ssh'[r].pc \notin {"test", "swap"}
  BY DEF Holds, Rsync!Holding
<1>3. \A q \in Runners : Holds(q)' => lock'
  BY <1>1 DEF LockInv
<1>4. \A p, q \in Runners : Holds(p)' /\ Holds(q)' => p = q
  BY <1>1 DEF LockInv
<1>5. ASSUME NEW q \in Runners
      PROVE  /\ ssh'[q].pc = "test" => link' \notin Trees /\ Rsync!Expected(q)' = None
             /\ ssh'[q].pc = "swap" => link' = Rsync!Expected(q)'
  <2>1. CASE q = r
    BY <1>2, <2>1
  <2>2. CASE q # r
    BY <1>1, <2>2 DEF LockInv
  <2> QED
    BY <2>1, <2>2
<1> QED
  BY <1>3, <1>4, <1>5 DEF LockInv

(* A step of the runner that holds the lock, or takes it.                  *)
LEMMA LockedStep ==
  ASSUME RsyncType, LockInv, NEW r \in Runners, UNCHANGED plans, lock' = TRUE,
         \A q \in Runners \ {r} : ssh'[q] = ssh[q] /\ ~Holds(q),
         ssh'[r].plan = ssh[r].plan,
         ssh'[r].pc = "test" => link' \notin Trees /\ Rsync!Expected(r) = None,
         ssh'[r].pc = "swap" => link' = Rsync!Expected(r)
  PROVE  LockInv'
<1>1. \A q \in Runners \ {r} : ~Holds(q)' /\ ssh'[q].pc \notin {"test", "swap"}
  BY DEF Holds, Rsync!Holding
<1>2. Rsync!Expected(r)' = Rsync!Expected(r)
  BY DEF Rsync!Expected
<1>3. \A p, q \in Runners : Holds(p)' /\ Holds(q)' => p = q
  BY <1>1
<1>4. ASSUME NEW q \in Runners
      PROVE  /\ ssh'[q].pc = "test" => link' \notin Trees /\ Rsync!Expected(q)' = None
             /\ ssh'[q].pc = "swap" => link' = Rsync!Expected(q)'
  BY <1>1, <1>2
<1> QED
  BY <1>3, <1>4 DEF LockInv

(* A step keeps the lock's promise, and the link moves only as planned.    *)
LEMMA LockNext ==
  ASSUME RsyncInv, LockInv, Rsync!Next, Answered
  PROVE  LockInv' /\ (link' # link => \E r \in Runners : /\ Rsync!At(r, "swap")
                                                         /\ link = Rsync!Expected(r)
                                                         /\ link' = Rsync!Tree(r))
<1>0. RsyncType
  BY DEF RsyncInv
<1> DEFINE Swapped == \E r \in Runners : Rsync!At(r, "swap") /\ link = Rsync!Expected(r) /\ link' = Rsync!Tree(r)
           Goal == LockInv' /\ (link' # link => Swapped)
<1>1. ASSUME NEW p \in RsyncPlans, NEW t \in Trees, Rsync!MakePlan(p, t) PROVE Goal
  <2>1. UNCHANGED <<link, lock, ssh>> /\ \A q \in RsyncPlans : plans[q] # None => plans'[q] = plans[q]
    BY <1>0, <1>1 DEF Rsync!MakePlan, RsyncType
  <2>2. \A r \in Runners : Holds(r) => Publishes(r)
    BY DEF Holds, Publishes, Rsync!Holding, PublishPhases, Unpublished, InPlace
  <2>3. \A r \in Runners : /\ Holds(r)' = Holds(r)
                           /\ Holds(r) => Rsync!Expected(r)' = Rsync!Expected(r)
    BY <1>0, <2>1, <2>2 DEF Holds, Rsync!Expected, RsyncType
  <2>4. \A r \in Runners : ssh[r].pc \in {"test", "swap"} => Holds(r)
    BY DEF Holds, Rsync!Holding
  <2>5. LockInv'
    BY <2>1, <2>3, <2>4 DEF LockInv
  <2> QED
    BY <2>1, <2>5
<1>2. ASSUME NEW r \in Runners, NEW p \in RsyncPlans, Rsync!Begin(r, p) PROVE Goal
  <2>1. ssh' = [ssh EXCEPT ![r] = [Rsync!Idle EXCEPT !.pc = "copy", !.plan = p]]
        /\ UNCHANGED <<plans, link, lock>>
    BY <1>2 DEF Rsync!Begin
  <2>2. ssh'[r].pc = "copy" /\ \A q \in Runners \ {r} : ssh'[q] = ssh[q]
    BY <1>0, <2>1 DEF RsyncType, Rsync!Idle
  <2>3. ~Holds(r)' /\ lock' \in BOOLEAN
    BY <2>1, <2>2 DEF Holds, Rsync!Holding, LockInv
  <2> QED
    BY <1>0, <2>1, <2>2, <2>3, UnlockedStep
<1>3. ASSUME NEW r \in Runners, NEW f \in Rsync!Outcomes, Rsync!Commit(r, f) PROVE Goal
  <2>1. PICK y \in RsyncSessions : y = ssh[r]
    BY <1>0 DEF RsyncType
  <2>2. ASSUME NEW x \in PublishPhases, Rsync!Goto(r, x)
        PROVE  /\ ssh'[r].pc = x /\ ssh'[r].plan = ssh[r].plan
               /\ \A q \in Runners \ {r} : ssh'[q] = ssh[q]
    BY <1>0, <2>2, RsyncMoves DEF RsyncMoved
  <2>3. CASE Rsync!Copy(r, f) \/ Rsync!Sent(r, f) \/ Rsync!Remove(r, f) \/ Rsync!Move(r, f)
    <3>1. PICK x \in {"sent", "remove", "move", "lock", "abort"} : Rsync!Goto(r, x)
      BY <2>3 DEF Rsync!Copy, Rsync!Sent, Rsync!Remove, Rsync!Move
    <3>2. x \in PublishPhases /\ x \notin Rsync!Holding
      BY DEF PublishPhases, Unpublished, Moving, InPlace, Rsync!Holding
    <3>3. UNCHANGED <<plans, link, lock>>
      BY <2>3 DEF Rsync!Copy, Rsync!Sent, Rsync!Remove, Rsync!Move
    <3>4. ~Holds(r)' /\ lock' \in BOOLEAN
      BY <2>2, <3>1, <3>2, <3>3 DEF Holds, LockInv
    <3> QED
      BY <1>0, <2>2, <3>1, <3>2, <3>3, <3>4, UnlockedStep
  <2>4. CASE Rsync!Lock(r, f)
    <3>1. UNCHANGED <<plans, link>> /\ lock' \in BOOLEAN /\ (lock => lock')
      BY <2>4 DEF Rsync!Lock, LockInv
    <3>2. CASE ~lock /\ f = "ok"
      <4>1. Rsync!Goto(r, "observe") /\ lock' = TRUE
        BY <2>4, <3>2, ZenonT(60) DEF Rsync!Lock
      <4>2. "observe" \in PublishPhases
        BY DEF PublishPhases, Unpublished, InPlace
      <4>3. \A q \in Runners : ~Holds(q)
        BY <3>2 DEF LockInv
      <4> QED
        BY <1>0, <2>2, <3>1, <4>1, <4>2, <4>3, LockedStep
    <3>3. CASE ~(~lock /\ f = "ok")
      <4>1. Rsync!Goto(r, "abort")
        BY <2>4, <3>3 DEF Rsync!Lock
      <4>2. "abort" \in PublishPhases
        BY DEF PublishPhases
      <4>3. ~Holds(r)'
        BY <2>2, <4>1, <4>2 DEF Holds, Rsync!Holding
      <4> QED
        BY <1>0, <2>2, <3>1, <4>1, <4>2, <4>3, UnlockedStep
    <3> QED
      BY <3>2, <3>3
  <2>5. ASSUME Holds(r) PROVE \A q \in Runners \ {r} : ~Holds(q)
    BY <2>5 DEF LockInv
  <2>6. ASSUME Holds(r) PROVE lock = TRUE
    BY <2>6 DEF LockInv
  <2>7. CASE Rsync!CheckExpected(r, f)
    <3>1. Rsync!CheckExpected(r, "ok")
      BY <2>7 DEF Answered
    <3>2. Holds(r)
      BY <2>7 DEF Rsync!CheckExpected, Rsync!At, Holds, Rsync!Holding
    <3>3. UNCHANGED <<plans, link, lock>>
      BY <2>7 DEF Rsync!CheckExpected
    <3>4. PICK x \in {"unlock", "test", "swap"} :
             /\ Rsync!Goto(r, x) \/ ssh' = [ssh EXCEPT ![r].pc = x, ![r].ok = TRUE]
             /\ x = "test" => Rsync!Observe("ok") = None /\ Rsync!Expected(r) = None
             /\ x = "swap" => Rsync!Observe("ok") # None /\ Rsync!Observe("ok") = Rsync!Expected(r)
      BY <3>1 DEF Rsync!CheckExpected, Rsync!Stale
    <3>5. x \in PublishPhases
      BY DEF PublishPhases, Unpublished, InPlace
    <3>6. ssh'[r].pc = x /\ ssh'[r].plan = ssh[r].plan /\ \A q \in Runners \ {r} : ssh'[q] = ssh[q]
      BY <1>0, <3>4, <3>5, RsyncMoves, ZenonT(60) DEF RsyncMoved
    <3>7. /\ x = "test" => link \notin Trees /\ Rsync!Expected(r) = None
          /\ x = "swap" => link = Rsync!Expected(r)
      BY <3>4 DEF Rsync!Observe
    <3> QED
      BY <1>0, <2>5, <2>6, <3>2, <3>3, <3>6, <3>7, LockedStep
  <2>8. CASE Rsync!RequireAbsentOrSymlink(r, f)
    <3>1. Rsync!RequireAbsentOrSymlink(r, "ok")
      BY <2>8 DEF Answered
    <3>2. Holds(r) /\ link \notin Trees /\ Rsync!Expected(r) = None
      BY <2>8 DEF Rsync!RequireAbsentOrSymlink, Rsync!At, Holds, Rsync!Holding, LockInv
    <3>3. UNCHANGED <<plans, link, lock>>
      BY <2>8 DEF Rsync!RequireAbsentOrSymlink
    <3>4. PICK x \in {"unlock", "swap"} : Rsync!Goto(r, x) /\ (x = "swap" => link # Foreign)
      BY <3>1, <3>2 DEF Rsync!RequireAbsentOrSymlink
    <3>5. x \in PublishPhases
      BY DEF PublishPhases, Unpublished, InPlace
    <3>6. x = "swap" => link = Rsync!Expected(r)
      BY <1>0, <3>2, <3>4 DEF RsyncType
    <3> QED
      BY <1>0, <2>2, <2>5, <2>6, <3>2, <3>3, <3>4, <3>5, <3>6, LockedStep
  <2>9. CASE Rsync!SwapRoot(r, f)
    <3>1. Holds(r) /\ link = Rsync!Expected(r) /\ Rsync!At(r, "swap")
      BY <2>9 DEF Rsync!SwapRoot, Rsync!At, Holds, Rsync!Holding, LockInv
    <3>2. UNCHANGED <<plans, lock>> /\ link' \in {link, Rsync!Tree(r)}
      BY <2>9 DEF Rsync!SwapRoot
    <3>3. PICK b \in BOOLEAN : ssh' = [ssh EXCEPT ![r].pc = "unlock", ![r].ok = b]
      BY <2>9, Zenon DEF Rsync!SwapRoot
    <3>4. "unlock" \in PublishPhases
      BY DEF PublishPhases
    <3>5. ssh'[r].pc = "unlock" /\ ssh'[r].plan = ssh[r].plan /\ \A q \in Runners \ {r} : ssh'[q] = ssh[q]
      BY <1>0, <3>3, <3>4, RsyncMoves, ZenonT(60) DEF RsyncMoved
    <3>6. LockInv'
      BY <1>0, <2>5, <2>6, <3>1, <3>2, <3>5, LockedStep
    <3> QED
      BY <3>1, <3>2, <3>6
  <2>10. CASE Rsync!Unlock(r, f)
    <3>1. Holds(r) /\ UNCHANGED <<plans, link>> /\ lock' \in BOOLEAN /\ Rsync!Goto(r, "abort")
      BY <2>10 DEF Rsync!Unlock, Rsync!At, Holds, Rsync!Holding, LockInv
    <3>2. "abort" \in PublishPhases
      BY DEF PublishPhases
    <3>3. ~Holds(r)'
      BY <2>2, <3>1, <3>2 DEF Holds, Rsync!Holding
    <3> QED
      BY <1>0, <2>2, <2>5, <3>1, <3>2, <3>3, UnlockedStep
  <2>11. CASE Rsync!Abort(r, f)
    <3>1. UNCHANGED <<plans, link, lock>> /\ ssh' = [ssh EXCEPT ![r] = Rsync!Idle]
      BY <2>11 DEF Rsync!Abort
    <3>2. ssh'[r].pc = "idle" /\ \A q \in Runners \ {r} : ssh'[q] = ssh[q]
      BY <1>0, <3>1, RsyncMoves, Zenon DEF RsyncMoved
    <3>3. ~Holds(r)' /\ lock' \in BOOLEAN
      BY <3>1, <3>2 DEF Holds, Rsync!Holding, LockInv
    <3> QED
      BY <1>0, <3>1, <3>2, <3>3, UnlockedStep
  <2> QED
    BY <1>3, <2>3, <2>4, <2>7, <2>8, <2>9, <2>10, <2>11 DEF Rsync!Commit
<1>4. ASSUME NEW r \in Runners, NEW f, Rsync!Collect(r, f) \/ Rsync!CollectDone(r) \/ Rsync!Crash(r) PROVE Goal
  <2>1. UNCHANGED <<plans, link, lock>>
    BY <1>4, Zenon DEF Rsync!Collect, Rsync!CollectObserve, Rsync!CollectList, Rsync!CollectDelete,
                Rsync!CollectDone, Rsync!Crash
  <2>2. ssh'[r].pc \in {"idle", "list", "delete"} /\ \A q \in Runners \ {r} : ssh'[q] = ssh[q]
    <3>0. ssh \in [Runners -> RsyncSessions] /\ ssh[r] \in RsyncSessions
      BY <1>0 DEF RsyncType
    <3>1. CASE Rsync!CollectDone(r) \/ Rsync!Crash(r)
      BY <3>0, <3>1 DEF Rsync!CollectDone, Rsync!Crash, Rsync!Idle
    <3>2. ASSUME NEW K \in SUBSET Trees, Rsync!CollectObserve(r, K, f) PROVE <2>2!:
      BY <3>0, <3>2 DEF Rsync!CollectObserve, Rsync!Idle
    <3>3. CASE Rsync!CollectList(r, f)
      BY <3>0, <3>3 DEF Rsync!CollectList, RsyncSessions
    <3>4. ASSUME NEW t \in Trees, Rsync!CollectDelete(r, t, f) PROVE <2>2!:
      BY <3>0, <3>4 DEF Rsync!CollectDelete, Rsync!At, RsyncSessions
    <3> QED
      BY <1>4, <3>1, <3>2, <3>3, <3>4 DEF Rsync!Collect
  <2>3. ~Holds(r)' /\ lock' \in BOOLEAN
    BY <2>1, <2>2 DEF Holds, Rsync!Holding, LockInv
  <2> QED
    BY <1>0, <2>1, <2>2, <2>3, UnlockedStep
<1>5. ASSUME Rsync!RemoveLock PROVE Goal
  <2>1. UNCHANGED <<plans, link, ssh>> /\ lock' = FALSE /\ \A r \in Runners : ~Holds(r) /\ ~Holds(r)'
    BY <1>5 DEF Rsync!RemoveLock, Holds
  <2>2. \A r \in Runners : ssh'[r].pc \notin {"test", "swap"}
    BY <2>1 DEF Holds, Rsync!Holding
  <2>3. LockInv'
    BY <2>1, <2>2, Zenon DEF LockInv
  <2> QED
    BY <2>1, <2>3
<1> HIDE DEF Goal
<1>6. /\ \A r \in Runners, f \in Rsync!Outcomes : Rsync!Commit(r, f) \/ Rsync!Collect(r, f) => Goal
      /\ \A r \in Runners : Rsync!CollectDone(r) \/ Rsync!Crash(r) => Goal
  BY <1>3, <1>4
<1>7. Rsync!Progress => Goal
  <2>1. \A r \in Runners : Rsync!Commit(r, "ok") \/ Rsync!Collect(r, "ok") => Goal
    BY <1>6 DEF Rsync!Outcomes
  <2>2. /\ \A p \in RsyncPlans, t \in Trees : Rsync!MakePlan(p, t) => Goal
        /\ \A r \in Runners, p \in RsyncPlans : Rsync!Begin(r, p) => Goal
    BY <1>1, <1>2
  <2> QED
    BY <1>5, <1>6, <2>1, <2>2 DEF Rsync!Progress
<1>8. Rsync!Fault => Goal
  BY <1>6 DEF Rsync!Fault
<1> QED
  BY <1>7, <1>8 DEF Rsync!Next, Goal

(* As long as the commands that read the published path under the lock are *)
(* answered, the lock directory and the check under it stand in for a      *)
(* compare-and-swap: the link only ever moves from the revision a plan was *)
(* reviewed against to the tree of that plan.                              *)
THEOREM RsyncSwapsWhatWasReviewed ==
  Rsync!Spec /\ [][Answered]_(Rsync!vars) => RsyncSwapsExpected
<1>1. Rsync!Init => RsyncInv /\ LockInv
  <2>1. Rsync!Init => RsyncInv
    BY DEF Rsync!Init, Rsync!Idle, RsyncInv, RsyncType, RsyncLiveWhole, Rsync!LiveWhole, RsyncSessions, States,
           Publishes, PublishPhases, Unpublished, Moving, InPlace, Rsync!Collecting
  <2>2. ASSUME Rsync!Init PROVE LockInv
    <3>1. lock = FALSE /\ \A r \in Runners : ssh[r].pc = "idle"
      BY <2>2 DEF Rsync!Init, Rsync!Idle
    <3> QED
      BY <3>1, ZenonT(60) DEF LockInv, Holds, Rsync!Holding
  <2> QED
    BY <2>1, <2>2
<1>2. RsyncInv /\ LockInv /\ [Rsync!Next]_(Rsync!vars) /\ [Answered]_(Rsync!vars)
        => /\ (RsyncInv /\ LockInv)'
           /\ [link' # link => \E r \in Runners :
                Rsync!At(r, "swap") /\ link = Rsync!Expected(r) /\ link' = Rsync!Tree(r)]_(Rsync!vars)
  <2> SUFFICES ASSUME RsyncInv, LockInv, [Rsync!Next]_(Rsync!vars), [Answered]_(Rsync!vars)
      PROVE  /\ (RsyncInv /\ LockInv)'
             /\ [link' # link => \E r \in Runners :
                Rsync!At(r, "swap") /\ link = Rsync!Expected(r) /\ link' = Rsync!Tree(r)]_(Rsync!vars)
    OBVIOUS
  <2>1. CASE UNCHANGED Rsync!vars
    <3>1. LockInv'
      BY <2>1 DEF LockInv, Holds, Rsync!Expected, Rsync!vars
    <3> QED
      BY <2>1, <3>1, RsyncNext
  <2>2. CASE Rsync!Next /\ Answered
    BY <2>2, RsyncNext, LockNext
  <2> QED
    BY <2>1, <2>2
<1> QED
  BY <1>1, <1>2, PTL DEF Rsync!Spec, RsyncSwapsExpected, Rsync!SwapsExpected

----------------------------------------------------------------------------
(* The local directory *)

Names == Releases \union {None}
LocalPhases ==
  {"idle", "inspect", "orphan", "orphandir", "orphanrelease", "expected", "write", "control", "current", "output",
   "recheck", "exchange", "displaced", "cleanup", "done"}
LocalSessions ==
  [pc : LocalPhases, plan : LocalPlans \union {None}, link : Names, dir : Names, displaced : Names]

DiskType ==
  /\ output \in {"absent", "managed", "foreign"} /\ control \in BOOLEAN /\ current \in Names
  /\ release \in [Releases -> [tree : Trees \union {None}, state : States]]
  /\ \A d \in Releases : release[d].state # "absent" => release[d].tree # None

(* What a build may rely on in each of its phases.  One that found nothing *)
(* published has the output to itself until it makes it; a release that    *)
(* goes live was written whole; and a release that is given up or removed  *)
(* is not the live one.                                                    *)
BuildInv(y) ==
  /\ y.pc # "idle" => y.plan \in LocalPlans
  /\ y.pc \in {"inspect", "orphan", "orphandir", "orphanrelease"} => y.link = None
  /\ y.pc \in {"inspect", "orphan", "expected"} => y.dir = None
  /\ y.pc \in {"orphan", "orphandir", "orphanrelease", "control", "current", "output"} => output # "managed"
  /\ y.pc \in {"expected", "write"} /\ y.link = None => output # "managed"
  /\ y.pc \in {"control", "current", "output"} => y.link = None
  /\ y.pc = "write" /\ y.dir # None => release[y.dir].tree # None
  /\ y.pc \in {"control", "current", "output", "recheck", "exchange"} => Local!Whole(y.dir)
  /\ y.pc = "cleanup" => y.dir # None
  /\ y.pc \in {"write", "recheck", "exchange", "cleanup"} /\ output = "managed" => y.dir # current
  /\ y.pc \in {"current", "output"} => control
  /\ y.pc = "output" => current = y.dir
  /\ y.pc \notin {"idle", "displaced", "done"} => y.displaced = None
  /\ y.pc = "done" => y.displaced = y.link

(* One build at a time holds the lock of the output.                       *)
LocalInv ==
  /\ DiskType
  /\ LocalLiveWhole
  /\ build \in [Runners -> LocalSessions]
  /\ \A r \in Runners : BuildInv(build[r])
  /\ \A r, q \in Runners : build[r].pc # "idle" /\ build[q].pc # "idle" => r = q

(* The session of one runner becomes y.                                    *)
Becomes(r, y) == /\ build' = [build EXCEPT ![r] = y]
                 /\ y \in LocalSessions
Build(pc, plan, lnk, dir, displaced) ==
  [pc |-> pc, plan |-> plan, link |-> lnk, dir |-> dir, displaced |-> displaced]

(* The moves the steps share.                                              *)
LEMMA BuildMoves ==
  ASSUME build \in [Runners -> LocalSessions], NEW r \in Runners, NEW y \in LocalSessions, y = build[r],
         NEW x \in LocalPhases, NEW d \in Names
  PROVE  /\ Local!Goto(r, x) => Becomes(r, Build(x, y.plan, y.link, y.dir, y.displaced))
         /\ build' = [build EXCEPT ![r].pc = x, ![r].link = d] => Becomes(r, Build(x, y.plan, d, y.dir, y.displaced))
         /\ build' = [build EXCEPT ![r].pc = x, ![r].dir = d] => Becomes(r, Build(x, y.plan, y.link, d, y.displaced))
         /\ build' = [build EXCEPT ![r].pc = x, ![r].displaced = d] => Becomes(r, Build(x, y.plan, y.link, y.dir, d))
         /\ build' = [build EXCEPT ![r].dir = d] => Becomes(r, Build(y.pc, y.plan, y.link, d, y.displaced))
         /\ build' = [build EXCEPT ![r] = Local!Idle] => Becomes(r, Build("idle", None, None, None, None))
<1>1. /\ [y EXCEPT !.pc = x] = Build(x, y.plan, y.link, y.dir, y.displaced)
      /\ [y EXCEPT !.pc = x, !.link = d] = Build(x, y.plan, d, y.dir, y.displaced)
      /\ [y EXCEPT !.pc = x, !.dir = d] = Build(x, y.plan, y.link, d, y.displaced)
      /\ [y EXCEPT !.pc = x, !.displaced = d] = Build(x, y.plan, y.link, y.dir, d)
      /\ [y EXCEPT !.dir = d] = Build(y.pc, y.plan, y.link, d, y.displaced)
      /\ Local!Idle = Build("idle", None, None, None, None)
  <2>1. [y EXCEPT !.pc = x] = Build(x, y.plan, y.link, y.dir, y.displaced)
    BY DEF LocalSessions, Build
  <2>2. [y EXCEPT !.pc = x, !.link = d] = Build(x, y.plan, d, y.dir, y.displaced)
    <3>1. [y EXCEPT !.pc = x, !.link = d] = [Build(x, y.plan, y.link, y.dir, y.displaced) EXCEPT !.link = d]
      BY <2>1, Zenon
    <3> QED
      BY <3>1 DEF Build
  <2>3. [y EXCEPT !.pc = x, !.dir = d] = Build(x, y.plan, y.link, d, y.displaced)
    <3>1. [y EXCEPT !.pc = x, !.dir = d] = [Build(x, y.plan, y.link, y.dir, y.displaced) EXCEPT !.dir = d]
      BY <2>1, Zenon
    <3> QED
      BY <3>1 DEF Build
  <2>4. [y EXCEPT !.pc = x, !.displaced = d] = Build(x, y.plan, y.link, y.dir, d)
    <3>1. [y EXCEPT !.pc = x, !.displaced = d] = [Build(x, y.plan, y.link, y.dir, y.displaced) EXCEPT !.displaced = d]
      BY <2>1, Zenon
    <3> QED
      BY <3>1 DEF Build
  <2>5. [y EXCEPT !.dir = d] = Build(y.pc, y.plan, y.link, d, y.displaced)
    BY DEF LocalSessions, Build
  <2>6. Local!Idle = Build("idle", None, None, None, None)
    BY DEF Local!Idle, Build
  <2> QED
    BY <2>1, <2>2, <2>3, <2>4, <2>5, <2>6
<1>2. /\ y.plan \in LocalPlans \union {None} /\ y.link \in Names /\ y.dir \in Names /\ y.displaced \in Names
      /\ y.pc \in LocalPhases /\ "idle" \in LocalPhases /\ None \in Names
  BY DEF LocalSessions, LocalPhases, Names
<1>3. \A pc \in LocalPhases, p \in LocalPlans \union {None}, l, e, o \in Names : Build(pc, p, l, e, o) \in LocalSessions
  BY DEF LocalSessions, Build
<1>4. Local!Goto(r, x) => Becomes(r, Build(x, y.plan, y.link, y.dir, y.displaced))
  BY <1>1, <1>2, <1>3, ZenonT(60) DEF Local!Goto, Becomes
<1>5. build' = [build EXCEPT ![r].pc = x, ![r].link = d] => Becomes(r, Build(x, y.plan, d, y.dir, y.displaced))
  BY <1>1, <1>2, <1>3, ZenonT(60) DEF Becomes
<1>6. build' = [build EXCEPT ![r].pc = x, ![r].dir = d] => Becomes(r, Build(x, y.plan, y.link, d, y.displaced))
  BY <1>1, <1>2, <1>3, ZenonT(60) DEF Becomes
<1>7. build' = [build EXCEPT ![r].pc = x, ![r].displaced = d] => Becomes(r, Build(x, y.plan, y.link, y.dir, d))
  BY <1>1, <1>2, <1>3, ZenonT(60) DEF Becomes
<1>8. build' = [build EXCEPT ![r].dir = d] => Becomes(r, Build(y.pc, y.plan, y.link, d, y.displaced))
  BY <1>1, <1>2, <1>3, Zenon DEF Becomes
<1>9. build' = [build EXCEPT ![r] = Local!Idle] => Becomes(r, Build("idle", None, None, None, None))
  BY <1>1, <1>2, <1>3 DEF Becomes
<1> QED
  BY <1>4, <1>5, <1>6, <1>7, <1>8, <1>9

(* What a step has to establish about the build that takes it.             *)
LEMMA BuildStep ==
  ASSUME LocalInv, NEW r \in Runners, \A q \in Runners \ {r} : build[q].pc = "idle",
         NEW y, Becomes(r, y), DiskType', LocalLiveWhole', BuildInv(y)'
  PROVE  LocalInv'
<1>1. build' \in [Runners -> LocalSessions] /\ build'[r] = y
      /\ \A q \in Runners \ {r} : build'[q].pc = "idle"
  BY DEF LocalInv, Becomes
<1>2. BuildInv(build[r])'
  BY <1>1 DEF BuildInv
<1>3. \A q \in Runners \ {r} : BuildInv(build[q])'
  BY <1>1 DEF BuildInv
<1>4. \A p, q \in Runners : build'[p].pc # "idle" /\ build'[q].pc # "idle" => p = q
  BY <1>1
<1> QED
  BY <1>1, <1>2, <1>3, <1>4 DEF LocalInv

(* A build that ends.                                                      *)
LEMMA BuildEnds ==
  ASSUME LocalInv, NEW r \in Runners, \A q \in Runners \ {r} : build[q].pc = "idle",
         build' = [build EXCEPT ![r] = Local!Idle], DiskType', LocalLiveWhole'
  PROVE  LocalInv'
<1>1. PICK y \in LocalSessions : y = build[r]
  BY DEF LocalInv
<1>2. Becomes(r, Build("idle", None, None, None, None))
  BY <1>1, BuildMoves, Zenon DEF LocalInv, LocalPhases, Names
<1>3. BuildInv(Build("idle", None, None, None, None))'
  BY DEF BuildInv, Build
<1> QED
  BY <1>2, <1>3, BuildStep

(* The steps that leave the disk alone.                                    *)
LEMMA BuildReads ==
  ASSUME LocalInv, NEW r \in Runners, \A q \in Runners \ {r} : build[q].pc = "idle", UNCHANGED Local!disk,
         \/ \E p \in LocalPlans : Local!LockOutput(r, p)
         \/ Local!CurrentManagedRelease(r) \/ Local!CheckExpected(r) \/ Local!Recheck(r) \/ Local!Displaced(r)
         \/ Local!Done(r) \/ Local!CallFails(r) \/ Local!Crash(r)
  PROVE  LocalInv'
<1>0. build \in [Runners -> LocalSessions] /\ DiskType /\ LocalLiveWhole /\ DiskType' /\ LocalLiveWhole'
  BY DEF LocalInv, DiskType, LocalLiveWhole, Local!LiveWhole, Local!Whole, Local!disk
<1>1. PICK y \in LocalSessions : y = build[r]
  BY DEF LocalInv
<1>2. BuildInv(y)
  BY <1>1 DEF LocalInv
<1>3. UNCHANGED <<output, control, current, release>>
  BY DEF Local!disk
<1>4. /\ y.plan \in LocalPlans \union {None} /\ y.link \in Names /\ y.dir \in Names /\ y.displaced \in Names
      /\ None \in Names
  BY DEF LocalSessions, Names
<1>5. ASSUME NEW p \in LocalPlans, Local!LockOutput(r, p) PROVE LocalInv'
  <2>1. [Local!Idle EXCEPT !.pc = "inspect", !.plan = p] = Build("inspect", p, None, None, None)
    <3>1. [Local!Idle EXCEPT !.pc = "inspect"] = Build("inspect", None, None, None, None)
      BY DEF Local!Idle, Build
    <3>2. [Local!Idle EXCEPT !.pc = "inspect", !.plan = p] = [Build("inspect", None, None, None, None) EXCEPT !.plan = p]
      BY <3>1, Zenon
    <3> QED
      BY <3>2 DEF Build
  <2>2. Build("inspect", p, None, None, None) \in LocalSessions
    BY DEF LocalSessions, Build, LocalPhases, Names
  <2>3. Becomes(r, Build("inspect", p, None, None, None))
    BY <1>5, <2>1, <2>2, Zenon DEF Becomes, Local!LockOutput
  <2>4. BuildInv(Build("inspect", p, None, None, None))'
    BY DEF BuildInv, Build
  <2> QED
    BY <1>0, <2>3, <2>4, BuildStep
<1>6. CASE Local!CurrentManagedRelease(r)
  <2>1. y.pc = "inspect"
    BY <1>1, <1>6 DEF Local!CurrentManagedRelease, Local!At
  <2>2. CASE build' = [build EXCEPT ![r] = Local!Idle]
    BY <1>0, <2>2, BuildEnds, ZenonT(60)
  <2>3. CASE output = "absent" /\ Local!Goto(r, IF control THEN "orphan" ELSE "expected")
    <3>1. PICK x \in {"orphan", "expected"} : Local!Goto(r, x)
      BY <2>3
    <3>2. Becomes(r, Build(x, y.plan, y.link, y.dir, y.displaced))
      <4>1. x \in LocalPhases
        BY DEF LocalPhases
      <4> QED
        BY <1>0, <1>1, <1>4, <3>1, <4>1, BuildMoves, ZenonT(60)
    <3>3. BuildInv(Build(x, y.plan, y.link, y.dir, y.displaced))'
      BY <1>2, <1>3, <2>1, <2>3 DEF BuildInv, Build
    <3> QED
      BY <1>0, <3>2, <3>3, BuildStep
  <2>4. CASE /\ output = "managed" /\ Local!Whole(current)
             /\ build' = [build EXCEPT ![r].pc = "expected", ![r].link = current]
    <3>1. current \in Names /\ current # None
      BY <1>0, <2>4 DEF DiskType, Local!Whole
    <3>2. Becomes(r, Build("expected", y.plan, current, y.dir, y.displaced))
      BY <1>0, <1>1, <2>4, <3>1, BuildMoves, Zenon DEF LocalPhases
    <3>3. PICK z : z = Build("expected", y.plan, current, y.dir, y.displaced)
      OBVIOUS
    <3>4. BuildInv(z)'
      BY <1>2, <1>3, <2>1, <3>1, <3>3 DEF BuildInv, Build
    <3> QED
      BY <1>0, <3>2, <3>3, <3>4, BuildStep
  <2> QED
    BY <1>6, <2>2, <2>3, <2>4 DEF Local!CurrentManagedRelease
<1>7. CASE Local!CheckExpected(r)
  <2>1. y.pc = "expected"
    BY <1>1, <1>7 DEF Local!CheckExpected, Local!At
  <2>2. CASE build' = [build EXCEPT ![r] = Local!Idle]
    BY <1>0, <2>2, BuildEnds, Zenon
  <2>3. CASE Local!Goto(r, "write")
    <3>1. Becomes(r, Build("write", y.plan, y.link, y.dir, y.displaced))
      BY <1>0, <1>1, <1>4, <2>3, BuildMoves, Zenon DEF LocalPhases
    <3>2. output = "managed" => current # None
      BY <1>0 DEF LocalLiveWhole, Local!LiveWhole, Local!Whole
    <3>3. BuildInv(Build("write", y.plan, y.link, y.dir, y.displaced))'
      BY <1>2, <1>3, <2>1, <3>2 DEF BuildInv, Build
    <3> QED
      BY <1>0, <3>1, <3>3, BuildStep
  <2> QED
    BY <1>7, <2>2, <2>3 DEF Local!CheckExpected
<1>8. CASE Local!Recheck(r)
  <2>1. y.pc = "recheck"
    BY <1>1, <1>8 DEF Local!Recheck, Local!At
  <2>2. PICK x \in {"exchange", "cleanup"} : Local!Goto(r, x)
    BY <1>8 DEF Local!Recheck
  <2>3. Becomes(r, Build(x, y.plan, y.link, y.dir, y.displaced))
    <3>1. x \in LocalPhases
      BY DEF LocalPhases
    <3> QED
      BY <1>0, <1>1, <1>4, <2>2, <3>1, BuildMoves, ZenonT(60)
  <2>4. BuildInv(Build(x, y.plan, y.link, y.dir, y.displaced))'
    BY <1>2, <1>3, <2>1 DEF BuildInv, Build, Local!Whole
  <2> QED
    BY <1>0, <2>3, <2>4, BuildStep
<1>9. CASE Local!Displaced(r)
  <2>1. y.pc = "displaced"
    BY <1>1, <1>9 DEF Local!Displaced, Local!At
  <2>2. CASE build' = [build EXCEPT ![r] = Local!Idle]
    BY <1>0, <2>2, BuildEnds, Zenon
  <2>3. CASE y.displaced = y.link /\ Local!Goto(r, "done")
    <3>1. Becomes(r, Build("done", y.plan, y.link, y.dir, y.displaced))
      BY <1>0, <1>1, <1>4, <2>3, BuildMoves, Zenon DEF LocalPhases
    <3>2. BuildInv(Build("done", y.plan, y.link, y.dir, y.displaced))'
      BY <1>2, <1>3, <2>1, <2>3 DEF BuildInv, Build
    <3> QED
      BY <1>0, <3>1, <3>2, BuildStep
  <2> QED
    BY <1>1, <1>9, <2>2, <2>3 DEF Local!Displaced, Local!Goto
<1>10. CASE Local!CallFails(r)
  <2>1. CASE build' = [build EXCEPT ![r] = Local!Idle]
    BY <1>0, <2>1, BuildEnds, Zenon
  <2>2. CASE /\ y.dir # None /\ y.pc \in {"inspect", "orphan", "write", "control", "current", "output", "exchange"}
             /\ Local!Goto(r, "cleanup")
    <3>1. Becomes(r, Build("cleanup", y.plan, y.link, y.dir, y.displaced))
      BY <1>0, <1>1, <1>4, <2>2, BuildMoves, Zenon DEF LocalPhases
    <3>2. BuildInv(Build("cleanup", y.plan, y.link, y.dir, y.displaced))'
      BY <1>2, <1>3, <2>2 DEF BuildInv, Build
    <3> QED
      BY <1>0, <3>1, <3>2, BuildStep
  <2> QED
    BY <1>1, <1>10, <2>1, <2>2 DEF Local!CallFails, Local!Goto
<1>11. CASE Local!Done(r) \/ Local!Crash(r)
  BY <1>0, <1>11, BuildEnds DEF Local!Done, Local!Crash
<1> QED
  BY <1>5, <1>6, <1>7, <1>8, <1>9, <1>10, <1>11

(* The steps that write to the disk.                                       *)
LEMMA BuildWrites ==
  ASSUME LocalInv, NEW r \in Runners, \A q \in Runners \ {r} : build[q].pc = "idle",
         \/ Local!OrphanLink(r) \/ Local!OrphanDirectory(r) \/ Local!OrphanRelease(r)
         \/ (\E d \in Releases : Local!CreateRelease(r, d)) \/ Local!MaterializeFiles(r)
         \/ Local!MakeControl(r) \/ Local!MakeCurrent(r) \/ Local!MakeOutput(r) \/ Local!Exchange(r)
         \/ Local!Cleanup(r)
  PROVE  LocalInv' /\ (output = "managed" => output' = "managed")
<1>0. build \in [Runners -> LocalSessions] /\ DiskType /\ LocalLiveWhole
  BY DEF LocalInv
<1>1. PICK y \in LocalSessions : y = build[r]
  BY DEF LocalInv
<1>2. BuildInv(y)
  BY <1>1 DEF LocalInv
<1>3. /\ y.plan \in LocalPlans \union {None} /\ y.link \in Names /\ y.dir \in Names /\ y.displaced \in Names
      /\ None \in Names /\ y.pc \in LocalPhases
  BY DEF LocalSessions, Names
<1>4. \A d \in Names : Local!Whole(d) => d \in Releases
  BY DEF Local!Whole, Names
<1>5. CASE Local!OrphanLink(r)
  <2>1. y.pc = "orphan" /\ output # "managed" /\ UNCHANGED <<output, control, release>>
    BY <1>1, <1>2, <1>5 DEF Local!OrphanLink, Local!At, BuildInv
  <2>2. current' \in {current, None}
    BY <1>5 DEF Local!OrphanLink
  <2>3. DiskType' /\ LocalLiveWhole'
    BY <1>0, <1>3, <2>1, <2>2 DEF DiskType, LocalLiveWhole, Local!LiveWhole
  <2>4. CASE build' = [build EXCEPT ![r] = Local!Idle]
    BY <2>1, <2>3, <2>4, BuildEnds, ZenonT(60)
  <2>5. CASE build' = [build EXCEPT ![r].pc = "orphandir", ![r].dir = current]
    <3>1. PICK d \in Names : d = current
      BY <1>0 DEF DiskType
    <3>2. Becomes(r, Build("orphandir", y.plan, y.link, d, y.displaced))
      BY <1>0, <1>1, <2>5, <3>1, BuildMoves, Zenon DEF LocalPhases
    <3>3. BuildInv(Build("orphandir", y.plan, y.link, d, y.displaced))'
      BY <1>2, <2>1 DEF BuildInv, Build
    <3> QED
      BY <2>1, <2>3, <3>2, <3>3, BuildStep
  <2> QED
    BY <1>5, <2>4, <2>5 DEF Local!OrphanLink
<1>6. CASE Local!OrphanDirectory(r)
  <2>1. y.pc = "orphandir" /\ output # "managed" /\ UNCHANGED <<output, current, release>> /\ control' = FALSE
    BY <1>1, <1>2, <1>6 DEF Local!OrphanDirectory, Local!At, BuildInv
  <2>2. DiskType' /\ LocalLiveWhole'
    BY <1>0, <2>1, Zenon DEF DiskType, LocalLiveWhole, Local!LiveWhole
  <2>3. Becomes(r, Build("orphanrelease", y.plan, y.link, y.dir, y.displaced))
    BY <1>0, <1>1, <1>3, <1>6, BuildMoves, Zenon DEF LocalPhases, Local!OrphanDirectory
  <2>4. BuildInv(Build("orphanrelease", y.plan, y.link, y.dir, y.displaced))'
    BY <1>2, <2>1 DEF BuildInv, Build
  <2> QED
    BY <2>1, <2>2, <2>3, <2>4, BuildStep
<1>7. CASE Local!OrphanRelease(r)
  <2>1. y.pc = "orphanrelease" /\ output # "managed" /\ UNCHANGED <<output, current, control>>
    BY <1>1, <1>2, <1>7 DEF Local!OrphanRelease, Local!At, BuildInv
  <2>2. \/ release' = release
        \/ y.dir \in Releases /\ release' = [release EXCEPT ![y.dir].state = "absent"]
    BY <1>1, <1>3, <1>7 DEF Local!OrphanRelease, Names
  <2>3. DiskType' /\ LocalLiveWhole'
    <3>1. release' \in [Releases -> [tree : Trees \union {None}, state : States]]
      BY <1>0, <2>2 DEF DiskType, States
    <3>2. \A d \in Releases : release'[d].state # "absent" => release'[d].tree # None
      BY <1>0, <2>2 DEF DiskType, States
    <3> QED
      BY <1>0, <2>1, <3>1, <3>2 DEF DiskType, LocalLiveWhole, Local!LiveWhole
  <2>4. Becomes(r, Build("expected", y.plan, y.link, None, y.displaced))
    BY <1>0, <1>1, <1>3, <1>7, BuildMoves, Zenon DEF LocalPhases, Local!OrphanRelease
  <2>5. BuildInv(Build("expected", y.plan, y.link, None, y.displaced))'
    BY <1>2, <2>1 DEF BuildInv, Build
  <2> QED
    BY <2>1, <2>3, <2>4, <2>5, BuildStep
<1>8. ASSUME NEW d \in Releases, Local!CreateRelease(r, d)
      PROVE  LocalInv' /\ (output = "managed" => output' = "managed")
  <2>1. y.pc = "write" /\ y.dir = None /\ release[d].tree = None /\ UNCHANGED <<output, current, control>>
    BY <1>1, <1>8 DEF Local!CreateRelease, Local!At
  <2>2. PICK t \in Trees : t = y.plan.tree
    BY <1>2, <2>1 DEF BuildInv
  <2>3. release' = [release EXCEPT ![d] = [tree |-> t, state |-> "partial"]]
    BY <1>1, <1>8, <2>2 DEF Local!CreateRelease
  <2>4. output = "managed" => d # current
    BY <1>0, <2>1 DEF LocalLiveWhole, Local!LiveWhole, Local!Whole, DiskType, Names
  <2>5. DiskType' /\ LocalLiveWhole'
    <3>1. /\ release' \in [Releases -> [tree : Trees \union {None}, state : States]]
          /\ release'[d].tree = t /\ \A e \in Releases \ {d} : release'[e] = release[e]
      BY <1>0, <2>3 DEF DiskType, States
    <3>2. \A e \in Releases : release'[e].state # "absent" => release'[e].tree # None
      BY <1>0, <3>1 DEF DiskType
    <3> QED
      BY <1>0, <2>1, <2>4, <3>1, <3>2 DEF DiskType, LocalLiveWhole, Local!LiveWhole, Local!Whole, Names
  <2>6. Becomes(r, Build(y.pc, y.plan, y.link, d, y.displaced))
    <3>1. d \in Names /\ build' = [build EXCEPT ![r].dir = d]
      BY <1>8 DEF Names, Local!CreateRelease
    <3> QED
      BY <1>0, <1>1, <1>3, <3>1, BuildMoves, Zenon
  <2>7. release'[d].tree # None
    BY <1>0, <2>3 DEF DiskType
  <2>8. BuildInv(Build(y.pc, y.plan, y.link, d, y.displaced))'
    BY <1>2, <2>1, <2>4, <2>7 DEF BuildInv, Build
  <2> QED
    BY <2>1, <2>5, <2>6, <2>8, BuildStep
<1>9. CASE Local!MaterializeFiles(r)
  <2>1. y.pc = "write" /\ y.dir \in Releases /\ UNCHANGED <<output, current, control>>
    BY <1>1, <1>3, <1>9 DEF Local!MaterializeFiles, Local!At, Names
  <2>2. PICK d \in Releases : d = y.dir
    BY <2>1
  <2>3. release' = [release EXCEPT ![d].state = "whole"] /\ release[d].tree # None /\ d # None
    BY <1>1, <1>2, <1>9, <2>1, <2>2 DEF Local!MaterializeFiles, BuildInv
  <2>4. /\ release' \in [Releases -> [tree : Trees \union {None}, state : States]]
        /\ release'[d].tree # None /\ release'[d].state = "whole"
        /\ \A e \in Releases \ {d} : release'[e] = release[e]
    BY <1>0, <2>3 DEF DiskType, States
  <2>5. DiskType' /\ LocalLiveWhole'
    <3>1. \A e \in Releases : release'[e].state # "absent" => release'[e].tree # None
      BY <1>0, <2>4 DEF DiskType
    <3> QED
      BY <1>0, <2>1, <2>4, <3>1 DEF DiskType, LocalLiveWhole, Local!LiveWhole, Local!Whole, Names
  <2>6. PICK x \in {"control", "recheck"} : Local!Goto(r, x) /\ (x = "control" <=> y.link = None)
    BY <1>1, <1>9 DEF Local!MaterializeFiles
  <2>7. Becomes(r, Build(x, y.plan, y.link, y.dir, y.displaced))
    <3>1. x \in LocalPhases
      BY DEF LocalPhases
    <3> QED
      BY <1>0, <1>1, <1>3, <2>6, <3>1, BuildMoves, ZenonT(60)
  <2>8. Local!Whole(d)'
    BY <2>3, <2>4 DEF Local!Whole
  <2>9. BuildInv(Build(x, y.plan, y.link, y.dir, y.displaced))'
    BY <1>2, <2>1, <2>2, <2>6, <2>8 DEF BuildInv, Build
  <2> QED
    BY <2>1, <2>5, <2>7, <2>9, BuildStep
<1>10. CASE Local!MakeControl(r)
  <2>1. y.pc = "control" /\ output # "managed" /\ UNCHANGED <<output, current, release>> /\ control' = TRUE
    BY <1>1, <1>2, <1>10 DEF Local!MakeControl, Local!At, BuildInv
  <2>2. PICK x \in {"cleanup", "current"} : Local!Goto(r, x)
    BY <1>10 DEF Local!MakeControl
  <2>3. Becomes(r, Build(x, y.plan, y.link, y.dir, y.displaced))
    <3>1. x \in LocalPhases
      BY DEF LocalPhases
    <3> QED
      BY <1>0, <1>1, <1>3, <2>2, <3>1, BuildMoves, ZenonT(60)
  <2>4. DiskType' /\ LocalLiveWhole'
    BY <1>0, <2>1 DEF DiskType, LocalLiveWhole, Local!LiveWhole
  <2>5. BuildInv(Build(x, y.plan, y.link, y.dir, y.displaced))'
    BY <1>2, <2>1 DEF BuildInv, Build, Local!Whole
  <2> QED
    BY <2>1, <2>3, <2>4, <2>5, BuildStep
<1>11. CASE Local!MakeCurrent(r)
  <2>1. /\ y.pc = "current" /\ output # "managed" /\ UNCHANGED <<output, control, release>>
        /\ current' = y.dir /\ Local!Goto(r, "output")
    BY <1>1, <1>2, <1>11 DEF Local!MakeCurrent, Local!At, BuildInv
  <2>2. DiskType' /\ LocalLiveWhole'
    BY <1>0, <1>3, <2>1 DEF DiskType, LocalLiveWhole, Local!LiveWhole
  <2>3. Becomes(r, Build("output", y.plan, y.link, y.dir, y.displaced))
    BY <1>0, <1>1, <1>3, <2>1, BuildMoves, Zenon DEF LocalPhases
  <2>4. BuildInv(Build("output", y.plan, y.link, y.dir, y.displaced))'
    BY <1>2, <2>1 DEF BuildInv, Build, Local!Whole
  <2> QED
    BY <2>1, <2>2, <2>3, <2>4, BuildStep
<1>12. CASE Local!MakeOutput(r)
  <2>1. /\ y.pc = "output" /\ output # "managed" /\ UNCHANGED <<current, control, release>>
        /\ control /\ current = y.dir /\ Local!Whole(y.dir) /\ y.link = None /\ y.displaced = None
    BY <1>1, <1>2, <1>12 DEF Local!MakeOutput, Local!At, BuildInv
  <2>2. PICK x \in {"done", "cleanup"} : /\ Local!Goto(r, x)
                                         /\ output' = IF x = "done" THEN "managed" ELSE output
    BY <1>12 DEF Local!MakeOutput
  <2>3. Becomes(r, Build(x, y.plan, y.link, y.dir, y.displaced))
    <3>1. x \in LocalPhases
      BY DEF LocalPhases
    <3> QED
      BY <1>0, <1>1, <1>3, <2>2, <3>1, BuildMoves, Zenon
  <2>4. DiskType' /\ LocalLiveWhole'
    BY <1>0, <2>1, <2>2 DEF DiskType, LocalLiveWhole, Local!LiveWhole, Local!Whole
  <2>5. BuildInv(Build(x, y.plan, y.link, y.dir, y.displaced))'
    BY <1>2, <2>1, <2>2 DEF BuildInv, Build, Local!Whole
  <2> QED
    BY <2>1, <2>3, <2>4, <2>5, BuildStep
<1>13. CASE Local!Exchange(r)
  <2>1. /\ y.pc = "exchange" /\ UNCHANGED <<output, control, release>> /\ current' = y.dir /\ Local!Whole(y.dir)
        /\ build' = [build EXCEPT ![r].pc = "displaced", ![r].displaced = current]
    BY <1>1, <1>2, <1>13 DEF Local!Exchange, Local!At, BuildInv
  <2>2. PICK d \in Names : d = current
    BY <1>0 DEF DiskType
  <2>3. Becomes(r, Build("displaced", y.plan, y.link, y.dir, d))
    BY <1>0, <1>1, <2>1, <2>2, BuildMoves, Zenon DEF LocalPhases
  <2>4. DiskType' /\ LocalLiveWhole'
    BY <1>0, <1>3, <2>1 DEF DiskType, LocalLiveWhole, Local!LiveWhole, Local!Whole
  <2>5. BuildInv(Build("displaced", y.plan, y.link, y.dir, d))'
    BY <1>2, <2>1 DEF BuildInv, Build
  <2> QED
    BY <2>1, <2>3, <2>4, <2>5, BuildStep
<1>14. CASE Local!Cleanup(r)
  <2>1. y.pc = "cleanup" /\ y.dir \in Releases /\ UNCHANGED <<output, control, current>>
    BY <1>1, <1>2, <1>3, <1>14 DEF Local!Cleanup, Local!At, BuildInv, Names
  <2>2. PICK d \in Releases : d = y.dir /\ (output = "managed" => d # current)
    BY <1>2, <2>1 DEF BuildInv
  <2>3. PICK st \in {"partial", "absent"} : /\ release' = [release EXCEPT ![d].state = st]
                                            /\ st = "partial" => release[d].state = "whole"
    <3>1. release' = [release EXCEPT ![d].state = IF release[d].state = "whole" THEN "partial" ELSE "absent"]
      BY <1>0, <1>1, <1>14, <2>2 DEF Local!Cleanup, DiskType
    <3> QED
      BY <3>1, ZenonT(60)
  <2>4. /\ release' \in [Releases -> [tree : Trees \union {None}, state : States]]
        /\ release'[d].tree = release[d].tree /\ release'[d].state = st
        /\ \A e \in Releases \ {d} : release'[e] = release[e]
    BY <1>0, <2>3 DEF DiskType, States
  <2>5. \A e \in Releases : release'[e].state # "absent" => release'[e].tree # None
    BY <1>0, <2>3, <2>4 DEF DiskType
  <2>6. DiskType' /\ LocalLiveWhole'
    BY <1>0, <2>1, <2>2, <2>4, <2>5 DEF DiskType, LocalLiveWhole, Local!LiveWhole, Local!Whole, Names
  <2>7. CASE build' = [build EXCEPT ![r] = Local!Idle]
    BY <2>1, <2>6, <2>7, BuildEnds, ZenonT(60)
  <2>8. CASE build' = build
    <3>1. Becomes(r, y)
      BY <1>0, <1>1, <2>8 DEF Becomes
    <3>2. BuildInv(y)'
      BY <1>2, <2>1 DEF BuildInv
    <3> QED
      BY <2>1, <2>6, <3>1, <3>2, BuildStep
  <2> QED
    BY <1>14, <2>7, <2>8 DEF Local!Cleanup
<1> QED
  BY <1>5, <1>6, <1>7, <1>8, <1>9, <1>10, <1>11, <1>12, <1>13, <1>14

(* A writer without the lock may take the path before a build makes it, or *)
(* exchange the link for another complete release.                         *)
LEMMA IntrudeStep ==
  ASSUME LocalInv, Local!Intrude
  PROVE  LocalInv' /\ (output = "managed" => output' = "managed")
<1>0. build \in [Runners -> LocalSessions] /\ DiskType /\ LocalLiveWhole
  BY DEF LocalInv
<1>1. CASE output = "absent" /\ output' = "foreign" /\ UNCHANGED <<control, current, release, build>>
  <2>1. DiskType' /\ LocalLiveWhole'
    BY <1>0, <1>1 DEF DiskType, LocalLiveWhole, Local!LiveWhole
  <2>2. \A r \in Runners : BuildInv(build[r])'
    BY <1>1 DEF LocalInv, BuildInv, Local!Whole
  <2> QED
    BY <1>0, <1>1, <2>1, <2>2 DEF LocalInv
<1>2. ASSUME NEW d \in Releases, output = "managed", Local!Whole(d), \A r \in Runners : build[r].dir # d,
             current' = d, UNCHANGED <<output, control, release, build>>
      PROVE  LocalInv' /\ (output = "managed" => output' = "managed")
  <2>1. DiskType' /\ LocalLiveWhole'
    BY <1>0, <1>2 DEF DiskType, LocalLiveWhole, Local!LiveWhole, Local!Whole, Names
  <2>2. ASSUME NEW r \in Runners PROVE BuildInv(build[r])'
    <3>1. PICK y \in LocalSessions : y = build[r] /\ y = build'[r]
      BY <1>0, <1>2
    <3>2. BuildInv(y) /\ y.dir # d
      BY <1>2, <3>1 DEF LocalInv
    <3>3. BuildInv(y)'
      BY <1>2, <3>2 DEF BuildInv, Local!Whole
    <3> QED
      BY <3>1, <3>3 DEF BuildInv
  <2> QED
    BY <1>0, <1>2, <2>1, <2>2 DEF LocalInv
<1> QED
  BY <1>1, <1>2 DEF Local!Intrude

(* Every step keeps the invariant, and none takes the managed path away.   *)
LEMMA LocalNext ==
  ASSUME LocalInv, [Local!Next]_(Local!vars)
  PROVE  LocalInv' /\ (output = "managed" => output' = "managed")
<1>1. CASE UNCHANGED Local!vars
  BY <1>1 DEF Local!vars, LocalInv, DiskType, LocalLiveWhole, Local!LiveWhole, Local!Whole, BuildInv
<1>2. ASSUME NEW r \in Runners, build[r].pc # "idle" PROVE \A q \in Runners \ {r} : build[q].pc = "idle"
  BY <1>2 DEF LocalInv
<1>3. ASSUME NEW r \in Runners, NEW p \in LocalPlans, Local!LockOutput(r, p)
      PROVE  LocalInv' /\ (output = "managed" => output' = "managed")
  <2>1. UNCHANGED Local!disk /\ \A q \in Runners : build[q].pc = "idle"
    BY <1>3 DEF Local!LockOutput, Local!At
  <2>2. LocalInv'
    BY <1>3, <2>1, BuildReads
  <2> QED
    BY <2>1, <2>2 DEF Local!disk
<1>4. ASSUME NEW r \in Runners, Local!Step(r) \/ Local!CallFails(r) \/ Local!Crash(r)
      PROVE  LocalInv' /\ (output = "managed" => output' = "managed")
  <2>1. build[r].pc # "idle"
    BY <1>4 DEF Local!Step, Local!CurrentManagedRelease, Local!OrphanLink, Local!OrphanDirectory,
                Local!OrphanRelease, Local!CheckExpected, Local!CreateRelease, Local!MaterializeFiles,
                Local!MakeControl, Local!MakeCurrent, Local!MakeOutput, Local!Recheck, Local!Exchange,
                Local!Displaced, Local!Cleanup, Local!Done, Local!CallFails, Local!Crash, Local!At
  <2>2. \A q \in Runners \ {r} : build[q].pc = "idle"
    BY <1>2, <2>1
  <2>3. CASE \/ Local!CurrentManagedRelease(r) \/ Local!CheckExpected(r) \/ Local!Recheck(r)
             \/ Local!Displaced(r) \/ Local!Done(r) \/ Local!CallFails(r) \/ Local!Crash(r)
    <3>1. UNCHANGED Local!disk
      BY <2>3 DEF Local!CurrentManagedRelease, Local!CheckExpected, Local!Recheck, Local!Displaced,
                  Local!Done, Local!CallFails, Local!Crash
    <3>2. LocalInv'
      BY <2>2, <2>3, <3>1, BuildReads
    <3> QED
      BY <3>1, <3>2 DEF Local!disk
  <2>4. CASE ~(\/ Local!CurrentManagedRelease(r) \/ Local!CheckExpected(r) \/ Local!Recheck(r)
               \/ Local!Displaced(r) \/ Local!Done(r) \/ Local!CallFails(r) \/ Local!Crash(r))
    BY <1>4, <2>2, <2>4, BuildWrites DEF Local!Step
  <2> QED
    BY <2>3, <2>4
<1> QED
  BY <1>1, <1>3, <1>4, IntrudeStep DEF Local!Next, Local!Progress, Local!Fault

(* The invariant of the local host.                                        *)
LEMMA LocalInvariance == Local!Spec => []LocalInv
<1>1. Local!Init => LocalInv
  <2> SUFFICES ASSUME Local!Init PROVE LocalInv
    OBVIOUS
  <2>1. Local!Idle \in LocalSessions /\ Local!Idle.pc = "idle"
    BY DEF Local!Idle, LocalSessions, LocalPhases, Names
  <2>2. build \in [Runners -> LocalSessions] /\ \A r \in Runners : build[r].pc = "idle"
    BY <2>1 DEF Local!Init
  <2>3. DiskType /\ LocalLiveWhole
    BY ZenonT(60) DEF Local!Init, DiskType, Names, States, LocalLiveWhole, Local!LiveWhole
  <2>4. \A r \in Runners : BuildInv(build[r])
    BY <2>2, Zenon DEF BuildInv
  <2> QED
    BY <2>2, <2>3, <2>4 DEF LocalInv
<1>2. LocalInv /\ [Local!Next]_(Local!vars) => LocalInv'
  BY LocalNext
<1> QED
  BY <1>1, <1>2, PTL DEF Local!Spec

(* What the output path of the local host resolves to is a complete,       *)
(* verified release after every call, failure and crash of any number of   *)
(* builds, and beside writers that do not take the lock.                   *)
THEOREM LocalStaysWhole == Local!Spec => []LocalLiveWhole
<1>1. LocalInv => LocalLiveWhole
  BY DEF LocalInv
<1> QED
  BY <1>1, LocalInvariance, PTL

(* A build that reports success displaced exactly the release its plan was *)
(* checked against.                                                        *)
THEOREM LostUpdatesAreReported == Local!Spec => []LocalReportsLostUpdate
<1>1. LocalInv => LocalReportsLostUpdate
  BY DEF LocalInv, BuildInv, LocalReportsLostUpdate, Local!ReportsLostUpdate, Local!At
<1> QED
  BY <1>1, LocalInvariance, PTL

(* No step of a build, of its clean-up or of a crash leaves the output     *)
(* path without a live tree once it has one.                               *)
THEOREM LiveTreeIsNeverWithdrawn == Local!Spec => LocalNeverWithdrawn
<1>1. LocalInv /\ [Local!Next]_(Local!vars) => [Local!LiveTree # None => Local!LiveTree' # None]_(Local!vars)
  <2> SUFFICES ASSUME LocalInv, [Local!Next]_(Local!vars), Local!LiveTree # None
               PROVE  Local!LiveTree' # None
    OBVIOUS
  <2>1. LocalInv' /\ output' = "managed"
    BY LocalNext DEF Local!LiveTree
  <2>2. Local!Whole(current)' /\ current' \in Releases /\ DiskType'
    BY <2>1 DEF LocalInv, LocalLiveWhole, Local!LiveWhole, Local!Whole, DiskType, Names
  <2>3. release'[current'].tree # None
    BY <2>2 DEF DiskType, Local!Whole
  <2> QED
    BY <2>1, <2>2, <2>3 DEF Local!LiveTree
<1> QED
  BY <1>1, LocalInvariance, PTL DEF Local!Spec, LocalNeverWithdrawn, Local!NeverWithdrawn

----------------------------------------------------------------------------
(* The Git host *)

Revs == Effects \union {None, Unmanaged}
PagesPhases ==
  {"idle", "stage", "preview", "pushpreview", "commit", "observe", "refetch", "ensure", "push", "relook", "verify",
   "access", "abort", "restore", "pushback", "relookback", "restored"}
PagesSessions == [pc : PagesPhases, effect : Effects \union {None}, lease : Revs, ok : BOOLEAN]

Planned(e) == e \in Effects /\ previous[e] # Unplanned

(* A push to the branch, made or on its way, publishes a planned effect    *)
(* whose descriptor exists over what that effect was planned against, or   *)
(* puts back what a planned effect replaced.                               *)
GoodPush(old, new) ==
  \/ new \in restoreRefs /\ Planned(new) /\ old = previous[new]
  \/ Planned(old) /\ new = previous[old]

(* What has been served was planned, and stays restorable.                 *)
BranchInv ==
  /\ previous \in [Effects -> Revs \union {Unplanned}]
  /\ branch \in Revs /\ preview \in Revs
  /\ lived \subseteq Effects /\ lived \subseteq restoreRefs
  /\ branch \in Effects => branch \in lived
  /\ \A e \in Effects : previous[e] \in Effects => previous[e] \in lived
  /\ \A e \in lived : previous[e] # Unplanned
  /\ \A e \in Effects : previous[e] # e
  /\ \A m \in inflight : GoodPush(m.old, m.new)

(* A runner that is to push holds the lease of its plan.                   *)
PusherInv(y) ==
  /\ y.pc # "idle" => Planned(y.effect)
  /\ y.pc \in {"refetch", "ensure", "push"} => y.lease = previous[y.effect]
  /\ y.pc = "push" => y.effect \in restoreRefs

PagesInv ==
  /\ BranchInv
  /\ pages \in [Runners -> PagesSessions]
  /\ \A r \in Runners : PusherInv(pages[r])

(* Plans and descriptors are never withdrawn.                              *)
Kept ==
  /\ \A e \in Effects : Planned(e) => previous'[e] = previous[e]
  /\ restoreRefs \subseteq restoreRefs'

(* What a step has to establish about the runner that takes it.            *)
LEMMA PagesStep ==
  ASSUME PagesInv, NEW r \in Runners, NEW y \in PagesSessions, pages' = [pages EXCEPT ![r] = y],
         BranchInv', Kept, PusherInv(y)'
  PROVE  PagesInv'
<1>1. pages' \in [Runners -> PagesSessions] /\ pages'[r] = y /\ \A q \in Runners \ {r} : pages'[q] = pages[q]
  BY DEF PagesInv
<1>2. ASSUME NEW q \in Runners PROVE PusherInv(pages[q])'
  <2>1. CASE q = r
    BY <1>1, <2>1 DEF PusherInv, Planned
  <2>2. CASE q # r
    BY <1>1, <2>2 DEF PagesInv, PusherInv, Planned, Kept
  <2> QED
    BY <2>1, <2>2
<1> QED
  BY <1>1, <1>2 DEF PagesInv

(* One runner moves.                                                       *)
Turns(r, pc, effect, lease) ==
  \E y \in PagesSessions : /\ pages' = [pages EXCEPT ![r] = y]
                           /\ y.pc = pc /\ y.effect = effect /\ y.lease = lease

(* The moves the steps share.                                              *)
LEMMA PagesMoves ==
  ASSUME PagesInv, NEW r \in Runners, NEW y \in PagesSessions, y = pages[r],
         NEW x \in PagesPhases, NEW l \in Revs
  PROVE  /\ Pages!Goto(r, x) => Turns(r, x, y.effect, y.lease)
         /\ pages' = [pages EXCEPT ![r].pc = x, ![r].lease = l] => Turns(r, x, y.effect, l)
<1>1. pages \in [Runners -> PagesSessions]
  BY DEF PagesInv
<1>2. ASSUME Pages!Goto(r, x) PROVE Turns(r, x, y.effect, y.lease)
  <2>1. PICK z : z = [y EXCEPT !.pc = x]
    BY Zenon
  <2>2. z \in PagesSessions /\ z.pc = x /\ z.effect = y.effect /\ z.lease = y.lease
    BY <2>1 DEF PagesSessions
  <2>3. pages' = [pages EXCEPT ![r] = z]
    BY <1>1, <1>2, <2>1 DEF Pages!Goto
  <2> QED
    BY <2>2, <2>3, Zenon DEF Turns
<1>3. ASSUME pages' = [pages EXCEPT ![r].pc = x, ![r].lease = l] PROVE Turns(r, x, y.effect, l)
  <2>1. PICK z : z = [y EXCEPT !.pc = x, !.lease = l]
    OBVIOUS
  <2>2. z \in PagesSessions /\ z.pc = x /\ z.effect = y.effect /\ z.lease = l
    BY <2>1, ZenonT(60) DEF PagesSessions
  <2>3. pages' = [pages EXCEPT ![r] = z]
    BY <1>1, <1>3, <2>1, Zenon
  <2> QED
    BY <2>2, <2>3, Zenon DEF Turns
<1> QED
  BY <1>2, <1>3

(* A runner ends.                                                          *)
LEMMA PagesIdles ==
  ASSUME NEW r \in Runners, pages' = [pages EXCEPT ![r] = Pages!Idle]
  PROVE  Turns(r, "idle", None, None)
<1>1. Pages!Idle \in PagesSessions /\ Pages!Idle.pc = "idle" /\ Pages!Idle.effect = None /\ Pages!Idle.lease = None
  BY DEF Pages!Idle, PagesSessions, PagesPhases, Revs
<1> QED
  BY <1>1, Zenon DEF Turns

(* A runner begins.                                                        *)
LEMMA PagesStarts ==
  ASSUME NEW r \in Runners, NEW x \in PagesPhases, NEW e \in Effects,
         pages' = [pages EXCEPT ![r] = [Pages!Idle EXCEPT !.pc = x, !.effect = e]]
  PROVE  Turns(r, x, e, None)
<1>1. Pages!Idle \in PagesSessions /\ Pages!Idle.lease = None
  BY DEF Pages!Idle, PagesSessions, PagesPhases, Revs
<1>2. PICK o \in PagesSessions : o = Pages!Idle /\ o.lease = None
  BY <1>1
<1>3. PICK z : z = [o EXCEPT !.pc = x, !.effect = e]
  OBVIOUS
<1>4. z \in PagesSessions /\ z.pc = x /\ z.effect = e /\ z.lease = None
  BY <1>2, <1>3, Zenon DEF PagesSessions
<1>5. pages' = [pages EXCEPT ![r] = z]
  BY <1>2, <1>3, Zenon
<1> QED
  BY <1>4, <1>5, Zenon DEF Turns

(* A read of what is published ends a publication, and notes its outcome.  *)
LEMMA AccessMoves ==
  ASSUME PagesInv, NEW r \in Runners, NEW y \in PagesSessions, y = pages[r], Pages!ReadAccess(r)
  PROVE  Turns(r, "abort", y.effect, y.lease)
<1>1. pages \in [Runners -> PagesSessions]
  BY DEF PagesInv
<1>2. PICK b \in BOOLEAN : pages' = [pages EXCEPT ![r].pc = "abort", ![r].ok = b]
  BY Zenon DEF Pages!ReadAccess
<1>3. PICK z : z = [y EXCEPT !.pc = "abort", !.ok = b]
  OBVIOUS
<1>4. z \in PagesSessions /\ z.pc = "abort" /\ z.effect = y.effect /\ z.lease = y.lease
  BY <1>3, ZenonT(60) DEF PagesSessions, PagesPhases
<1>5. pages' = [pages EXCEPT ![r] = z]
  BY <1>1, <1>2, <1>3, ZenonT(60)
<1> QED
  BY <1>4, <1>5, Zenon DEF Turns

(* A good push that finds its lease is a step of the abstract host.        *)
LEMMA PushIsContractStep ==
  ASSUME BranchInv, NEW new, GoodPush(branch, new), Pages!Move(new), UNCHANGED previous
  PROVE  Pages!Contract!Next
<1> DEFINE Rev(c) == IF c \in Effects THEN [plan |-> c] ELSE c
           Replaced(L) == [v \in {[plan |-> e] : e \in L} |-> Rev(previous[v.plan])]
<1>1. branch' = new /\ lived' = lived \union ({new} \intersect Effects)
  BY DEF Pages!Move
<1>2. \A e \in Effects : [plan |-> e].plan = e /\ [plan |-> e] \in [plan : Effects]
  OBVIOUS
<1>3. \A c, d \in Revs : Rev(c) = Rev(d) => c = d
  BY <1>2 DEF Revs
<1>4. CASE new \in restoreRefs /\ Planned(new) /\ branch = previous[new]
  <2>1. new \in Effects /\ new # branch
    BY <1>4 DEF Planned, BranchInv
  <2>2. PICK v : v = [plan |-> new] /\ v.plan = new /\ v \in [plan : Effects]
    BY <1>2, <2>1, Zenon
  <2>3. Rev(branch) = Rev(previous[new]) /\ Rev(branch) # v /\ Rev(branch)' = v
    BY <1>1, <1>3, <1>4, <2>1, <2>2 DEF BranchInv, Revs
  <2>4. [e \in Effects |-> Rev(previous[e])][v.plan] = Rev(branch)
    BY <2>1, <2>2, <2>3
  <2>5. v \in DOMAIN Replaced(lived) => Replaced(lived)[v] = Rev(branch)
    BY <2>2, <2>3
  <2>6. lived' = lived \union {new} /\ {[plan |-> e] : e \in lived'} = {[plan |-> e] : e \in lived} \union {v}
    BY <1>1, <2>1, <2>2
  <2>7. Replaced(lived)' = [q \in DOMAIN Replaced(lived) \union {v} |-> IF q = v THEN Rev(branch) ELSE Replaced(lived)[q]]
    BY <2>2, <2>3, <2>6
  <2>8. Pages!Contract!Commit(v)
    BY <2>3, <2>4, <2>5, <2>7, Zenon DEF Pages!Contract!Commit
  <2> QED
    BY <2>2, <2>8 DEF Pages!Contract!Next
<1>5. CASE Planned(branch) /\ new = previous[branch]
  <2>1. branch \in lived /\ lived \subseteq Effects
    BY <1>5 DEF BranchInv, Planned
  <2>2. lived' = lived
    BY <1>1, <1>5, <2>1 DEF BranchInv
  <2>3. PICK v : v = [plan |-> branch] /\ v.plan = branch /\ v = Rev(branch) /\ v \in DOMAIN Replaced(lived)
    <3>1. branch \in Effects /\ [plan |-> branch].plan = branch /\ Rev(branch) = [plan |-> branch]
      BY <1>2, <2>1
    <3>2. [plan |-> branch] \in {[plan |-> e] : e \in lived} /\ DOMAIN Replaced(lived) = {[plan |-> e] : e \in lived}
      BY <2>1
    <3> QED
      BY <3>1, <3>2, Zenon
  <2>4. Replaced(lived)[v] = Rev(new) /\ Rev(branch)' = Rev(new)
    BY <1>1, <1>5, <2>3
  <2>5. Pages!Contract!Restore
    BY <2>2, <2>3, <2>4, ZenonT(60) DEF Pages!Contract!Restore
  <2> QED
    BY <2>5 DEF Pages!Contract!Next
<1> QED
  BY <1>4, <1>5 DEF GoodPush

ContractStep == [Pages!Contract!Next]_(Pages!Contract!pvars)

(* A push, whatever becomes of it.                                         *)
LEMMA PushKeeps ==
  ASSUME BranchInv, NEW old, NEW new, GoodPush(old, new), UNCHANGED <<previous, preview, restoreRefs>>,
         (branch = old /\ Pages!Move(new)) \/ UNCHANGED <<branch, lived>>,
         inflight' \subseteq inflight \union {[old |-> old, new |-> new]}
  PROVE  BranchInv' /\ Kept /\ ContractStep
<1>1. \A a, b : GoodPush(a, b)' = GoodPush(a, b)
  BY DEF GoodPush, Planned
<1>2. \A m \in inflight' : GoodPush(m.old, m.new)'
  BY <1>1 DEF BranchInv
<1>3. Kept
  BY DEF Kept
<1>4. CASE UNCHANGED <<branch, lived>>
  <2>1. UNCHANGED Pages!Contract!pvars
    BY <1>4 DEF Pages!Contract!pvars
  <2> QED
    BY <1>2, <1>3, <1>4, <2>1 DEF BranchInv, ContractStep
<1>5. CASE branch = old /\ Pages!Move(new)
  <2>1. branch' = new /\ lived' = lived \union ({new} \intersect Effects)
    BY <1>5 DEF Pages!Move
  <2>2. /\ new \in Revs
        /\ new \in Effects => new \in restoreRefs /\ previous[new] # Unplanned
    BY DEF GoodPush, Planned, BranchInv, Revs
  <2>3. BranchInv'
    BY <1>2, <2>1, <2>2 DEF BranchInv
  <2>4. Pages!Contract!Next
    BY <1>5, PushIsContractStep
  <2> QED
    BY <1>3, <2>3, <2>4 DEF ContractStep
<1> QED
  BY <1>4, <1>5

(* A step that moves neither the branch nor a plan.                        *)
LEMMA QuietStep ==
  ASSUME PagesInv, NEW r \in Runners, UNCHANGED <<previous, branch, inflight, lived>>,
         restoreRefs \subseteq restoreRefs', preview' \in Revs,
         NEW x \in PagesPhases, NEW e \in Effects \union {None}, NEW l \in Revs, Turns(r, x, e, l),
         x # "idle" => Planned(e),
         x \in {"refetch", "ensure", "push"} => l = previous[e],
         x = "push" => e \in restoreRefs'
  PROVE  PagesInv' /\ ContractStep
<1>1. \A m \in inflight' : GoodPush(m.old, m.new)'
  BY DEF PagesInv, BranchInv, GoodPush, Planned
<1>2. BranchInv' /\ Kept
  BY <1>1 DEF PagesInv, BranchInv, Kept
<1>3. UNCHANGED Pages!Contract!pvars
  BY DEF Pages!Contract!pvars
<1>4. PICK y \in PagesSessions : pages' = [pages EXCEPT ![r] = y] /\ y.pc = x /\ y.effect = e /\ y.lease = l
  BY ZenonT(60) DEF Turns
<1>5. PusherInv(y)'
  BY <1>4 DEF PusherInv, Planned
<1> QED
  BY <1>2, <1>3, <1>4, <1>5, PagesStep, Zenon DEF ContractStep

(* Every step of a runner keeps the invariant, and is a step of the        *)
(* abstract host or none.                                                  *)
LEMMA PagesRuns ==
  ASSUME PagesInv, NEW r \in Runners,
         \/ \E e \in Effects : Pages!Begin(r, e)
         \/ Pages!BeginRestore(r) \/ Pages!Reads(r) \/ Pages!Crash(r)
         \/ \E f : Pages!Pushes(r, f)
  PROVE  PagesInv' /\ ContractStep
<1>0. BranchInv /\ pages \in [Runners -> PagesSessions]
  BY DEF PagesInv
<1>1. PICK y \in PagesSessions : y = pages[r]
  BY <1>0
<1>2. /\ y.effect \in Effects \union {None} /\ y.lease \in Revs /\ y.ok \in BOOLEAN /\ PusherInv(y)
      /\ branch \in Revs /\ preview \in Revs /\ None \in Revs /\ Effects \subseteq Revs
  BY <1>0, <1>1 DEF PagesSessions, PagesInv, BranchInv, Revs
<1> DEFINE Goal == PagesInv' /\ ContractStep
           Quiet == /\ UNCHANGED <<previous, branch, inflight, lived>>
                    /\ restoreRefs \subseteq restoreRefs' /\ preview' \in Revs
           Plain == PagesPhases \ {"idle", "refetch", "ensure", "push"}
<1>3. UNCHANGED <<previous, Pages!refs>> => Quiet
  BY <1>2 DEF Pages!refs
<1>4. ASSUME Quiet, NEW x \in Plain, Pages!Goto(r, x), y.pc # "idle" PROVE Goal
  <2>1. x \in PagesPhases /\ Turns(r, x, y.effect, y.lease)
    BY <1>1, <1>2, <1>4, PagesMoves, ZenonT(60)
  <2>2. Planned(y.effect)
    BY <1>2, <1>4 DEF PusherInv
  <2> QED
    BY <1>2, <1>4, <2>1, <2>2, QuietStep
<1>5. ASSUME Quiet, pages' = [pages EXCEPT ![r] = Pages!Idle] PROVE Goal
  <2>1. "idle" \in PagesPhases /\ None \in Effects \union {None}
    BY DEF PagesPhases
  <2>2. Turns(r, "idle", None, None)
    BY <1>1, <1>5, PagesIdles, Zenon
  <2> QED
    BY <1>2, <1>5, <2>1, <2>2, QuietStep
<1>6. ASSUME Quiet, NEW x \in Plain, NEW e \in Effects, Planned(e),
             pages' = [pages EXCEPT ![r] = [Pages!Idle EXCEPT !.pc = x, !.effect = e]]
      PROVE  Goal
  <2>1. x \in PagesPhases /\ e \in Effects \union {None}
    OBVIOUS
  <2>2. Turns(r, x, e, None)
    BY <1>6, <2>1, PagesStarts, Zenon
  <2> QED
    BY <1>2, <1>6, <2>1, <2>2, QuietStep
<1> HIDE DEF Goal, Quiet
<1>7. {"stage", "preview", "pushpreview", "commit", "observe", "relook", "verify", "access", "abort", "restore",
       "pushback", "relookback", "restored"} \subseteq Plain
  BY DEF PagesPhases
<1> HIDE DEF Plain
<1>8. \A m \in inflight : GoodPush(m.old, m.new)
  BY <1>0 DEF BranchInv
<1>9. ASSUME NEW old, NEW new, NEW f, GoodPush(old, new), Pages!PushBranch(old, new, f), NEW x \in Plain,
             Pages!Goto(r, x), UNCHANGED <<previous, preview, restoreRefs>>, y.pc # "idle"
      PROVE  Goal
  <2>1. BranchInv' /\ Kept /\ ContractStep
    <3>1. (branch = old /\ Pages!Move(new)) \/ UNCHANGED <<branch, lived>>
      BY <1>9 DEF Pages!PushBranch
    <3>2. inflight' \subseteq inflight \union {[old |-> old, new |-> new]}
      BY <1>9 DEF Pages!PushBranch
    <3> QED
      BY <1>0, <1>9, <3>1, <3>2, PushKeeps
  <2>2. x \in PagesPhases /\ x \notin {"idle", "refetch", "ensure", "push"}
    BY DEF Plain
  <2>3. Turns(r, x, y.effect, y.lease)
    BY <1>1, <1>2, <1>9, <2>2, PagesMoves, Zenon
  <2>4. PICK z \in PagesSessions : pages' = [pages EXCEPT ![r] = z] /\ z.pc = x /\ z.effect = y.effect
    BY <2>3, ZenonT(60) DEF Turns
  <2>5. PusherInv(z)'
    BY <1>2, <1>9, <2>2, <2>4 DEF PusherInv, Planned
  <2>6. PagesInv'
    BY <2>1, <2>4, <2>5, PagesStep, ZenonT(60)
  <2> QED
    BY <2>1, <2>6 DEF Goal
<1>10. ASSUME NEW e \in Effects, Pages!Begin(r, e) PROVE Goal
  BY <1>3, <1>6, <1>7, <1>10, Zenon DEF Pages!Begin, Planned
<1>11. ASSUME Pages!BeginRestore(r) PROVE Goal
  <2>1. PICK e \in Effects : e = branch
    BY <1>11 DEF Pages!BeginRestore
  <2>2. Planned(e) /\ "restore" \in Plain
    BY <1>0, <1>7, <2>1 DEF BranchInv, Planned
  <2>3. Quiet /\ pages' = [pages EXCEPT ![r] = [Pages!Idle EXCEPT !.pc = "restore", !.effect = e]]
    BY <1>3, <1>11, <2>1 DEF Pages!BeginRestore
  <2> QED
    BY <1>6, <2>2, <2>3, Zenon
<1>12. ASSUME Pages!Crash(r) PROVE Goal
  BY <1>3, <1>5, <1>12 DEF Pages!Crash
<1>13. ASSUME Pages!Reads(r) PROVE Goal
  <2>1. UNCHANGED <<previous, Pages!refs>> /\ y.pc # "idle"
    BY <1>1, <1>13 DEF Pages!Reads, Pages!ReadPreview, Pages!ReadStage, Pages!ObserveForCommit, Pages!Refetch,
              Pages!Relook, Pages!VerifyPublished, Pages!ReadAccess, Pages!ObserveForRestore,
              Pages!RelookRestored, Pages!Restored, Pages!At
  <2>2. Quiet /\ Planned(y.effect)
    BY <1>2, <1>3, <2>1 DEF PusherInv
  <2>3. CASE \/ Pages!ReadStage(r) \/ Pages!Relook(r) \/ Pages!VerifyPublished(r) \/ Pages!ObserveForRestore(r)
             \/ Pages!RelookRestored(r) \/ Pages!Restored(r)
    <3>1. \/ \E x \in {"observe", "access", "abort", "pushback", "restored"} : Pages!Goto(r, x)
          \/ pages' = [pages EXCEPT ![r] = Pages!Idle]
      BY <2>3 DEF Pages!ReadStage, Pages!Relook, Pages!VerifyPublished, Pages!ObserveForRestore,
                  Pages!RelookRestored, Pages!Restored, Pages!Fail, Pages!Goto
    <3> QED
      BY <1>4, <1>5, <1>7, <2>1, <2>2, <3>1
  <2>4. CASE Pages!ReadPreview(r)
    <3>1. PICK l \in Revs : l = preview
      BY <1>2
    <3>2. "pushpreview" \in PagesPhases
      BY DEF PagesPhases
    <3>3. Turns(r, "pushpreview", y.effect, l)
      BY <1>1, <1>2, <2>4, <3>1, <3>2, PagesMoves, ZenonT(60) DEF Pages!ReadPreview
    <3> QED
      BY <1>2, <2>2, <3>1, <3>2, <3>3, QuietStep DEF Quiet, Goal
  <2>5. CASE Pages!ReadAccess(r)
    <3>1. "abort" \in PagesPhases /\ Turns(r, "abort", y.effect, y.lease)
      BY <1>1, <2>5, AccessMoves DEF PagesPhases
    <3> QED
      BY <1>2, <2>2, <3>1, QuietStep DEF Quiet, Goal
  <2>6. CASE Pages!ObserveForCommit(r)
    <3>1. CASE Pages!Goto(r, "access") \/ Pages!Goto(r, "abort")
      BY <1>4, <1>7, <2>1, <2>2, <3>1
    <3>2. ASSUME NEW x \in {"ensure", "refetch"}, branch = previous[y.effect],
                 pages' = [pages EXCEPT ![r].pc = x, ![r].lease = branch]
          PROVE  Goal
      <4>1. PICK l \in Revs : l = branch
        BY <1>2
      <4>2. x \in PagesPhases /\ x \notin {"push", "idle"}
        BY DEF PagesPhases
      <4>3. Turns(r, x, y.effect, l)
        BY <1>1, <1>2, <3>2, <4>1, <4>2, PagesMoves, ZenonT(60)
      <4> QED
        BY <1>2, <2>2, <3>2, <4>1, <4>2, <4>3, QuietStep DEF Quiet, Goal
    <3> QED
      BY <1>1, <2>6, <3>1, <3>2 DEF Pages!ObserveForCommit, Pages!MatchesExpected, Pages!Effect
  <2>7. CASE Pages!Refetch(r)
    <3>1. y.pc = "refetch" /\ (Pages!Goto(r, "ensure") \/ Pages!Goto(r, "abort"))
      BY <1>1, <2>7 DEF Pages!Refetch, Pages!At
    <3>2. CASE Pages!Goto(r, "abort")
      BY <1>4, <1>7, <2>1, <2>2, <3>2
    <3>3. CASE Pages!Goto(r, "ensure")
      <4>1. "ensure" \in PagesPhases /\ y.lease = previous[y.effect]
        BY <1>2, <3>1 DEF PagesPhases, PusherInv
      <4>2. Turns(r, "ensure", y.effect, y.lease)
        BY <1>1, <1>2, <3>3, <4>1, PagesMoves, ZenonT(60)
      <4> QED
        BY <1>2, <2>2, <4>1, <4>2, QuietStep DEF Quiet, Goal
    <3> QED
      BY <3>1, <3>2, <3>3
  <2> QED
    BY <1>13, <2>3, <2>4, <2>5, <2>6, <2>7 DEF Pages!Reads, Goal
<1>14. ASSUME NEW f, Pages!Pushes(r, f) PROVE Goal
  <2>1. y.pc # "idle"
    BY <1>1, <1>14, Zenon DEF Pages!Pushes, Pages!Stage, Pages!PushPreview, Pages!EnsureDescriptor,
              Pages!PushPublication, Pages!Abort, Pages!PushRestored, Pages!At
  <2>2. Planned(y.effect) /\ y.effect \in Effects
    BY <1>2, <2>1 DEF PusherInv, Planned
  <2>3. CASE Pages!Stage(r, f) \/ Pages!Abort(r, f)
    <3>1. Quiet
      BY <1>2, <2>3 DEF Pages!Stage, Pages!Abort, Quiet
    <3>2. \/ Pages!Goto(r, "preview") \/ Pages!Goto(r, "commit") \/ pages' = [pages EXCEPT ![r] = Pages!Idle]
      BY <2>3 DEF Pages!Stage, Pages!Abort, Pages!Fail
    <3> QED
      BY <1>4, <1>5, <1>7, <2>1, <3>1, <3>2
  <2>4. CASE Pages!PushPreview(r, f)
    <3>1. Quiet
      BY <1>1, <1>2, <2>2, <2>4 DEF Pages!PushPreview, Pages!Effect, Quiet
    <3>2. Pages!Goto(r, "commit") \/ Pages!Goto(r, "abort")
      BY <2>4 DEF Pages!PushPreview
    <3> QED
      BY <1>4, <1>7, <2>1, <3>1, <3>2
  <2>5. CASE Pages!EnsureDescriptor(r, f)
    <3>1. Quiet /\ y.pc = "ensure"
      BY <1>1, <1>2, <2>5 DEF Pages!EnsureDescriptor, Pages!Ensured, Pages!At, Quiet
    <3>2. CASE Pages!Goto(r, "abort")
      BY <1>4, <1>7, <2>1, <3>1, <3>2
    <3>3. CASE Pages!Goto(r, "push") /\ y.effect \in restoreRefs'
      <4>1. "push" \in PagesPhases /\ y.lease = previous[y.effect]
        BY <1>2, <3>1 DEF PagesPhases, PusherInv
      <4>2. Turns(r, "push", y.effect, y.lease)
        BY <1>1, <1>2, <3>3, <4>1, PagesMoves, Zenon
      <4> QED
        BY <1>2, <2>2, <3>1, <3>3, <4>1, <4>2, QuietStep DEF Quiet, Goal
    <3> QED
      BY <1>1, <2>5, <3>2, <3>3 DEF Pages!EnsureDescriptor, Pages!Effect
  <2>6. CASE Pages!PushPublication(r, f)
    <3>1. GoodPush(y.lease, y.effect)
      BY <1>1, <1>2, <2>2, <2>6 DEF Pages!PushPublication, Pages!At, PusherInv, GoodPush
    <3>2. Pages!Goto(r, "verify") \/ Pages!Goto(r, "relook")
      BY <2>6 DEF Pages!PushPublication
    <3>3. Pages!PushBranch(y.lease, y.effect, f) /\ UNCHANGED <<previous, preview, restoreRefs>>
      BY <1>1, <2>6 DEF Pages!PushPublication, Pages!Effect
    <3> QED
      BY <1>7, <1>9, <2>1, <3>1, <3>2, <3>3
  <2>7. CASE Pages!PushRestored(r, f)
    <3>1. GoodPush(y.effect, previous[y.effect])
      BY <2>2 DEF GoodPush
    <3>2. Pages!Goto(r, "restored") \/ Pages!Goto(r, "relookback")
      BY <2>7 DEF Pages!PushRestored
    <3>3. Pages!PushBranch(y.effect, previous[y.effect], f) /\ UNCHANGED <<previous, preview, restoreRefs>>
      BY <1>1, <2>7 DEF Pages!PushRestored, Pages!Effect
    <3>4. PICK p : p = previous[y.effect]
      OBVIOUS
    <3> QED
      BY <1>7, <1>9, <2>1, <3>1, <3>2, <3>3, <3>4
  <2> QED
    BY <1>14, <2>3, <2>4, <2>5, <2>6, <2>7 DEF Pages!Pushes, Goal
<1> QED
  BY <1>10, <1>11, <1>12, <1>13, <1>14 DEF Goal

(* A plan is computed against what is live, which its own effect is not.   *)
LEMMA PagesPlans ==
  ASSUME PagesInv, NEW e \in Effects, Pages!MakePlan(e)
  PROVE  PagesInv' /\ ContractStep
<1>1. /\ previous[e] = Unplanned /\ previous' = [previous EXCEPT ![e] = branch]
      /\ UNCHANGED <<branch, preview, restoreRefs, inflight, lived, pages>>
  BY DEF Pages!MakePlan, Pages!refs
<1>2. BranchInv /\ branch # e /\ branch # Unplanned
  BY <1>1 DEF PagesInv, BranchInv, Revs
<1>3. /\ previous' \in [Effects -> Revs \union {Unplanned}] /\ previous'[e] = branch
      /\ \A d \in Effects \ {e} : previous'[d] = previous[d]
  BY <1>1, <1>2 DEF BranchInv
<1>4. \A d : Planned(d) => Planned(d)' /\ previous'[d] = previous[d]
  BY <1>1, <1>3 DEF Planned
<1>5. ASSUME NEW m \in inflight' PROVE GoodPush(m.old, m.new)'
  <2>1. PICK a, b : a = m.old /\ b = m.new
    OBVIOUS
  <2>2. GoodPush(a, b)
    BY <1>1, <1>2, <2>1 DEF BranchInv
  <2>3. GoodPush(a, b)'
    BY <1>1, <1>4, <2>2 DEF GoodPush
  <2> QED
    BY <2>1, <2>3
<1>6. BranchInv'
  BY <1>1, <1>2, <1>3, <1>5 DEF BranchInv
<1>7. \A r \in Runners : PusherInv(pages[r])'
  BY <1>1, <1>4 DEF PagesInv, PusherInv
<1>8. Pages!Contract!Plan(e)
  <2> DEFINE Rev(c) == IF c \in Effects THEN [plan |-> c] ELSE c
             P == [d \in Effects |-> Rev(previous[d])]
  <2>1. P[e] = Unplanned
    BY <1>1
  <2>2. P' = [P EXCEPT ![e] = Rev(branch)]
    BY <1>3, Zenon
  <2>3. UNCHANGED <<Rev(branch), [v \in {[plan |-> d] : d \in lived} |-> Rev(previous[v.plan])]>>
    <3>1. \A d \in lived : d \in Effects /\ previous'[d] = previous[d]
      BY <1>1, <1>2, <1>3 DEF BranchInv
    <3>2. \A v \in {[plan |-> d] : d \in lived} : previous'[v.plan] = previous[v.plan]
      BY <3>1
    <3> QED
      BY <1>1, <3>2
  <2> QED
    BY <2>1, <2>2, <2>3 DEF Pages!Contract!Plan
<1> QED
  BY <1>1, <1>6, <1>7, <1>8 DEF PagesInv, ContractStep, Pages!Contract!Next

(* A push that lands after its client gave up.                             *)
LEMMA PagesLands ==
  ASSUME PagesInv, NEW m \in inflight, Pages!Land(m)
  PROVE  PagesInv' /\ ContractStep
<1>1. PICK a, b : a = m.old /\ b = m.new
  OBVIOUS
<1>2. GoodPush(a, b) /\ BranchInv
  BY <1>1 DEF PagesInv, BranchInv
<1>3. UNCHANGED <<previous, preview, restoreRefs, pages>> /\ inflight' \subseteq inflight
  BY DEF Pages!Land
<1>4. (branch = a /\ Pages!Move(b)) \/ UNCHANGED <<branch, lived>>
  BY <1>1 DEF Pages!Land
<1>5. BranchInv' /\ ContractStep
  BY <1>2, <1>3, <1>4, PushKeeps
<1>6. \A r \in Runners : PusherInv(pages[r])'
  BY <1>3 DEF PagesInv, PusherInv, Planned
<1> QED
  BY <1>3, <1>5, <1>6 DEF PagesInv

(* Every step.                                                             *)
LEMMA PagesNext ==
  ASSUME PagesInv, [Pages!Next]_(Pages!vars)
  PROVE  PagesInv' /\ ContractStep
<1>1. CASE UNCHANGED Pages!vars
  <2>1. UNCHANGED <<previous, branch, preview, restoreRefs, inflight, lived, pages>>
    BY <1>1 DEF Pages!vars, Pages!refs
  <2>2. UNCHANGED Pages!Contract!pvars
    BY <2>1 DEF Pages!Contract!pvars
  <2>3. PagesInv'
    BY <2>1 DEF PagesInv, BranchInv, GoodPush, PusherInv, Planned
  <2> QED
    BY <2>2, <2>3 DEF ContractStep
<1>2. CASE \/ \E e \in Effects : Pages!MakePlan(e)
           \/ \E m \in inflight : Pages!Land(m)
  BY <1>2, PagesPlans, PagesLands
<1>3. CASE \/ \E r \in Runners, e \in Effects : Pages!Begin(r, e)
           \/ \E r \in Runners : Pages!BeginRestore(r) \/ Pages!Reads(r) \/ Pages!Crash(r)
           \/ \E r \in Runners : \E f : Pages!Pushes(r, f)
  BY <1>3, PagesRuns
<1> QED
  BY <1>1, <1>2, <1>3 DEF Pages!Next, Pages!Progress, Pages!Fault

(* The invariant holds at first.                                           *)
LEMMA PagesInit ==
  ASSUME Pages!Init
  PROVE  PagesInv /\ Pages!Contract!Init
<1>1. Pages!Idle \in PagesSessions /\ Pages!Idle.pc = "idle"
  BY DEF Pages!Idle, PagesSessions, PagesPhases, Revs
<1>2. pages \in [Runners -> PagesSessions] /\ \A r \in Runners : pages[r].pc = "idle"
  BY <1>1 DEF Pages!Init
<1>3. \A r \in Runners : PusherInv(pages[r])
  BY <1>2, Zenon DEF PusherInv
<1>4. BranchInv
  BY DEF Pages!Init, BranchInv, Revs
<1>5. Pages!Contract!Init
  <2>1. branch \in {None, Unmanaged} /\ branch \notin Effects /\ lived = {} /\ \A e \in Effects : previous[e] = Unplanned
    BY DEF Pages!Init
  <2>2. {[plan |-> e] : e \in lived} = {}
    BY <2>1
  <2> QED
    BY <2>1, <2>2 DEF Pages!Contract!Init
<1> QED
  BY <1>2, <1>3, <1>4, <1>5 DEF PagesInv

(* What the Pages branch serves can be observed at every moment, whatever  *)
(* the number of runners and changes, the answers that are lost and the    *)
(* pushes that land late.                                                  *)
THEOREM PagesStayObservable == Pages!Spec => []PagesLiveObservable
<1>1. Pages!Init => PagesInv
  BY PagesInit
<1>2. PagesInv /\ [Pages!Next]_(Pages!vars) => PagesInv'
  BY PagesNext
<1>3. PagesInv => PagesLiveObservable
  BY DEF PagesInv, BranchInv, PagesLiveObservable, Pages!LiveObservable, Pages!Observable,
         Pages!inspectPublication, Pages!inspectRestoreDescriptor
<1> QED
  BY <1>1, <1>2, <1>3, PTL DEF Pages!Spec

(* The Pages adapter implements the abstract host: the branch only moves   *)
(* from what a reviewed change was planned against to that change, or back *)
(* to what it replaced.                                                    *)
THEOREM PagesImplementsContract == Pages!Spec => PagesKeepsContract
<1>1. Pages!Init => PagesInv /\ Pages!Contract!Init
  BY PagesInit
<1>2. PagesInv /\ [Pages!Next]_(Pages!vars)
        => PagesInv' /\ [Pages!Contract!Next]_(Pages!Contract!pvars)
  BY PagesNext DEF ContractStep
<1> QED
  BY <1>1, <1>2, PTL DEF Pages!Spec, PagesKeepsContract, Pages!KeepsContract, Pages!Contract!Spec

============================================================================
