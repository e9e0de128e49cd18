---------------------------- MODULE Publication ----------------------------
(***************************************************************************)
(* What a host with ConditionalCommit and ConditionalRestore promises its  *)
(* caller (host/host.go): the live revision is one value, a reviewed plan  *)
(* replaces exactly the revision it was computed against, and undoing a    *)
(* publication puts back exactly what that publication replaced.           *)
(*                                                                         *)
(* A revision is a record whose field plan names the plan it publishes;    *)
(* Unpublished holds the values of `live' that no plan published.          *)
(***************************************************************************)
CONSTANTS Plans, Revisions, Unpublished, NotPlanned

VARIABLES
  live,      \* what clients are served
  planned,   \* plan -> the revision it was computed against, or NotPlanned
  replaced   \* published revision -> the value of live it replaced

pvars == <<live, planned, replaced>>

Init ==
  /\ live \in Unpublished
  /\ planned = [p \in Plans |-> NotPlanned]
  /\ replaced = [r \in {} |-> live]

(* A plan is computed against what is observed to be live.                 *)
Plan(p) ==
  /\ planned[p] = NotPlanned
  /\ planned' = [planned EXCEPT ![p] = live]
  /\ UNCHANGED <<live, replaced>>

(* Host.Commit: compare and swap from the planned revision.  A revision    *)
(* that was undone may be committed again, over the same predecessor.      *)
Commit(r) ==
  /\ live = planned[r.plan] /\ live # r
  /\ r \in DOMAIN replaced => replaced[r] = live
  /\ live' = r
  /\ replaced' = [q \in DOMAIN replaced \union {r} |-> IF q = r THEN live ELSE replaced[q]]
  /\ UNCHANGED planned

(* Host.Restore: compare and swap back to what the live revision replaced. *)
Restore ==
  /\ live \in DOMAIN replaced
  /\ live' = replaced[live]
  /\ UNCHANGED <<planned, replaced>>

Next ==
  \/ \E p \in Plans : Plan(p)
  \/ \E r \in Revisions : Commit(r)
  \/ Restore

Spec == Init /\ [][Next]_pvars

============================================================================
