--------------------------- MODULE RepositoryLock ---------------------------
(***************************************************************************)
(* What a repository's lock file says, and the functions that change it    *)
(* (internal/state/store.go, internal/state/prune.go).                     *)
(*                                                                         *)
(* An artifact is a record [pkg, ver, coord, sha]: the package version it  *)
(* belongs to, the coordinate its format gives it inside that version (a   *)
(* filename, or a filename and an architecture) and the digest of its      *)
(* bytes.  A lock is a record of                                           *)
(*   blobs      the artifacts it records.  A package version is in the     *)
(*              lock when one of its artifacts is: AddBlob appends both;   *)
(*   origin     those that record the URL they were adopted from;          *)
(*   placements the package versions on a track.                           *)
(* The order of the file is not here: canonicalizeLock fixes it on every   *)
(* write, so two locks with the same members are the same file.            *)
(***************************************************************************)
EXTENDS Integers, Sequences, FiniteSets

CONSTANT Rank(_)   \* how the format's CompareVersions orders a version

EmptyLock == [blobs |-> {}, origin |-> {}, placements |-> {}]

SameVersion(x, y) == x.pkg = y.pkg /\ x.ver = y.ver

Place(a, track) == [pkg |-> a.pkg, ver |-> a.ver, track |-> track]

packageVersionExists(lock, v) == \E b \in lock.blobs : SameVersion(b, v)

(* "is already bound to different bytes".                                  *)
Bound(lock, a) ==
  \E b \in lock.blobs : SameVersion(b, a) /\ b.coord = a.coord /\ b.sha # a.sha

AddBlob(lock, a, track) ==
  [lock EXCEPT !.blobs = @ \union {a}, !.placements = @ \union {Place(a, track)}]

(* An adopted artifact's only URL is modelled, so the refusal of a second, *)
(* different origin cannot happen.                                         *)
SetBlobOrigin(lock, a) == [lock EXCEPT !.origin = @ \union {a}]

PromotePlacement(lock, v, track) ==
  [lock EXCEPT !.placements = @ \union {Place(v, track)}]

(* A track, or "all" for every placement of the version.                   *)
YankPlacements(lock, v, track) ==
  [lock EXCEPT !.placements =
     {p \in @ : ~(SameVersion(p, v) /\ track \in {"all", p.track})}]

-----------------------------------------------------------------------------
(* PrunePlacements: per package and track, sort newest first, keep the     *)
(* first `keep` and whatever compares equal to the last of them.  Versions *)
(* are compared by Rank: two spellings of one version have the same rank.  *)
(* Mutation: the partition forgets the track, so one track's newer version *)
(* pushes out the only version of another.                                 *)
PartitionByPackage(lock, p) ==
  {q \in lock.placements : q.pkg = p.pkg}

Partition(lock, p) ==
  {q \in lock.placements : q.pkg = p.pkg /\ q.track = p.track}

NewestFirst(S) ==
  CHOOSE s \in [1 .. Cardinality(S) -> S] :
    \A i, j \in DOMAIN s : i < j => s[i] # s[j] /\ Rank(s[i].ver) >= Rank(s[j].ver)

Pruned(lock, p, keep) ==
  LET newest == NewestFirst(Partition(lock, p))
  IN  /\ Len(newest) > keep
      /\ p \in {newest[i] : i \in keep + 1 .. Len(newest)}
      /\ Rank(p.ver) # Rank(newest[keep].ver)

PrunePlacements(lock, keep) ==
  [lock EXCEPT !.placements = {p \in @ : ~Pruned(lock, p, keep)}]

-----------------------------------------------------------------------------
(* Duplicate versions and placements, the other refusals of ValidateLock,  *)
(* cannot be written as a member of a set.                                 *)
ValidateLock(lock) ==
  /\ \A a, b \in lock.blobs : SameVersion(a, b) /\ a.coord = b.coord => a = b
  /\ \A p \in lock.placements : packageVersionExists(lock, p)

Bytes(lock, v) == {b.sha : b \in {c \in lock.blobs : SameVersion(c, v)}}

(* The ledger is a set of [pkg, ver, shas]: what was published as what.    *)
ValidatePublishedBindings(lock, ledger) ==
  \A r \in ledger : packageVersionExists(lock, r) /\ Bytes(lock, r) = r.shas

visiblePackageVersions(lock, track) ==
  {b \in lock.blobs : Place(b, track) \in lock.placements}

publicationBindings(lock, track) ==
  {[pkg |-> b.pkg, ver |-> b.ver, shas |-> Bytes(lock, b)] :
     b \in visiblePackageVersions(lock, track)}
=============================================================================
