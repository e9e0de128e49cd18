---------------------------- MODULE MCWorkspace ----------------------------
(***************************************************************************)
(* The parts of a workspace that do not talk to a host, in one run:        *)
(* `part', chosen in the initial state, says which of them moves.          *)
(* The variables of the others are Unused.  The parts share no state but   *)
(* files, and what another part may do to a file is an action of the       *)
(* module that reads it.                                                   *)
(***************************************************************************)
EXTENDS WorkspaceLocks, WorkspaceStorage, WorkspaceSigning, WorkspaceGates, Sequences, TLC

CONSTANTS
  Unused, Gone,
  k1, k2, n1, n2, pgp, rsa,              \* signing keys; repository names
  p, q, w1, w2, w3, c1,                  \* packages; blob loaders; a client
  r1, r2, t1, t2, t3, t4,                \* repositories to verify; trees
  p1, p2, ra, rb, rp, rn,                \* plans; gated repositories
  main, dev, v0, v1, v2, v3, m1, m2      \* branches, revisions, reviews

VARIABLES
  entry, release, snapshot, served, run, cancelled, moves,                 \* clients
  git, identity, manifest, locks, docs, ignored, command, reported, setups,
  indexFormat, request, upstream, pinned, import, imports,                 \* imports
  format, left, right                                                      \* versions

clientVars == <<entry, release, snapshot, served, run, cancelled, moves>>
setupVars == <<git, identity, manifest, locks, docs, ignored, command, reported, setups>>
importVars == <<indexFormat, request, upstream, pinned, import, imports>>
versionVars == <<format, left, right>>
vars == <<part, faults, lockVars, shardVars, cacheVars, rotationVars, keyVars, clientVars,
          gateVars, setupVars, importVars, versionVars>>

----------------------------------------------------------------------------
(* locks: two artifacts of one version at different coordinates, one that  *)
(* clashes with the first, and a newer version.                            *)
Artifact(version, coordinate, digest) ==
  [pkg |-> p, ver |-> version, coord |-> coordinate, sha |-> digest]
MCArtifacts ==
  {Artifact(1, "x", "d1"), Artifact(1, "y", "d2"), Artifact(1, "x", "d3"), Artifact(2, "x", "d4")}
MCVersionRank(version) == version

(* shards: every lock of two packages at two versions.                     *)
MCPackages == {p, q}

MCLoaders == {w1, w2, w3}

(* rotation and keys: two keys, of which one may expire within the window. *)
MCKeys == {k1, k2}
MCRefreshers == {c1}

(* clients: each entry point alone, and two repositories whose clients     *)
(* share the slots; trees that are signed, unsigned, wrongly signed and    *)
(* empty; cases that fail where the sample looks and where it does not.    *)
Version(package, rank) == [package |-> package, rank |-> rank]
Built(keyed, signatures) == [indexes |-> TRUE, keyed |-> keyed, signatures |-> signatures]

Together ==
  {r1 :> "apk" @@ r2 :> "deb"}
    \cup {r2 :> e : e \in {"deb", "rpm", "apk", "helm", "pypi", "debEndpoint", "pypiEndpoint",
                          "rawEndpoint"}}
Releases == r1 :> {t3} @@ r2 :> {t1, t2, t3, t4}
Structures == t1 :> Built(TRUE, "valid") @@ t2 :> Built(FALSE, "none")
           @@ t3 :> Built(TRUE, "mixed") @@ t4 :> Built(FALSE, "none")
CaseLists == t1 :> <<Version(p, 2), Version(p, 1), Version(p, 3)>>
          @@ t2 :> <<Version(p, 1), Version(q, 0), Version(p, 2)>>
          @@ t3 :> <<Version(p, 1)>> @@ t4 :> << >>

Clients == INSTANCE ClientVerification WITH
  Verifications <- Together, Published <- Releases, Trees <- {t1, t2, t3, t4},
  Structure <- Structures, Cases <- CaseLists,
  Broken <- {<<t1, 1>>, <<t2, 1>>, <<t2, 3>>},
  FileCount <- 2, Slots <- 2, Sweeps <- 2, MaxChanges <- 1,
  changes <- moves

(* gates: once with approvals and a clock, once with a forge that changes  *)
(* between the gate's requests; a plan of a revision that review m1 carries *)
(* to the default branch and m2 to another.                                *)
MCPlans == {p1, p2}
MCGated == {ra, rb, rp, rn}
MCPolicy == ra :> "approval" @@ rb :> "approval" @@ rp :> "pr" @@ rn :> "auto"
MCGitRevision == p1 :> v1 @@ p2 :> v0
MCPlanExpiry == p1 :> 2 @@ p2 :> 3
MCApprovalKeys == p1 :> {k1, k2} @@ p2 :> {k2}
MCBranches == {main, dev}
MCHistory == v0 :> {v0} @@ v1 :> {v0, v1} @@ v2 :> {v0, v1, v2} @@ v3 :> {v0, v3}
MCReviews == {m1, m2}
MCInto == m1 :> main @@ m2 :> dev
MCCarries == m1 :> {v1, v2} @@ m2 :> {v1}
MCLands == m1 :> v2 @@ m2 :> v1

FirstGate == Gate!Init /\ (part = "approvals" => provider = "none")
GateBound ==
  /\ part = "approvals" => changes' = 0
  /\ part = "reviews" => approvals' = {} /\ time' <= 1

(* setup: configurations of every host and most formats, some valid, some  *)
(* not, whose places are the same, nested and apart; manifests of three    *)
(* older schemas.                                                          *)
Configured(kind, host, place) ==
  [format |-> kind, host |-> host, place |-> place, visibility |-> "public", gate |-> "auto",
   approvers |-> "none", key |-> None, keyring |-> "none", track |-> "stable", keep |-> 0,
   preview |-> <<>>, endpoint |-> "https", readAuth |-> FALSE, foreign |-> FALSE,
   unsigned |-> FALSE]

Asked ==
  {[Configured("pypi", "", <<"a">>) EXCEPT !.visibility = "", !.gate = ""],
   [Configured("deb", "local", <<"a", "b">>) EXCEPT !.key = pgp],
   [Configured("apk", "rsync", <<"m", "a">>) EXCEPT !.key = rsa, !.gate = "approval",
                                                 !.approvers = "sorted"],
   [Configured("apk", "rsync", <<"m", "a">>) EXCEPT !.key = pgp],
   [Configured("raw", "rsync", <<"m", "a", "b">>) EXCEPT !.track = "invalid"],
   Configured("raw", "rsync", <<"m", "a", "b">>),
   Configured("helm", "s3", <<"k", "a">>),
   [Configured("helm", "s3", <<"k", "a">>) EXCEPT !.unsigned = TRUE],
   [Configured("raw", "s3", <<"k">>) EXCEPT !.visibility = "private", !.readAuth = TRUE],
   [Configured("raw", "s3", <<"k", "a", "b">>) EXCEPT !.gate = "pr", !.track = ""],
   Configured("deb", "s3", <<"k", "c">>),
   [Configured("raw", "github-pages", <<"r", "g">>) EXCEPT !.gate = "pr"],
   [Configured("raw", "github-pages", <<"r", "g">>) EXCEPT !.gate = "pr", !.preview = <<"q", "g">>],
   Configured("raw", "github-pages", <<"q", "g">>)}

Forge(name, repository) == [forge |-> name, repository |-> repository, host |-> FALSE]
Left(schema, configuration) ==
  [schema |-> schema, workspace |-> Forge("", FALSE), repositories |-> n1 :> configuration]

HeldKeys == pgp :> "openpgp" @@ rsa :> "apk"
Forges == {Forge("", FALSE), Forge("forgejo", TRUE), Forge("gitlab", TRUE)}
Older ==
  {Left(1, [Configured("deb", "local", <<"a">>) EXCEPT !.track = "", !.visibility = ""]),
   Left(5, [Configured("deb", "github-pages", <<"r", "g">>) EXCEPT !.track = "", !.key = pgp]),
   Left(6, [Configured("raw", "s3", <<"k", "a">>) EXCEPT !.track = ""])}

Setup == INSTANCE RepositorySetup WITH
  Names <- {n1, n2}, Options <- Asked, KeysHeld <- HeldKeys, Workspaces <- Forges,
  Legacy <- Older, MaxCommands <- 3, commands <- setups

(* versions: short texts over the bytes the comparisons tell apart (0, 1,  *)
(* 9, a, full stop, tilde, caret), parsed by the format.                   *)
Texts(bytes, length) == UNION {[1 .. k -> bytes] : k \in 0 .. length}
One == <<49>>
Zero == <<48>>

DebVersions ==
  {[epoch |-> Zero, upstream |-> One \o u, revision |-> <<>>] : u \in Texts({48, 49, 97, 126, 46}, 2)}
RPMVersions ==
  {[epoch |-> 0, version |-> One \o u, release |-> One] : u \in Texts({49, 97, 126, 94, 46}, 2)}
APKVersions ==
  {[numbers |-> n, letter |-> <<>>, suffixes |-> s, revision |-> -1] :
     n \in {<<a>> : a \in {Zero, One, <<48, 49>>, <<49, 48>>, <<57>>, <<48, 49, 48>>}} \cup {<<One, Zero>>},
     s \in {<<>>, <<[rank |-> -2, number |-> 1]>>, <<[rank |-> 5, number |-> 0]>>}}
PyPIVersions ==
  {[epoch |-> Zero, release |-> n, pre |-> a, post |-> b, dev |-> d, local |-> <<>>] :
     n \in {<<One>>, <<One, Zero>>, <<One, <<49, 48>>>>}, a \in {<<>>, <<0, One>>, <<2, Zero>>},
     b \in {<<>>, <<One>>}, d \in {<<>>, <<One>>}}
Fields == {One, <<48, 49>>, <<97>>, <<49, 97>>, <<57, 57, 57, 57>>}
RawVersions ==
  {[semver |-> k, fields |-> <<>>] : k \in 1 .. 3}
    \cup {[semver |-> 0, fields |-> n] : n \in {<<a>> : a \in Fields} \cup (Fields \X Fields)}
Parsed == [deb |-> DebVersions, rpm |-> RPMVersions, apk |-> APKVersions,
           pypi |-> PyPIVersions, raw |-> RawVersions]

Compared == INSTANCE Versions WITH MaxInt64 <- 99, Candidates <- Parsed

(* imports: three revisions of a repository; the second has new bytes for  *)
(* one file and one file more, the third names a file twice and another    *)
(* twice alike, in another encoding, and calls itself otherwise.           *)
Named(number, digest, section) ==
  [file |-> number, sha |-> digest, control |-> section, supported |-> number # 2, urls |-> <<w1, w2>>]
Published(name, encoding, index, pool) ==
  [name |-> name, components |-> <<"main">>, architectures |-> <<"all", "amd64">>,
   paths |-> {<<<<"main", "amd64">>, e>> : e \in {"zst", encoding}}, primary |-> "sha256",
   encoding |-> encoding, entries |-> <<"main", "amd64">> :> index @@ <<"", "">> :> index,
   files |-> pool]
Revised ==
  <<Published("", "gz", <<Named(2, "d2", 2), Named(1, "d1", 1)>>, <<"d1", "d2", None>>),
    Published("asked", "gz", <<Named(1, "d1", 1), Named(2, "d5", 5), Named(3, "d3", 3)>>, <<"d1", "d5", "d3">>),
    [Published("other", "xz", <<Named(1, "d1", 1), Named(1, "d6", 6), Named(3, "d3", 3), Named(3, "d3", 3)>>,
               <<"d6", None, "d3">>) EXCEPT !.primary = "sha1"]>>

Request(floor, limit) ==
  [floor |-> floor, limit |-> limit, dryRun |-> FALSE, selected |-> TRUE,
   component |-> None, architecture |-> None]
Requested ==
  {Request(None, 0), Request("indexStated", 1),
   [Request("indexChain", 0) EXCEPT !.component = "main", !.architecture = "amd64"],
   [Request(None, 0) EXCEPT !.dryRun = TRUE, !.component = "contrib"],
   [Request(None, 1) EXCEPT !.selected = FALSE]}
ByHand == {[file |-> 1, sha |-> "d1", origin |-> None, provenance |-> "operator"]}

Imports == INSTANCE IndexImport WITH
  Formats <- {"pypi", "helm", "deb", "rpm", "apk", "raw"}, Upstream <- Revised,
  Mirrors <- {w1, w2}, Home <- w1, Requests <- Requested, Held <- ByHand,
  MaxImports <- 2, MaxFaults <- 1, format <- indexFormat, served <- upstream, lock <- pinned

----------------------------------------------------------------------------
NoLock ==
  /\ lock = Unused /\ ledger = Unused /\ cas = Unused /\ store = Unused
  /\ blobStore = Unused /\ cmd = Unused /\ last = Unused /\ commands = Unused
NoShard ==
  /\ root = Unused /\ shards = Unused /\ rootDisk = Unused /\ shardsDisk = Unused
  /\ shardDirectory = Unused /\ writer = Unused /\ reader = Unused /\ head = Unused
  /\ acked = Unused /\ pending = Unused /\ writes = Unused
NoCache ==
  /\ setup = Unused /\ file = Unused /\ object = Unused /\ facts = Unused
  /\ worker = Unused /\ putter = Unused
NoRotation ==
  /\ now = Unused /\ expires = Unused /\ phases = Unused /\ deployment = Unused
  /\ published = Unused /\ live = Unused /\ apply = Unused /\ client = Unused
  /\ back = Unused
NoKey ==
  /\ private = Unused /\ public = Unused /\ keys = Unused /\ signing = Unused
  /\ generation = Unused /\ keyCommand = Unused
NoClient ==
  /\ entry = Unused /\ release = Unused /\ snapshot = Unused /\ served = Unused
  /\ run = Unused /\ cancelled = Unused /\ moves = Unused
NoGate ==
  /\ provider = Unused /\ time = Unused /\ forge = Unused /\ approvals = Unused
  /\ signed = Unused /\ call = Unused /\ outcome = Unused /\ changes = Unused
NoSetup ==
  /\ git = Unused /\ identity = Unused /\ manifest = Unused /\ locks = Unused
  /\ docs = Unused /\ ignored = Unused /\ command = Unused /\ reported = Unused
  /\ setups = Unused
NoImport ==
  /\ indexFormat = Unused /\ request = Unused /\ upstream = Unused /\ pinned = Unused
  /\ import = Unused /\ imports = Unused
NoVersion ==
  /\ format = Unused /\ left = Unused /\ right = Unused

Init ==
  /\ part \in {"locks", "shards", "cache", "rotation", "keys", "clients", "approvals", "reviews",
              "setup", "imports", "versions"}
  /\ faults = 0
  /\ IF part = "locks" THEN Locks!Init ELSE NoLock
  /\ IF part = "shards" THEN Shards!Init ELSE NoShard
  /\ IF part = "cache" THEN Cache!Init ELSE NoCache
  /\ IF part = "rotation" THEN Rotation!Init ELSE NoRotation
  /\ IF part = "keys" THEN Keys!Init ELSE NoKey
  /\ IF part = "clients" THEN Clients!Init ELSE NoClient
  /\ IF part \in {"approvals", "reviews"} THEN FirstGate ELSE NoGate
  /\ IF part = "setup" THEN Setup!Init ELSE NoSetup
  /\ IF part = "imports" THEN Imports!Init ELSE NoImport
  /\ IF part = "versions" THEN Compared!Init ELSE NoVersion

Next ==
  \/ /\ part = "locks" /\ Locks!Next
     /\ UNCHANGED <<part, shardVars, cacheVars, rotationVars, keyVars, clientVars, gateVars,
                   setupVars, importVars, versionVars>>
  \/ /\ part = "shards" /\ Shards!Next
     /\ UNCHANGED <<part, lockVars, cacheVars, rotationVars, keyVars, clientVars, gateVars,
                   setupVars, importVars, versionVars>>
  \/ /\ part = "cache" /\ Cache!Next
     /\ UNCHANGED <<part, lockVars, shardVars, rotationVars, keyVars, clientVars, gateVars,
                   setupVars, importVars, versionVars>>
  \/ /\ part = "rotation" /\ Rotation!Next
     /\ UNCHANGED <<part, faults, lockVars, shardVars, cacheVars, keyVars, clientVars, gateVars,
                   setupVars, importVars, versionVars>>
  \/ /\ part = "keys" /\ Keys!Next
     /\ UNCHANGED <<part, lockVars, shardVars, cacheVars, rotationVars, clientVars, gateVars,
                   setupVars, importVars, versionVars>>
  \/ /\ part = "clients" /\ Clients!Next
     /\ UNCHANGED <<part, lockVars, shardVars, cacheVars, rotationVars, keyVars, gateVars, setupVars,
                   importVars, versionVars>>
  \/ /\ part \in {"approvals", "reviews"} /\ Gate!Next /\ GateBound
     /\ UNCHANGED <<part, lockVars, shardVars, cacheVars, rotationVars, keyVars, clientVars,
                   setupVars, importVars, versionVars>>
  \/ /\ part = "setup" /\ Setup!Next
     /\ UNCHANGED <<part, faults, lockVars, shardVars, cacheVars, rotationVars, keyVars, clientVars,
                   gateVars, importVars, versionVars>>
  \/ /\ part = "imports" /\ Imports!Next
     /\ UNCHANGED <<part, lockVars, shardVars, cacheVars, rotationVars, keyVars, clientVars,
                   gateVars, setupVars, versionVars>>
  \/ /\ part = "versions" /\ Compared!Next
     /\ UNCHANGED <<part, faults, lockVars, shardVars, cacheVars, rotationVars, keyVars, clientVars,
                   gateVars, setupVars, importVars>>

Spec == Init /\ [][Next]_vars

----------------------------------------------------------------------------
(* clients: the verdict of a verification says what is so, however the     *)
(* clients of all repositories were scheduled.                             *)
VerdictSound == part = "clients" => Clients!VerdictSound

(* setup: whatever init or setup was interrupted at, the next command can  *)
(* read the workspace, and no two repositories publish over each other.    *)
WorkspaceUsable == part = "setup" => Setup!WorkspaceUsable

(* imports: what the lock claims about an imported digest is true of the   *)
(* repository it came from, however that was republished meanwhile.        *)
PinsTrue == part = "imports" => Imports!PinsTrue

(* versions: every format's comparison is a total preorder.                *)
OrdersVersions == part = "versions" => Compared!OrdersVersions
=============================================================================
