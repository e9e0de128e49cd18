-------------------------- MODULE RepositorySetup --------------------------
(***************************************************************************)
(* Creating a workspace and adding repositories to it (engine:             *)
(* InitWorkspaceReporting, SetupRepository; internal/state/store.go: Init, *)
(* Setup, LoadManifest, WriteManifest and the validations they share).     *)
(*                                                                         *)
(* A command holds the workspace lock and writes several files, each of    *)
(* them atomically; it may be interrupted, or fail, between any two.  The  *)
(* manifest it starts from may be of an older schema.                      *)
(*                                                                         *)
(* A place is where a host publishes: the directory a local path cleans    *)
(* to, a machine and a directory, a bucket and a prefix, a repository and  *)
(* a branch.                                                               *)
(***************************************************************************)
EXTENDS Integers, Sequences, SequencesExt, FiniteSets

CONSTANTS
  Names,        \* repository names
  Options,      \* the configurations setup is asked for
  Workspaces,   \* [forge, repository, host]: the workspaces init is asked for
  Legacy,       \* manifests older versions left: [schema, workspace, repositories]
  KeysHeld,     \* signing key -> its algorithm
  None, MaxCommands

VARIABLES
  git,        \* "none", "created", "committed"
  identity,   \* can git attribute a commit
  manifest,   \* None, or [schema, workspace, repositories: name -> configuration]
  locks,      \* the repositories that have a lock file
  docs,       \* name -> the configuration its install document was rendered from
  ignored,    \* .gitignore lists the local state
  command,    \* the command in progress
  reported,   \* what the last one returned
  commands

vars == <<git, identity, manifest, locks, docs, ignored, command, reported, commands>>

ManifestSchema == 7
Idle == [pc |-> "idle", name |-> None, option |-> None, created |-> FALSE]
NoRepositories == [n \in {} |-> None]

-----------------------------------------------------------------------------
(* The validations.                                                        *)
Formats == {"pypi", "deb", "helm", "raw", "rpm", "apk"}
SigningAlgorithm(format) ==
  CASE format = "apk" -> "apk" [] format \in {"deb", "helm", "rpm"} -> "openpgp" [] OTHER -> None
ImplementsSigning(format) == format \in {"deb", "helm", "rpm", "apk"}

Supports(host, format) ==
  CASE host = "s3" -> format \in {"pypi", "helm", "rpm", "raw"}
    [] host \in {"local", "rsync", "github-pages"} -> format \in Formats
    [] OTHER -> FALSE
InstallDocument(c) == c.host # "local" /\ Supports(c.host, c.format)

Https(endpoint) == endpoint \in {"https", "loopback"}

(* A configuration's "foreign" says a field of another host type is set.   *)
validLocal(c) == c.place # <<>> /\ ~c.foreign /\ ~c.readAuth /\ c.endpoint # "bad"
validRsync(c) ==
  /\ Supports("rsync", c.format) /\ ~c.foreign
  /\ Len(c.place) > 1
  /\ c.visibility = "public" /\ c.endpoint # "bad"
validS3(c) ==
  /\ Supports("s3", c.format) /\ ~c.foreign
  /\ c.readAuth = (c.visibility = "private")
  /\ c.place # <<>> /\ Https(c.endpoint)
validPages(c) ==
  /\ Supports("github-pages", c.format) /\ ~c.foreign
  /\ c.visibility = "public" /\ ~c.readAuth
  /\ Len(c.place) = 2 /\ Https(c.endpoint)
  /\ c.preview = <<>> => c.gate = "auto"
  /\ c.preview # <<>> => Len(c.preview) = 2 /\ c.preview[1] # c.place[1]

validateRepositoryHost(c) ==
  /\ c.keep >= 0 /\ c.visibility \in {"public", "private"}
  /\ CASE c.host = "local" -> validLocal(c)
       [] c.host = "rsync" -> validRsync(c)
       [] c.host = "s3" -> validS3(c)
       [] c.host = "github-pages" -> validPages(c)
       [] OTHER -> FALSE

(* approvers: "none", a "sorted" list of Ed25519 keys, or an "invalid" one *)
validateGateConfiguration(c, workspace) ==
  /\ c.gate \in {"auto", "pr", "approval"}
  /\ c.gate = "pr" => workspace.repository
  /\ c.approvers = (IF c.gate = "approval" THEN "sorted" ELSE "none")

validateRepositorySigning(c) ==
  IF c.key = None THEN c.keyring = "none"
  ELSE /\ ImplementsSigning(c.format)
       /\ c.key \in DOMAIN KeysHeld /\ KeysHeld[c.key] = SigningAlgorithm(c.format)
       /\ c.keyring \in {"repository", "key"}

SelfHosted == {"forgejo", "gitea"}
validateForgeIdentity(workspace) ==
  /\ workspace.forge \in {"", "github", "gitlab", "none"} \cup SelfHosted
  /\ workspace.forge \in SelfHosted /\ workspace.repository => workspace.host
  /\ workspace.forge \notin {"", "none"} => workspace.repository

Valid(c, workspace) ==
  /\ c.format \in Formats /\ c.track \notin {"", "invalid"}
  /\ validateGateConfiguration(c, workspace)
  /\ validateRepositoryHost(c)
  /\ validateRepositorySigning(c)

(* LoadManifest brings an older schema up to date and then validates it.   *)
(* A schema 1 repository has a format, a gate and a local path, no more.   *)
migrateLegacyManifest(c) ==
  [c EXCEPT !.host = "local", !.visibility = "public", !.key = None, !.keyring = "none",
            !.foreign = FALSE, !.readAuth = FALSE, !.endpoint = "", !.preview = <<>>,
            !.approvers = "none", !.keep = 0, !.track = ""]

Upgraded(schema, c) ==
  LET signed == IF schema = 1 THEN migrateLegacyManifest(c)
                ELSE IF schema = 5 /\ c.key # None /\ c.keyring = "none"
                THEN [c EXCEPT !.keyring = "key"] ELSE c
  IN  IF schema < ManifestSchema /\ signed.track = "" THEN [signed EXCEPT !.track = "stable"] ELSE signed

LoadManifest(m) ==
  [schema |-> ManifestSchema, workspace |-> m.workspace,
   repositories |-> [n \in DOMAIN m.repositories |-> Upgraded(m.schema, m.repositories[n])]]

Loads(m) ==
  /\ m.schema \in 1 .. ManifestSchema
  /\ validateForgeIdentity(m.workspace)
  /\ \A n \in DOMAIN m.repositories : Valid(LoadManifest(m).repositories[n], m.workspace)

-----------------------------------------------------------------------------
publicationTargets(c) ==
  {<<c.host>> \o c.place} \cup
  (IF c.host = "github-pages" /\ c.preview # <<>> THEN {<<c.host>> \o c.preview} ELSE {})

(* Mutation: only the same target is an overlap.                           *)
targetsOverlapSame(left, right) == left = right

(* A prefix of whole path segments.  The rendered target of a bucket's     *)
(* root ends in a slash of its own, and is no prefix of anything.          *)
targetsOverlap(left, right) ==
  \/ left = right
  \/ (Len(left) > 2 \/ left[1] # "s3") /\ IsStrictPrefix(left, right)
  \/ (Len(right) > 2 \/ right[1] # "s3") /\ IsStrictPrefix(right, left)

checkPublicationTargets(m, n, c) ==
  \A other \in DOMAIN m.repositories \ {n} :
    \A left \in publicationTargets(c), right \in publicationTargets(m.repositories[other]) :
      ~targetsOverlap(left, right)

-----------------------------------------------------------------------------
Init ==
  /\ manifest \in {None} \cup Legacy
  /\ git \in IF manifest = None THEN {"none", "created"} ELSE {"committed"}
  /\ identity \in BOOLEAN
  /\ locks = IF manifest = None THEN {} ELSE DOMAIN manifest.repositories
  /\ docs = [n \in Names |->
               IF manifest # None /\ n \in locks /\ InstallDocument(manifest.repositories[n])
               THEN LoadManifest(manifest).repositories[n] ELSE None]
  /\ ignored = (manifest # None)
  /\ command = Idle
  /\ reported = "none"
  /\ commands = 0

Go(pc) == command' = [command EXCEPT !.pc = pc] /\ UNCHANGED reported
Return(result) == command' = Idle /\ reported' = result

Begin(pc, n, o) ==
  /\ command.pc = "idle" /\ commands < MaxCommands
  /\ commands' = commands + 1
  /\ reported' = "none"
  /\ command' = [Idle EXCEPT !.pc = pc, !.name = n, !.option = o]
  /\ UNCHANGED <<git, identity, manifest, locks, docs, ignored>>

InitWorkspace(w) == Begin("git", None, w)
SetupRepository(n, o) == Begin("setup", n, o)

(* A repository this call created is one it may commit to; the caller may  *)
(* have asked for none to be created.                                      *)
CreateGitRepository ==
  /\ command.pc = "git"
  /\ \/ /\ git = "none"
        /\ Return("refused")
        /\ UNCHANGED git
     \/ /\ git' = IF git = "none" THEN "created" ELSE git
        /\ command' = [command EXCEPT !.pc = "init", !.created = (git = "none")]
        /\ UNCHANGED reported
  /\ UNCHANGED <<identity, manifest, locks, docs, ignored, commands>>

InitWritesManifest ==
  /\ command.pc = "init"
  /\ IF ~validateForgeIdentity(command.option) \/ manifest # None
     THEN Return("refused") /\ UNCHANGED manifest
     ELSE /\ manifest' = [schema |-> ManifestSchema, workspace |-> command.option,
                          repositories |-> NoRepositories]
          /\ Go("ignore")
  /\ UNCHANGED <<git, identity, locks, docs, ignored, commands>>

ensureGitignore ==
  /\ command.pc = "ignore"
  /\ ignored' = TRUE
  /\ IF ~command.created THEN Return("initialised")
     ELSE IF ~identity THEN Return("pending") ELSE Go("commit")
  /\ UNCHANGED <<git, identity, manifest, locks, docs, commands>>

CommitAll ==
  /\ command.pc = "commit"
  /\ git' = "committed"
  /\ Return("initialised")
  /\ UNCHANGED <<identity, manifest, locks, docs, ignored, commands>>

(* What Setup fills in before it validates.                                *)
Defaulted(o) ==
  [o EXCEPT !.host = IF @ = "" THEN "local" ELSE @, !.track = IF @ = "" THEN "stable" ELSE @,
            !.gate = IF @ = "" THEN "auto" ELSE @,
            !.visibility = IF @ = "" THEN "public" ELSE @,
            !.keyring = IF o.key # None THEN "repository" ELSE "none"]

SetupAccepts(n, o, c, m) ==
  /\ o.format \in Formats
  /\ ImplementsSigning(o.format) /\ o.key = None => o.unsigned
  /\ n \notin DOMAIN m.repositories
  /\ checkPublicationTargets(m, n, c)
  /\ validateRepositoryHost(c)
  /\ validateGateConfiguration(c, m.workspace)
  /\ validateRepositorySigning(c)
  /\ n \notin locks

SetupValidates ==
  /\ command.pc = "setup"
  /\ IF /\ git # "none" /\ manifest # None /\ Loads(manifest)
        /\ SetupAccepts(command.name, command.option, Defaulted(command.option), LoadManifest(manifest))
     THEN Go("lock") ELSE Return("refused")
  /\ UNCHANGED <<git, identity, manifest, locks, docs, ignored, commands>>

WriteLock ==
  /\ command.pc = "lock"
  /\ locks' = locks \cup {command.name}
  /\ Go("document")
  /\ UNCHANGED <<git, identity, manifest, docs, ignored, commands>>

writeInstallDocument ==
  /\ command.pc = "document"
  /\ docs' = IF InstallDocument(Defaulted(command.option))
             THEN [docs EXCEPT ![command.name] = Defaulted(command.option)] ELSE docs
  /\ Go("manifest")
  /\ UNCHANGED <<git, identity, manifest, locks, ignored, commands>>

WriteManifest ==
  /\ command.pc = "manifest"
  /\ LET m == LoadManifest(manifest)
         c == Defaulted(command.option)
         after == [m EXCEPT !.repositories = [n \in DOMAIN m.repositories \cup {command.name} |->
                                                IF n = command.name THEN c ELSE m.repositories[n]]]
     IN  IF Loads(after) THEN manifest' = after /\ Return("added")
         ELSE UNCHANGED manifest /\ Return("refused")
  /\ UNCHANGED <<git, identity, locks, docs, ignored, commands>>

(* The command is interrupted, or a write of its next step fails.          *)
Interrupted ==
  /\ command.pc # "idle"
  /\ Return("failed")
  /\ UNCHANGED <<git, identity, manifest, locks, docs, ignored, commands>>

(* The operator: removes a lock no repository names, configures git.       *)
RemoveOrphan(n) ==
  /\ command.pc = "idle" /\ commands < MaxCommands
  /\ n \in locks /\ manifest # None /\ n \notin DOMAIN manifest.repositories
  /\ locks' = locks \ {n}
  /\ UNCHANGED <<git, identity, manifest, docs, ignored, command, reported, commands>>

Next ==
  \/ \E w \in Workspaces : InitWorkspace(w)
  \/ \E n \in Names, o \in Options : SetupRepository(n, o)
  \/ CreateGitRepository \/ InitWritesManifest \/ ensureGitignore \/ CommitAll
  \/ SetupValidates \/ WriteLock \/ writeInstallDocument \/ WriteManifest
  \/ Interrupted
  \/ \E n \in Names : RemoveOrphan(n)

Spec == Init /\ [][Next]_vars

-----------------------------------------------------------------------------
AtRoot(target) == target[1] = "s3" /\ Len(target) = 2
Nested(left, right) == IsPrefix(left, right) /\ (left = right \/ ~AtRoot(left))

(* Whatever was interrupted, the workspace on disk is one the next command *)
(* can read and publish from: the manifest loads; every repository it      *)
(* names has its lock and, where its host serves one, the install document *)
(* of its configuration; and no two repositories own the same place or one *)
(* inside the other's, a bucket's root aside; and init returns without an  *)
(* error only when the local state is kept out of Git.  (store.go Setup,   *)
(* Init, checkPublicationTargets, LoadManifest.)                           *)
WorkspaceUsable ==
  manifest # None =>
    LET m == LoadManifest(manifest)
        repositories == m.repositories
    IN  /\ Loads(manifest)
        /\ DOMAIN repositories \subseteq locks
        /\ \A n \in DOMAIN repositories : InstallDocument(repositories[n]) => docs[n] = repositories[n]
        /\ \A n, o \in DOMAIN repositories : n # o =>
             \A left \in publicationTargets(repositories[n]),
                right \in publicationTargets(repositories[o]) : ~Nested(left, right)
        /\ reported \in {"initialised", "pending"} => ignored
=============================================================================
