--------------------------- MODULE SigningRotation ---------------------------
(***************************************************************************)
(* Replacing a repository's signing key while clients keep trusting it     *)
(* (engine/rotation.go, engine/signing.go, internal/state/deployment.go).  *)
(*                                                                         *)
(* A stable repository is signed by its base key.  Introducing still signs *)
(* with it and serves both keys; activated signs with the successor and    *)
(* serves both; then the successor is the base key and alone.  A phase is  *)
(* entered in the manifest, published by an apply, and recorded with the   *)
(* time since which clients can have seen it.                              *)
(*                                                                         *)
(* Time is discrete.  A client holds the keys of the publication it last   *)
(* refreshed from, can refresh only from one it can verify, and does so    *)
(* more often than the minimum refresh the rotation names.  The manifest   *)
(* may also be edited or reverted by hand, to anything LoadManifest        *)
(* accepts.                                                                *)
(***************************************************************************)
EXTENDS Integers, Sequences, FiniteSets

CONSTANTS
  Keys, First,     \* signing keys; the one the repository starts with
  None,
  MinimumRefresh,  \* MinimumRefreshSeconds
  Margin,          \* the two hours a publication may take
  Clients,
  Expiries,        \* the expiry times Init chooses from
  MaxBack,         \* restores in a row: one is offered, more are possible
  MaxTime, MaxNative   \* bounds

VARIABLES
  now,
  expires,     \* key -> time
  manifest,    \* [base, successor, phase]
  deployment,  \* the committed receipt: [signing, native, since]
  published,   \* every publication made: sequence of [signing, previous]
  live,        \* the one that is served, an index of published
  apply,       \* the apply in progress
  client,      \* client -> [keyring, at]
  back         \* restores since the last publication

vars == <<now, expires, manifest, deployment, published, live, apply, client, back>>

NoApply == [pc |-> "none", signing |-> None, observed |-> 0, native |-> 0, at |-> 0]

(* repositorySigningState                                                  *)
SigningState(m) ==
  [active  |-> IF m.phase = "activated" THEN m.successor ELSE m.base,
   trusted |-> IF m.phase = "" THEN <<m.base>> ELSE <<m.base, m.successor>>,
   phase   |-> m.phase]

Stable(k) == [base |-> k, successor |-> None, phase |-> ""]

Manifests ==
  {Stable(k) : k \in Keys} \union
  {m \in [base : Keys, successor : Keys, phase : {"introducing", "activated"}] : m.base # m.successor}

Init ==
  /\ now = 0
  /\ expires \in [Keys -> Expiries]
  /\ manifest = Stable(First)
  /\ deployment = [signing |-> SigningState(manifest), native |-> 1, since |-> 0]
  /\ published = <<[signing |-> SigningState(manifest), previous |-> 0]>> /\ live = 1
  /\ apply = NoApply
  /\ client = [c \in Clients |-> [keyring |-> {First}, at |-> 0]]
  /\ back = 0

Served == published[live].signing
Elapsed(since) == now >= since + MinimumRefresh

-----------------------------------------------------------------------------
(* RotateKey: the stable state must have been deployed, and both keys must *)
(* outlive the introduction, the successor its overlap too.                *)
RotateKey(k) ==
  /\ apply = NoApply /\ manifest.phase = "" /\ k # manifest.base
  /\ deployment.signing = SigningState(manifest)
  /\ expires[manifest.base] >= now + MinimumRefresh + Margin
  /\ expires[k] >= now + 2 * MinimumRefresh + Margin
  /\ manifest' = [base |-> manifest.base, successor |-> k, phase |-> "introducing"]
  /\ UNCHANGED <<now, expires, deployment, published, live, apply, client, back>>

(* advanceKeyRotation and validateRotationAdvanceValidity.                 *)
AdvanceKeyRotation ==
  /\ apply = NoApply /\ manifest.phase # ""
  /\ deployment.signing = SigningState(manifest)
  /\ Elapsed(deployment.since)
  /\ \/ /\ manifest.phase = "introducing"
        /\ expires[manifest.base] >= now + Margin
        /\ expires[manifest.successor] >= now + MinimumRefresh + Margin
        /\ manifest' = [manifest EXCEPT !.phase = "activated"]
     \/ /\ manifest.phase = "activated"
        /\ expires[manifest.successor] >= now + Margin
        /\ manifest' = Stable(manifest.successor)
  /\ UNCHANGED <<now, expires, deployment, published, live, apply, client, back>>

EditManifest(m) ==
  /\ apply = NoApply /\ m # manifest
  /\ manifest' = m
  /\ UNCHANGED <<now, expires, deployment, published, live, apply, client, back>>

-----------------------------------------------------------------------------
(* Mutation: the successor's overlap is left out.                          *)
ValidityOfIntroduction(m) ==
  m.phase = "introducing" =>
    /\ expires[m.base] >= now + MinimumRefresh + Margin
    /\ expires[m.successor] >= now + MinimumRefresh + Margin

validateRotationKeyValidity(m) ==
  CASE m.phase = "introducing" ->
         /\ expires[m.base] >= now + MinimumRefresh + Margin
         /\ expires[m.successor] >= now + 2 * MinimumRefresh + Margin
    [] m.phase = "activated" -> expires[m.successor] >= now + MinimumRefresh + Margin
    [] OTHER -> TRUE

(* Mutation: the deployed receipt is believed without looking at what is   *)
(* served.                                                                 *)
TransitionUnobserved(desired) ==
  LET deployed == deployment.signing
  IN  \/ deployed = desired
      \/ \/ desired.phase = "introducing" /\ deployed.phase = ""
             /\ deployed.active = desired.active /\ deployed.trusted = <<desired.trusted[1]>>
         \/ desired.phase = "activated" /\ deployed.phase = "introducing"
             /\ deployed.active = desired.trusted[1] /\ deployed.trusted = desired.trusted
             /\ Elapsed(deployment.since)
         \/ desired.phase = "" /\ deployed.phase = "activated"
             /\ deployed.active = desired.active /\ deployed.trusted[2] = desired.active
             /\ Elapsed(deployment.since)

(* validateRepositorySigningTransition, of a repository that was deployed. *)
Transition(desired) ==
  LET deployed == deployment.signing
  IN  \/ deployed = desired
      \/ /\ deployment.native = live
         /\ \/ desired.phase = "introducing" /\ deployed.phase = ""
                /\ deployed.active = desired.active /\ deployed.trusted = <<desired.trusted[1]>>
            \/ desired.phase = "activated" /\ deployed.phase = "introducing"
                /\ deployed.active = desired.trusted[1] /\ deployed.trusted = desired.trusted
                /\ Elapsed(deployment.since)
            \/ desired.phase = "" /\ deployed.phase = "activated"
                /\ deployed.active = desired.active /\ deployed.trusted[2] = desired.active
                /\ Elapsed(deployment.since)

(* prepareRepository: what an apply checks before it publishes, and the    *)
(* signature it makes (applyRepositorySigning).                            *)
ApplyOpens ==
  /\ apply = NoApply /\ Len(published) < MaxNative
  /\ validateRotationKeyValidity(manifest)
  /\ Transition(SigningState(manifest))
  /\ now < expires[SigningState(manifest).active]
  /\ apply' = [pc |-> "checked", signing |-> SigningState(manifest), observed |-> live,
               native |-> 0, at |-> now]
  /\ UNCHANGED <<now, expires, manifest, deployment, published, live, client, back>>

(* Commit, conditional on the observed revision.                           *)
ApplyCommits ==
  /\ apply.pc = "checked"
  /\ IF live = apply.observed
       THEN /\ published' = Append(published, [signing |-> apply.signing, previous |-> live])
            /\ live' = Len(published')
            /\ apply' = [apply EXCEPT !.pc = "committed", !.native = live']
            /\ back' = 0
       ELSE /\ apply' = NoApply
            /\ UNCHANGED <<published, live, back>>
  /\ UNCHANGED <<now, expires, manifest, deployment, client>>

(* deploymentRecordFor keeps the trust time of the previous receipt only   *)
(* for the same signing state over a publication nothing came between.     *)
TrustContinues == deployment.native = apply.observed /\ deployment.signing = apply.signing

(* recordDeployment and the commit of the receipt.                         *)
ApplyRecords ==
  /\ apply.pc = "committed"
  /\ deployment' = [signing |-> apply.signing, native |-> apply.native,
                    since |-> IF TrustContinues THEN deployment.since ELSE now]
  /\ apply' = NoApply
  /\ UNCHANGED <<now, expires, manifest, published, live, client, back>>

ApplyDies ==
  /\ apply # NoApply
  /\ apply' = NoApply
  /\ UNCHANGED <<now, expires, manifest, deployment, published, live, client, back>>

(* RollbackRepository, from this or another clone: the publication the     *)
(* live one superseded is served again; the receipt and the manifest stay. *)
Rollback ==
  /\ published[live].previous # 0 /\ back < MaxBack
  /\ live' = published[live].previous
  /\ back' = back + 1
  /\ UNCHANGED <<now, expires, manifest, deployment, published, apply, client>>

-----------------------------------------------------------------------------
Refresh(c) ==
  /\ Served.active \in client[c].keyring
  /\ client' = [client EXCEPT ![c] =
       [keyring |-> {Served.trusted[i] : i \in DOMAIN Served.trusted}, at |-> now]]
  /\ UNCHANGED <<now, expires, manifest, deployment, published, live, apply, back>>

(* Clients refresh in time, and an apply takes less than the margin.       *)
Tick ==
  /\ now < MaxTime
  /\ \A c \in Clients : now + 1 - client[c].at < MinimumRefresh
  /\ apply # NoApply => now + 1 - apply.at <= Margin
  /\ now' = now + 1
  /\ UNCHANGED <<expires, manifest, deployment, published, live, apply, client, back>>

Next ==
  \/ \E k \in Keys : RotateKey(k)
  \/ AdvanceKeyRotation
  \/ \E m \in Manifests : EditManifest(m)
  \/ ApplyOpens \/ ApplyCommits \/ ApplyRecords \/ ApplyDies
  \/ Rollback \/ Tick
  \/ \E c \in Clients : Refresh(c)

Spec == Init /\ [][Next]_vars

-----------------------------------------------------------------------------
(* Every client can verify what is served: through every rotation, crash   *)
(* between a publication and its receipt, hand-edited manifest and restore *)
(* (one before each publication), the signing key is one the client has.   *)
ClientsVerify == \A c \in Clients : Served.active \in client[c].keyring

(* A phase that is recorded as deployed can be completed: the keys outlive *)
(* the window that has to pass before the next one.                        *)
PhaseCompletes ==
  /\ deployment.signing.phase = "introducing" =>
       /\ expires[deployment.signing.trusted[1]] >= deployment.since + MinimumRefresh
       /\ expires[deployment.signing.trusted[2]] >= deployment.since + 2 * MinimumRefresh
  /\ deployment.signing.phase = "activated" =>
       expires[deployment.signing.active] >= deployment.since + MinimumRefresh
=============================================================================
