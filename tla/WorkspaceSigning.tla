-------------------------- MODULE WorkspaceSigning --------------------------
(***************************************************************************)
(* The parts of a workspace that sign: key rotation and the key store, each *)
(* an instance of its module, with the properties that are its own.        *)
(***************************************************************************)
EXTENDS Workspace

CONSTANTS
  RotationKeys, FirstKey, MinimumRefresh, Margin, Refreshers, Expiries,             \* rotation
  MaxBack, MaxTime, MaxNative,
  KeyNames, MaxGeneration, MaxKeyFaults                                          \* keys

(* Times are whole; a client has time to refresh.                          *)
ASSUME TimesAssumption ==
  /\ MinimumRefresh \in Nat \ {0} /\ Margin \in Nat
  /\ Expiries \subseteq Nat /\ FirstKey \in RotationKeys

(* The mark is no generation of a key.                                     *)
ASSUME GenerationsAssumption == None \notin Nat

VARIABLES
  now, expires, phases, deployment, published, live, apply, client, back,  \* rotation
  private, public, keys, signing, generation, keyCommand                   \* keys

Rotation == INSTANCE SigningRotation WITH
  Keys <- RotationKeys, First <- FirstKey, Clients <- Refreshers, manifest <- phases

Keys == INSTANCE SigningKeys WITH
  Names <- KeyNames, MaxFaults <- MaxKeyFaults, cmd <- keyCommand

rotationVars == <<now, expires, phases, deployment, published, live, apply, client, back>>
keyVars == <<private, public, keys, signing, generation, keyCommand>>

----------------------------------------------------------------------------
(* rotation: a client that refreshes in time can verify what is served,    *)
(* through rotations, crashes, edits of the manifest and restores.         *)
ClientsVerify == part = "rotation" => Rotation!ClientsVerify

(* rotation: the keys of a deployed phase outlive the window that has to   *)
(* pass before the next phase (validateRotationKeyValidity).               *)
PhaseCompletes == part = "rotation" => Rotation!PhaseCompletes

(* keys: every key the manifest names is in the key store, at the          *)
(* generation the manifest records, whichever write failed.                *)
NamedKeyHeld == part = "keys" => Keys!NamedKeyHeld

(* keys: a command that failed or died can be run again: no public form    *)
(* is left over from a private key that is gone.                           *)
Retryable == part = "keys" => Keys!Retryable
=============================================================================
