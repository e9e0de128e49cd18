--------------------------- MODULE SigningProofs ----------------------------
(***************************************************************************)
(* Proofs about rotation and the key store, for all values of the constants *)
(* and any number of faults.                                               *)
(***************************************************************************)
EXTENDS WorkspaceSigning, Sequences, TLAPS

----------------------------------------------------------------------------
(* Signing keys *)

Generations == Nat \union {None}
Forms == Keys!Forms
Steps == {"prepare", "lstat", "binary", "armor", "validity", "manifest", "undo", "fail", "done"}
KeyCommands ==
  [op : {"new", "rotate", "publish"}, name : KeyNames, step : Steps, key : Generations,
   createdPrivate : BOOLEAN, created : SUBSET Forms, failed : BOOLEAN]

KeyType ==
  /\ private \in [KeyNames -> Generations]
  /\ public \in [KeyNames -> [Forms -> Generations]]
  /\ keys \in [KeyNames -> Generations]
  /\ signing \in [active : KeyNames \union {None}, successor : KeyNames \union {None}]
  /\ generation \in Nat
  /\ keyCommand = Keys!Idle \/ keyCommand \in KeyCommands

(* What a running command knows by the step it has reached: the key it     *)
(* holds is the stored one; a key it generated is not in the manifest, and *)
(* has no public form but those the command will remove if it fails.       *)
CommandInv(c) ==
  /\ c.step \in {"lstat", "binary", "armor", "validity", "manifest"} =>
       c.key = private[c.name] /\ c.key # None
  /\ c.step = "prepare" => ~c.createdPrivate
  /\ c.createdPrivate /\ c.step # "done" =>
       /\ keys[c.name] = None
       /\ \A f \in Forms : public[c.name][f] = None \/ (c.step \notin {"lstat", "fail"} /\ f \in c.created)
       /\ c.step \in {"binary", "armor"} => c.created = Forms

KeyInv ==
  /\ KeyType
  /\ Keys!NamedKeyHeld
  /\ Keys!Retryable
  /\ keyCommand # Keys!Idle => CommandInv(keyCommand)

(* The store is empty at first.                                            *)
LEMMA KeyInit == Keys!Init => KeyInv
BY GenerationsAssumption DEF Keys!Init, KeyInv, KeyType, Generations, Forms, Keys!Forms, Keys!Idle, Keys!Unsigned,
     Keys!NamedKeyHeld, Keys!Retryable

(* A command that goes on, or whose call failed, is a command.             *)
LEMMA CommandAt ==
  ASSUME NEW c \in KeyCommands, NEW x \in Steps
  PROVE  /\ [c EXCEPT !.step = x] \in KeyCommands
         /\ [c EXCEPT !.step = x, !.failed = TRUE] \in KeyCommands
BY Zenon DEF KeyCommands

(* So is one that found or generated its key.                              *)
LEMMA CommandKey ==
  ASSUME NEW c \in KeyCommands, NEW x \in Steps, NEW k \in Generations
  PROVE  /\ [c EXCEPT !.step = x, !.key = k] \in KeyCommands
         /\ [c EXCEPT !.step = x, !.key = k, !.createdPrivate = TRUE] \in KeyCommands
BY ZenonT(60) DEF KeyCommands

(* So is one that noted which public forms are its own.                    *)
LEMMA CommandCreated ==
  ASSUME NEW c \in KeyCommands, NEW x \in Steps, NEW F \in SUBSET Forms
  PROVE  /\ [c EXCEPT !.step = x, !.created = F] \in KeyCommands
         /\ [c EXCEPT !.created = F] \in KeyCommands
BY Zenon DEF KeyCommands

(* A step of the running command keeps its type.                           *)
LEMMA KeyStepType == KeyType /\ [Keys!Next]_(Keys!vars) => KeyType'
<1> SUFFICES ASSUME KeyType, [Keys!Next]_(Keys!vars) PROVE KeyType'
  OBVIOUS
<1> USE GenerationsAssumption DEF KeyType, Generations, Forms, Keys!Forms
<1>1. ASSUME NEW n \in KeyNames, Keys!NewKey(n) \/ Keys!RotateKey(n) \/ Keys!PublishKey(n) PROVE KeyType'
  <2>1. Keys!Command("new", n) \in KeyCommands /\ Keys!Command("publish", n) \in KeyCommands
        /\ Keys!Command("rotate", n) \in KeyCommands
    BY DEF Keys!Command, KeyCommands, Steps
  <2>2. keys[n] \in Generations
    BY DEF KeyType
  <2>3. keyCommand' \in KeyCommands
    <3>1. \A x \in Steps : /\ [Keys!Command("rotate", n) EXCEPT !.step = x, !.key = keys[n]] \in KeyCommands
                           /\ [Keys!Command("publish", n) EXCEPT !.step = x, !.key = keys[n]] \in KeyCommands
      BY <2>1, <2>2, CommandKey, Zenon
    <3>2. "prepare" \in Steps /\ "validity" \in Steps /\ "binary" \in Steps
      BY DEF Steps
    <3> QED
      BY <1>1, <2>1, <3>1, <3>2, Zenon DEF Keys!NewKey, Keys!RotateKey, Keys!PublishKey
  <2> QED
    BY <1>1, <2>3 DEF Keys!NewKey, Keys!RotateKey, Keys!PublishKey
<1>2. ASSUME NEW n \in KeyNames, Keys!AttachKey(n) \/ Keys!DiscardManifest(n) PROVE KeyType'
  BY <1>2 DEF Keys!AttachKey, Keys!DiscardManifest, Keys!Unsigned
<1>3. CASE Keys!prepareSigningKey
  <2>1. keyCommand \in KeyCommands /\ keyCommand.name \in KeyNames
    BY <1>3 DEF Keys!prepareSigningKey, Keys!Running, Keys!Idle, KeyCommands
  <2>2. private[keyCommand.name] \in Generations
    BY <2>1
  <2>3. CASE private[keyCommand.name] # None
    <3>1. [keyCommand EXCEPT !.step = "lstat", !.key = private[keyCommand.name]] \in KeyCommands
      BY <2>1, <2>2, CommandKey, Zenon DEF Steps
    <3> QED
      BY <1>3, <2>3, <3>1 DEF Keys!prepareSigningKey
  <2>4. CASE private[keyCommand.name] = None
    <3>1. generation' \in Nat
      BY <1>3, <2>4 DEF Keys!prepareSigningKey
    <3>2. private' \in [KeyNames -> Generations]
      BY <1>3, <2>1, <2>4, <3>1 DEF Keys!prepareSigningKey
    <3>3. keyCommand' \in KeyCommands
      <4>1. [keyCommand EXCEPT !.step = "lstat", !.key = generation', !.createdPrivate = TRUE] \in KeyCommands
        BY <2>1, <3>1, CommandKey, Zenon DEF Steps
      <4>2. [keyCommand EXCEPT !.step = "fail", !.failed = TRUE] \in KeyCommands
        BY <2>1, CommandAt, Zenon DEF Steps
      <4> QED
        BY <1>3, <2>4, <4>1, <4>2 DEF Keys!prepareSigningKey, Keys!Fails
    <3> QED
      BY <1>3, <3>1, <3>2, <3>3 DEF Keys!prepareSigningKey
  <2> QED
    BY <2>3, <2>4
<1>4. CASE Keys!RecordAbsent
  BY <1>4, Zenon DEF Keys!RecordAbsent, Keys!Running, Keys!Idle, KeyCommands, Steps
<1>5. ASSUME NEW f \in Forms, Keys!WriteSigningPublic(f) PROVE KeyType'
  <2>1. keyCommand \in KeyCommands
    BY <1>5 DEF Keys!WriteSigningPublic, Keys!Running, Keys!Idle
  <2>2. keyCommand' \in KeyCommands
    <3>1. keyCommand.op \in {"new", "rotate", "publish"}
      BY <2>1 DEF KeyCommands
    <3>2. PICK x \in Steps : keyCommand' \in {[keyCommand EXCEPT !.step = x],
                                              [keyCommand EXCEPT !.step = x, !.failed = TRUE]}
      BY <1>5, <3>1 DEF Keys!WriteSigningPublic, Keys!Goto, Keys!Fails, Steps
    <3>3. [keyCommand EXCEPT !.step = x] \in KeyCommands /\ [keyCommand EXCEPT !.step = x, !.failed = TRUE] \in KeyCommands
      BY <2>1, CommandAt, Zenon
    <3> QED
      BY <3>2, <3>3
  <2>3. public' \in [KeyNames -> [Forms -> Generations]]
    BY <1>5, <2>1 DEF Keys!WriteSigningPublic, KeyCommands
  <2> QED
    BY <1>5, <2>2, <2>3 DEF Keys!WriteSigningPublic
<1>6. CASE Keys!CheckValidity
  BY <1>6, Zenon DEF Keys!CheckValidity, Keys!Running, Keys!Goto, Keys!Idle, KeyCommands, Steps
<1>7. CASE Keys!WriteManifest
  <2>1. keyCommand \in KeyCommands /\ keyCommand.name \in KeyNames /\ keyCommand.key \in Generations
    BY <1>7 DEF Keys!WriteManifest, Keys!Running, Keys!Idle, KeyCommands
  <2>2. keyCommand' \in KeyCommands
    BY <1>7, <2>1, CommandAt, Zenon DEF Keys!WriteManifest, Keys!Goto, Keys!Fails, Steps
  <2>3. keys' \in [KeyNames -> Generations]
    BY <1>7, <2>1 DEF Keys!WriteManifest, Keys!Written
  <2>4. signing' \in [active : KeyNames \union {None}, successor : KeyNames \union {None}]
    BY <1>7, <2>1 DEF Keys!WriteManifest, Keys!Written
  <2> QED
    BY <1>7, <2>2, <2>3, <2>4 DEF Keys!WriteManifest
<1>8. CASE Keys!Rollback
  <2>1. keyCommand \in KeyCommands /\ keyCommand.name \in KeyNames /\ keyCommand.created \subseteq Forms
    BY <1>8 DEF Keys!Rollback, Keys!Running, Keys!Idle, KeyCommands
  <2>2. CASE keyCommand.created = {}
    BY <1>8, <2>1, <2>2, CommandAt, Zenon DEF Keys!Rollback, Keys!Goto, Steps
  <2>3. CASE keyCommand.created # {}
    <3>1. PICK f \in keyCommand.created :
            /\ public' = [public EXCEPT ![keyCommand.name][f] = None]
            /\ keyCommand' = [keyCommand EXCEPT !.created = @ \ {f}]
      BY <1>8, <2>3, Zenon DEF Keys!Rollback
    <3>2. keyCommand' = [keyCommand EXCEPT !.created = keyCommand.created \ {f}]
      BY <3>1
    <3>3. keyCommand' \in KeyCommands
      BY <2>1, <3>2, CommandCreated, Zenon DEF Steps
    <3>4. public' \in [KeyNames -> [Forms -> Generations]]
      BY <2>1, <3>1
    <3> QED
      BY <1>8, <3>3, <3>4 DEF Keys!Rollback
  <2> QED
    BY <2>2, <2>3
<1>9. CASE Keys!Delete \/ Keys!Return \/ Keys!Crash
  BY <1>9 DEF Keys!Delete, Keys!Return, Keys!Crash, Keys!Running, Keys!Idle, KeyCommands
<1>10. ASSUME NEW n \in KeyNames, NEW f \in Forms, Keys!CleanPublic(n, f) PROVE KeyType'
  BY <1>10 DEF Keys!CleanPublic
<1>11. CASE UNCHANGED Keys!vars
  BY <1>11 DEF Keys!vars
<1> QED
  BY <1>1, <1>2, <1>3, <1>4, <1>5, <1>6, <1>7, <1>8, <1>9, <1>10, <1>11 DEF Keys!Next

(* Each write leaves the four files in agreement, or leaves the command    *)
(* that made it able to undo it.                                           *)
LEMMA KeyStep == KeyInv /\ [Keys!Next]_(Keys!vars) => KeyInv'
<1> SUFFICES ASSUME KeyInv, [Keys!Next]_(Keys!vars) PROVE KeyInv'
  OBVIOUS
<1> DEFINE c == keyCommand
<1>0. KeyType /\ KeyType'
  BY KeyStepType DEF KeyInv
<1>a. c # Keys!Idle => c \in KeyCommands /\ CommandInv(c)
  BY <1>0 DEF KeyInv, KeyType
<1>b. ASSUME NEW x, Keys!Running(x) PROVE c \in KeyCommands /\ CommandInv(c) /\ c.step = x
  BY <1>a, <1>b DEF Keys!Running, Keys!Idle
<1> SUFFICES Keys!NamedKeyHeld' /\ Keys!Retryable' /\ (keyCommand' # Keys!Idle => CommandInv(keyCommand)')
  BY <1>0 DEF KeyInv, Keys!Idle
<1> DEFINE Goal == Keys!NamedKeyHeld' /\ Keys!Retryable' /\ (keyCommand' # Keys!Idle => CommandInv(keyCommand)')
<1> USE GenerationsAssumption
<1>1. ASSUME NEW n \in KeyNames, Keys!NewKey(n) \/ Keys!RotateKey(n) \/ Keys!PublishKey(n) PROVE Goal
  <2>1. Keys!NamedKeyHeld' /\ Keys!Retryable'
    BY <1>1 DEF KeyInv, Keys!NewKey, Keys!RotateKey, Keys!PublishKey, Keys!NamedKeyHeld, Keys!Retryable
  <2>2. CommandInv(keyCommand)'
    <3>1. CASE Keys!NewKey(n)
      BY <3>1 DEF Keys!NewKey, Keys!Command, CommandInv
    <3>2. CASE Keys!RotateKey(n)
      BY <1>0, <3>2 DEF Keys!RotateKey, Keys!Command, CommandInv, KeyInv, Keys!NamedKeyHeld
    <3>3. CASE Keys!PublishKey(n)
      BY <1>0, <3>3 DEF Keys!PublishKey, Keys!Command, CommandInv, KeyInv, Keys!NamedKeyHeld
    <3> QED
      BY <1>1, <3>1, <3>2, <3>3
  <2> QED
    BY <2>1, <2>2
<1>2. ASSUME NEW n \in KeyNames, Keys!AttachKey(n) \/ Keys!DiscardManifest(n) PROVE Goal
  BY <1>0, <1>2 DEF KeyInv, KeyType, Keys!AttachKey, Keys!DiscardManifest, Keys!Unsigned, Keys!NamedKeyHeld, Keys!Retryable
<1>3. CASE Keys!prepareSigningKey
  <2>1. c \in KeyCommands /\ CommandInv(c) /\ c.step = "prepare" /\ c.name \in KeyNames
    BY <1>3, <1>b DEF Keys!prepareSigningKey, KeyCommands
  <2>2. CASE private[c.name] # None
    <3>1. UNCHANGED <<private, public, keys, signing>>
          /\ keyCommand' = [c EXCEPT !.step = "lstat", !.key = private[c.name]]
      BY <1>3, <2>2 DEF Keys!prepareSigningKey
    <3>2. Keys!NamedKeyHeld' /\ Keys!Retryable'
      BY <3>1 DEF KeyInv, Keys!NamedKeyHeld, Keys!Retryable
    <3>3. CommandInv(keyCommand)'
      BY <2>1, <2>2, <3>1 DEF CommandInv, KeyCommands
    <3> QED
      BY <3>2, <3>3
  <2>3. CASE private[c.name] = None
    <3>1. generation' \in Nat /\ UNCHANGED <<public, keys, signing>>
          /\ private' \in {private, [private EXCEPT ![c.name] = generation']}
      BY <1>0, <1>3, <2>3 DEF Keys!prepareSigningKey, KeyType
    <3>2. keys[c.name] = None /\ \A f \in Forms : public[c.name][f] = None
      BY <2>1, <2>3 DEF KeyInv, Keys!NamedKeyHeld, Keys!Retryable, Forms
    <3>3. Keys!NamedKeyHeld' /\ Keys!Retryable'
      BY <1>0, <2>1, <3>1, <3>2 DEF KeyInv, KeyType, Keys!NamedKeyHeld, Keys!Retryable, Forms
    <3>4. CASE keyCommand' = [c EXCEPT !.step = "lstat", !.key = generation', !.createdPrivate = TRUE]
               /\ private' = [private EXCEPT ![c.name] = generation']
      BY <1>0, <2>1, <3>1, <3>2, <3>3, <3>4 DEF CommandInv, KeyCommands, KeyType
    <3>5. CASE keyCommand' = [c EXCEPT !.step = "fail", !.failed = TRUE]
      BY <1>0, <2>1, <3>1, <3>2, <3>3, <3>5 DEF CommandInv, KeyCommands
    <3> QED
      BY <1>3, <2>3, <3>4, <3>5 DEF Keys!prepareSigningKey, Keys!Fails
  <2> QED
    BY <2>2, <2>3
<1>4. CASE Keys!RecordAbsent
  <2>1. c \in KeyCommands /\ CommandInv(c) /\ c.step = "lstat" /\ c.name \in KeyNames
    BY <1>4, <1>b DEF Keys!RecordAbsent, KeyCommands
  <2>2. Keys!NamedKeyHeld' /\ Keys!Retryable'
    BY <1>4 DEF Keys!RecordAbsent, KeyInv, Keys!NamedKeyHeld, Keys!Retryable
  <2>3. CommandInv(keyCommand)'
    BY <1>4, <2>1 DEF Keys!RecordAbsent, CommandInv, KeyCommands, Forms
  <2> QED
    BY <2>2, <2>3
<1>5. ASSUME NEW f \in Forms, Keys!WriteSigningPublic(f) PROVE Goal
  <2>1. c \in KeyCommands /\ CommandInv(c) /\ c.step = f /\ c.name \in KeyNames
    BY <1>5, <1>b DEF Keys!WriteSigningPublic, KeyCommands
  <2>2. f \in {"binary", "armor"}
    BY DEF Forms, Keys!Forms
  <2>3. c.key = private[c.name] /\ c.key # None
    BY <2>1, <2>2 DEF CommandInv
  <2>4. UNCHANGED <<private, keys, signing>> /\ public' \in {public, [public EXCEPT ![c.name][f] = c.key]}
    BY <1>5 DEF Keys!WriteSigningPublic
  <2>5. Keys!NamedKeyHeld' /\ Keys!Retryable'
    BY <1>0, <2>1, <2>3, <2>4 DEF KeyInv, KeyType, Keys!NamedKeyHeld, Keys!Retryable, Forms
  <2>6. PICK x \in {"armor", "manifest", "validity", "done", "undo"} :
          keyCommand' \in {[c EXCEPT !.step = x], [c EXCEPT !.step = x, !.failed = TRUE]}
    <3>1. c.op \in {"new", "rotate", "publish"}
      BY <2>1 DEF KeyCommands
    <3> QED
      BY <1>5, <3>1 DEF Keys!WriteSigningPublic, Keys!Goto, Keys!Fails
  <2>7. /\ keyCommand'.step = x /\ keyCommand'.key = c.key /\ keyCommand'.name = c.name
        /\ keyCommand'.createdPrivate = c.createdPrivate /\ keyCommand'.created = c.created
    BY <2>1, <2>6, ZenonT(60) DEF KeyCommands
  <2>8. c.createdPrivate => /\ keys[c.name] = None /\ c.created = Forms
    BY <2>1, <2>2 DEF CommandInv
  <2>9. CommandInv(keyCommand)'
    BY <2>1, <2>3, <2>4, <2>6, <2>7, <2>8 DEF CommandInv
  <2> QED
    BY <2>5, <2>9
<1>6. CASE Keys!CheckValidity
  <2>1. c \in KeyCommands /\ CommandInv(c) /\ c.step = "validity"
    BY <1>6, <1>b DEF Keys!CheckValidity
  <2>2. PICK x \in {"manifest", "undo"} : keyCommand' = [c EXCEPT !.step = x]
    BY <1>6 DEF Keys!CheckValidity, Keys!Goto
  <2>3. Keys!NamedKeyHeld' /\ Keys!Retryable'
    BY <1>6 DEF Keys!CheckValidity, KeyInv, Keys!NamedKeyHeld, Keys!Retryable
  <2>4. CommandInv(keyCommand)'
    BY <1>6, <2>1, <2>2 DEF Keys!CheckValidity, CommandInv, KeyCommands
  <2> QED
    BY <2>3, <2>4
<1>7. CASE Keys!WriteManifest
  <2>1. c \in KeyCommands /\ CommandInv(c) /\ c.step = "manifest" /\ c.name \in KeyNames
    BY <1>7, <1>b DEF Keys!WriteManifest, KeyCommands
  <2>2. c.key = private[c.name] /\ c.key # None
    BY <2>1 DEF CommandInv
  <2>3. CASE Keys!Written /\ keyCommand' \in {[c EXCEPT !.step = "done"], [c EXCEPT !.step = "done", !.failed = TRUE]}
    <3>1. keyCommand'.step = "done"
      BY <2>1, <2>3, ZenonT(60) DEF KeyCommands
    <3>2. CommandInv(keyCommand)'
      BY <3>1 DEF CommandInv
    <3>3. Keys!NamedKeyHeld'
      BY <1>0, <1>7, <2>1, <2>2, <2>3 DEF Keys!WriteManifest, Keys!Written, KeyInv, KeyType, Keys!NamedKeyHeld
    <3>4. Keys!Retryable'
      BY <1>7 DEF Keys!WriteManifest, KeyInv, Keys!Retryable
    <3> QED
      BY <3>2, <3>3, <3>4
  <2>4. CASE UNCHANGED <<keys, signing>> /\ keyCommand' = [c EXCEPT !.step = "undo", !.failed = TRUE]
    BY <1>7, <2>1, <2>4 DEF Keys!WriteManifest, CommandInv, KeyCommands, KeyInv, Keys!NamedKeyHeld, Keys!Retryable
  <2> QED
    BY <1>7, <2>3, <2>4 DEF Keys!WriteManifest, Keys!Fails, Keys!Goto
<1>8. CASE Keys!Rollback
  <2>1. c \in KeyCommands /\ CommandInv(c) /\ c.step = "undo" /\ c.name \in KeyNames
    BY <1>8, <1>b DEF Keys!Rollback, KeyCommands
  <2>2. CASE c.created = {}
    <3>1. keyCommand' = [c EXCEPT !.step = "fail"] /\ UNCHANGED <<public, private, keys, signing>>
      BY <1>8, <2>2 DEF Keys!Rollback, Keys!Goto
    <3>2. Keys!NamedKeyHeld' /\ Keys!Retryable'
      BY <3>1 DEF KeyInv, Keys!NamedKeyHeld, Keys!Retryable
    <3>3. CommandInv(keyCommand)'
      BY <2>1, <2>2, <3>1 DEF CommandInv, KeyCommands
    <3> QED
      BY <3>2, <3>3
  <2>3. CASE c.created # {}
    <3>1. PICK f \in c.created : /\ public' = [public EXCEPT ![c.name][f] = None]
                                /\ keyCommand' = [c EXCEPT !.created = c.created \ {f}]
      BY <1>8, <2>3 DEF Keys!Rollback
    <3>2. UNCHANGED <<private, keys, signing>> /\ f \in Forms
      BY <1>8, <2>1, <3>1 DEF Keys!Rollback, KeyCommands
    <3>3. Keys!NamedKeyHeld' /\ Keys!Retryable'
      BY <1>0, <2>1, <3>1, <3>2 DEF KeyInv, KeyType, Keys!NamedKeyHeld, Keys!Retryable, Forms
    <3>4. CommandInv(keyCommand)'
      <4>1. /\ keyCommand'.step = "undo" /\ keyCommand'.name = c.name
            /\ keyCommand'.createdPrivate = c.createdPrivate /\ keyCommand'.created = c.created \ {f}
        BY <2>1, <3>1 DEF KeyCommands
      <4>2. \A g \in Forms : public'[c.name][g] = IF g = f THEN None ELSE public[c.name][g]
        BY <1>0, <2>1, <3>1, <3>2 DEF KeyType
      <4> QED
        BY <2>1, <3>2, <4>1, <4>2 DEF CommandInv
    <3> QED
      BY <3>3, <3>4
  <2> QED
    BY <2>2, <2>3
<1>9. CASE Keys!Delete
  <2>1. c \in KeyCommands /\ CommandInv(c) /\ c.step = "fail" /\ c.name \in KeyNames
    BY <1>9, <1>b DEF Keys!Delete, KeyCommands
  <2>2. c.createdPrivate => keys[c.name] = None /\ \A f \in Forms : public[c.name][f] = None
    BY <2>1 DEF CommandInv
  <2>3. UNCHANGED <<public, keys, signing>> /\ keyCommand' = Keys!Idle
        /\ (private' = private \/ (c.createdPrivate /\ private' = [private EXCEPT ![c.name] = None]))
    BY <1>9 DEF Keys!Delete
  <2> QED
    BY <1>0, <2>1, <2>2, <2>3 DEF KeyInv, KeyType, Keys!NamedKeyHeld, Keys!Retryable, Forms
<1>10. CASE Keys!Return \/ Keys!Crash
  BY <1>10 DEF Keys!Return, Keys!Crash, KeyInv, Keys!NamedKeyHeld, Keys!Retryable
<1>11. ASSUME NEW n \in KeyNames, NEW f \in Forms, Keys!CleanPublic(n, f) PROVE Goal
  BY <1>0, <1>11 DEF Keys!CleanPublic, KeyInv, KeyType, Keys!NamedKeyHeld, Keys!Retryable, Forms
<1>12. CASE UNCHANGED Keys!vars
  BY <1>12, <1>a DEF Keys!vars, KeyInv, Keys!NamedKeyHeld, Keys!Retryable, CommandInv, Keys!Idle
<1> QED
  BY <1>1, <1>2, <1>3, <1>4, <1>5, <1>6, <1>7, <1>8, <1>9, <1>10, <1>11, <1>12 DEF Keys!Next, Forms

(* THEOREM: every key the manifest names is in the key store, at the       *)
(* generation the manifest records, whichever write of NewKey or RotateKey *)
(* failed, wherever a process died, and whatever an operator discarded.    *)
THEOREM NamedKeysAreHeld == Keys!Spec => []NamedKeyHeld
<1>1. Keys!Spec => []KeyInv
  BY KeyInit, KeyStep, PTL DEF Keys!Spec
<1>2. KeyInv => NamedKeyHeld
  BY DEF KeyInv, NamedKeyHeld
<1> QED
  BY <1>1, <1>2, PTL

(* THEOREM: no public form on disk belongs to a private key that is gone   *)
(* or was replaced, so a command that failed or died can be run again.     *)
THEOREM KeyCommandsAreRetryable == Keys!Spec => []Retryable
<1>1. Keys!Spec => []KeyInv
  BY KeyInit, KeyStep, PTL DEF Keys!Spec
<1>2. KeyInv => Retryable
  BY DEF KeyInv, Retryable
<1> QED
  BY <1>1, <1>2, PTL

----------------------------------------------------------------------------
(* Key rotation *)

SigningStates == {Rotation!SigningState(m) : m \in Rotation!Manifests}
Publications == [signing : SigningStates, previous : Nat]
Applying == [pc : {"checked", "committed"}, signing : SigningStates, observed : Nat, native : Nat, at : Nat]

(* The keys a client that refreshes from a publication holds, and the one  *)
(* of them that signs when the rotation is over.                           *)
Trust(s) == {s.trusted[i] : i \in DOMAIN s.trusted}
Heir(s) == s.trusted[Len(s.trusted)]

RotationType ==
  /\ now \in Nat /\ expires \in [RotationKeys -> Nat] /\ phases \in Rotation!Manifests
  /\ published \in Seq(Publications) /\ live \in 1..Len(published) /\ back \in Nat
  /\ \A i \in 1..Len(published) : published[i].previous < i
  /\ deployment \in [signing : SigningStates, native : 1..Len(published), since : 0..now]
  /\ published[deployment.native].signing = deployment.signing
  /\ client \in [Refreshers -> [keyring : SUBSET RotationKeys, at : 0..now]]
  /\ \A c \in Refreshers : now < client[c].at + MinimumRefresh
  /\ apply = Rotation!NoApply \/ apply \in Applying
  /\ apply \in Applying => /\ apply.at <= now /\ now <= apply.at + Margin
                           /\ apply.observed \in 1..Len(published)
  /\ apply.pc = "committed" => /\ apply.native \in 1..Len(published)
                               /\ published[apply.native] = [signing |-> apply.signing, previous |-> apply.observed]

(* The keys of a phase entered at time t outlive it and the next, with the *)
(* margin a publication takes.                                             *)
Outlives(s, t) ==
  /\ s.phase = "introducing" => /\ expires[s.trusted[1]] >= t + MinimumRefresh + Margin
                                /\ expires[s.trusted[2]] >= t + 2 * MinimumRefresh + Margin
  /\ s.phase = "activated" => expires[s.active] >= t + MinimumRefresh + Margin

ApplyOutlives == apply \in Applying => Outlives(apply.signing, apply.at)

ValidityInv == Rotation!PhaseCompletes /\ ApplyOutlives

(* The signing state of a publication; those a restore can bring back now. *)
Signing(i) == published[i].signing
Reach == {i \in 1..Len(published) : i = live \/ (back = 0 /\ i = published[live].previous)}

(* s is the next phase after d.                                            *)
Follows(d, s) ==
  \/ s.phase = "introducing" /\ d.phase = "" /\ d.active = s.active /\ d.trusted = <<s.trusted[1]>>
  \/ s.phase = "activated" /\ d.phase = "introducing" /\ d.active = s.trusted[1] /\ d.trusted = s.trusted
  \/ s.phase = "" /\ d.phase = "activated" /\ d.active = s.active /\ d.trusted[2] = s.active

(* Whatever is served or can be brought back and s trust each other, and   *)
(* every client can verify s.                                              *)
Anchored(s) ==
  /\ \A i \in Reach : s.active \in Trust(Signing(i)) /\ Signing(i).active \in Trust(s)
  /\ \A c \in Refreshers : s.active \in client[c].keyring

(* Of what is within reach, every client can verify all, and a client that *)
(* refreshes now still can.                                                *)
ReachTrusted ==
  \A i \in Reach : /\ Signing(i).active \in Trust(Rotation!Served)
                   /\ \A c \in Refreshers : Signing(i).active \in client[c].keyring

(* As long as the recorded publication is within reach, a client that      *)
(* refreshed since knows the key that is to sign next.                     *)
HeirKnown ==
  deployment.native \in Reach =>
    /\ Heir(deployment.signing) \in Trust(Rotation!Served)
    /\ \A c \in Refreshers : client[c].at > deployment.since => Heir(deployment.signing) \in client[c].keyring

(* An apply that was checked republishes the deployed state or enters the  *)
(* next phase, an activation only after the introduction's window.         *)
CheckedFollows ==
  apply.pc = "checked" =>
    \/ apply.signing = deployment.signing
    \/ /\ deployment.native = apply.observed /\ Follows(deployment.signing, apply.signing)
       /\ deployment.signing.phase = "introducing" => Rotation!Elapsed(deployment.since)

(* What an apply has published and not recorded is served, or a restore    *)
(* went back to what it had observed.                                      *)
CommittedAnchored ==
  apply.pc = "committed" =>
    /\ (live = apply.native /\ back = 0) \/ (live = apply.observed /\ back # 0)
    /\ Anchored(apply.signing)

TrustInv == ReachTrusted /\ Anchored(deployment.signing) /\ HeirKnown /\ CheckedFollows /\ CommittedAnchored

(* A signing state is stable, introduces a successor, or has activated it. *)
LEMMA StateShapes ==
  ASSUME NEW s \in SigningStates
  PROVE  /\ s.active \in RotationKeys
         /\ \/ s.phase = "" /\ s.trusted = <<s.active>>
            \/ s.phase = "introducing" /\ \E b \in RotationKeys : s.trusted = <<s.active, b>>
            \/ s.phase = "activated" /\ \E a \in RotationKeys : s.trusted = <<a, s.active>>
<1>1. PICK m \in Rotation!Manifests : s = Rotation!SigningState(m)
  BY DEF SigningStates
<1>2. CASE \E k \in RotationKeys : m = Rotation!Stable(k)
  <2>1. PICK k \in RotationKeys : m = Rotation!Stable(k)
    BY <1>2
  <2>2. m.base = k /\ m.phase = ""
    BY <2>1, Zenon DEF Rotation!Stable
  <2>3. s.active = k /\ s.trusted = <<k>> /\ s.phase = ""
    BY <1>1, <2>2, Zenon DEF Rotation!SigningState
  <2> QED
    BY <2>3, Zenon
<1>3. CASE m \in [base : RotationKeys, successor : RotationKeys, phase : {"introducing", "activated"}]
  <2>1. m.base \in RotationKeys /\ m.successor \in RotationKeys /\ m.phase \in {"introducing", "activated"}
    BY <1>3
  <2>2. s.phase = m.phase /\ s.trusted = <<m.base, m.successor>>
        /\ s.active = IF m.phase = "activated" THEN m.successor ELSE m.base
    BY <1>1, <2>1, Zenon DEF Rotation!SigningState
  <2> QED
    BY <2>1, <2>2
<1> QED
  BY <1>2, <1>3, Zenon DEF Rotation!Manifests

(* What a client comes to hold.                                            *)
LEMMA TrustOfOne ==
  ASSUME NEW a, NEW s, s.trusted = <<a>>
  PROVE  Trust(s) = {a} /\ Heir(s) = a
BY DEF Trust, Heir

(* And from a publication that serves two keys.                            *)
LEMMA TrustOfTwo ==
  ASSUME NEW a, NEW b, NEW s, s.trusted = <<a, b>>
  PROVE  Trust(s) = {a, b} /\ Heir(s) = b
<1>1. DOMAIN s.trusted = {1, 2} /\ s.trusted[1] = a /\ s.trusted[2] = b /\ Len(s.trusted) = 2
  OBVIOUS
<1> QED
  BY <1>1 DEF Trust, Heir

(* A signing state serves the key that verifies it and the one that is to  *)
(* sign next.                                                              *)
LEMMA StateTrusts ==
  ASSUME NEW s \in SigningStates
  PROVE  s.active \in Trust(s) /\ Heir(s) \in Trust(s) /\ Trust(s) \subseteq RotationKeys
<1>0. s.active \in RotationKeys
  BY StateShapes, Zenon
<1>1. CASE s.trusted = <<s.active>>
  <2>1. Trust(s) = {s.active} /\ Heir(s) = s.active
    BY <1>1, TrustOfOne
  <2> QED
    BY <1>0, <2>1
<1>2. ASSUME NEW b \in RotationKeys, s.trusted = <<s.active, b>>
      PROVE  Trust(s) = {s.active, b} /\ Heir(s) = b
  BY <1>2, TrustOfTwo
<1>3. ASSUME NEW a \in RotationKeys, s.trusted = <<a, s.active>>
      PROVE  Trust(s) = {a, s.active} /\ Heir(s) = s.active
  BY <1>3, TrustOfTwo
<1>4. CASE \E b \in RotationKeys : s.trusted = <<s.active, b>>
  BY <1>2, <1>4, StateShapes, Zenon
<1>5. CASE \E a \in RotationKeys : s.trusted = <<a, s.active>>
  BY <1>3, <1>5, StateShapes, Zenon
<1> QED
  BY <1>1, <1>4, <1>5, StateShapes, Zenon

(* A phase and the next trust each other, and a client of the one can      *)
(* verify the other when it has refreshed since.                           *)
LEMMA FollowingTrusts ==
  ASSUME NEW d \in SigningStates, NEW s \in SigningStates, Follows(d, s)
  PROVE  /\ d.active \in Trust(s) /\ s.active \in Trust(d) /\ Heir(d) \in Trust(s)
         /\ s.active = d.active \/ (d.phase = "introducing" /\ s.active = Heir(d))
<1> DEFINE Goal == /\ d.active \in Trust(s) /\ s.active \in Trust(d) /\ Heir(d) \in Trust(s)
                   /\ s.active = d.active \/ (d.phase = "introducing" /\ s.active = Heir(d))
<1>1. ASSUME s.phase = "introducing", d.phase = "", d.active = s.active, d.trusted = <<s.trusted[1]>> PROVE Goal
  <2>1. PICK b \in RotationKeys : s.trusted = <<s.active, b>>
    BY <1>1, StateShapes, Zenon
  <2>2. s.trusted[1] = s.active
    BY <2>1
  <2>3. d.trusted = <<s.active>>
    BY <1>1, <2>2, Zenon
  <2>4. Trust(s) = {s.active, b} /\ Trust(d) = {s.active} /\ Heir(d) = s.active
    BY <2>1, <2>3, TrustOfOne, TrustOfTwo
  <2> QED
    BY <1>1, <2>4, Zenon
<1>2. ASSUME s.phase = "activated", d.phase = "introducing", d.active = s.trusted[1], d.trusted = s.trusted PROVE Goal
  <2>1. PICK a \in RotationKeys : s.trusted = <<a, s.active>>
    BY <1>2, StateShapes, Zenon
  <2>2. d.trusted = <<a, s.active>> /\ d.active = a
    BY <1>2, <2>1
  <2>3. Trust(s) = {a, s.active} /\ Trust(d) = {a, s.active} /\ Heir(d) = s.active
    BY <2>1, <2>2, TrustOfTwo
  <2> QED
    BY <1>2, <2>2, <2>3
<1>3. ASSUME s.phase = "", d.phase = "activated", d.active = s.active, d.trusted[2] = s.active PROVE Goal
  <2>1. s.trusted = <<s.active>>
    BY <1>3, StateShapes, Zenon
  <2>2. PICK x \in RotationKeys : d.trusted = <<x, s.active>>
    BY <1>3, StateShapes, Zenon
  <2>3. Trust(s) = {s.active} /\ Trust(d) = {x, s.active} /\ Heir(d) = s.active
    BY <2>1, <2>2, TrustOfOne, TrustOfTwo
  <2> QED
    BY <1>3, <2>3, Zenon
<1> QED
  BY <1>1, <1>2, <1>3, Zenon DEF Follows

(* A manifest describes a signing state.                                   *)
LEMMA ManifestStates == \A m \in Rotation!Manifests : Rotation!SigningState(m) \in SigningStates
BY DEF SigningStates

(* A manifest that LoadManifest accepts is stable or names two keys.       *)
LEMMA ManifestShapes ==
  ASSUME NEW m \in Rotation!Manifests
  PROVE  /\ m.base \in RotationKeys
         /\ m.phase # "" =>
              /\ m \in [base : RotationKeys, successor : RotationKeys, phase : {"introducing", "activated"}]
              /\ m.base # m.successor
<1>1. CASE \E k \in RotationKeys : m = Rotation!Stable(k)
  <2>1. PICK k \in RotationKeys : m = Rotation!Stable(k)
    BY <1>1
  <2>2. m.base = k /\ m.phase = ""
    BY <2>1, Zenon DEF Rotation!Stable
  <2> QED
    BY <2>2, Zenon
<1>2. CASE m \in [base : RotationKeys, successor : RotationKeys, phase : {"introducing", "activated"}]
           /\ m.base # m.successor
  BY <1>2, Zenon
<1> QED
  BY <1>1, <1>2, Zenon DEF Rotation!Manifests

(* The first publication is of the first key.                              *)
LEMMA RotationStart ==
  ASSUME Rotation!Init
  PROVE  /\ RotationType
         /\ deployment.signing = published[1].signing /\ deployment.signing \in SigningStates
         /\ deployment.signing.phase = "" /\ deployment.signing.active = FirstKey
         /\ Len(published) = 1
<1> USE TimesAssumption
<1>1. Rotation!Stable(FirstKey) \in Rotation!Manifests
  BY DEF Rotation!Manifests
<1> DEFINE s == Rotation!SigningState(Rotation!Stable(FirstKey))
<1>2. s \in SigningStates
  BY <1>1, ManifestStates
<1>3. s.phase = "" /\ s.active = FirstKey
  BY DEF Rotation!SigningState, Rotation!Stable
<1> HIDE DEF s
<1>4. published = <<[signing |-> s, previous |-> 0]>> /\ live = 1 /\ deployment = [signing |-> s, native |-> 1, since |-> 0]
      /\ phases = Rotation!Stable(FirstKey) /\ now = 0 /\ back = 0 /\ apply = Rotation!NoApply
      /\ client = [c \in Refreshers |-> [keyring |-> {FirstKey}, at |-> 0]] /\ expires \in [RotationKeys -> Expiries]
  BY DEF Rotation!Init, s
<1>5. [signing |-> s, previous |-> 0] \in Publications
  BY <1>2 DEF Publications
<1>6. published \in Seq(Publications) /\ Len(published) = 1 /\ published[1] = [signing |-> s, previous |-> 0]
  BY <1>4, <1>5
<1>7. apply \notin Applying
  BY <1>4 DEF Rotation!NoApply, Applying
<1>8. apply.pc # "committed" /\ deployment.signing = s /\ deployment.native = 1
  BY <1>4 DEF Rotation!NoApply
<1>9. RotationType
  <2>1. deployment \in [signing : SigningStates, native : 1..Len(published), since : 0..now]
    BY <1>2, <1>4, <1>6
  <2>2. client \in [Refreshers -> [keyring : SUBSET RotationKeys, at : 0..now]]
        /\ \A c \in Refreshers : now < client[c].at + MinimumRefresh
    BY <1>4
  <2>3. expires \in [RotationKeys -> Nat]
    BY <1>4, Zenon
  <2>4. \A i \in 1..Len(published) : published[i].previous < i
    BY <1>6
  <2> QED
    BY <1>1, <1>4, <1>6, <1>7, <1>8, <2>1, <2>2, <2>3, <2>4 DEF RotationType
<1>10. published[1].signing = s
  BY <1>6
<1> QED
  BY <1>2, <1>3, <1>6, <1>8, <1>9, <1>10, Zenon

(* What a publication holds.                                               *)
LEMMA PublishedAt ==
  ASSUME RotationType, NEW i \in 1..Len(published)
  PROVE  published[i].signing \in SigningStates /\ published[i].previous \in 0..(i - 1)
<1>1. published[i] \in Publications
  BY DEF RotationType
<1>2. published[i].signing \in SigningStates /\ published[i].previous \in Nat
  BY <1>1 DEF Publications
<1> QED
  BY <1>2 DEF RotationType

(* When a client last refreshed.                                           *)
LEMMA ClientTimes ==
  ASSUME RotationType, NEW c \in Refreshers
  PROVE  now \in Nat /\ client[c].at \in 0..now /\ now < client[c].at + MinimumRefresh
BY DEF RotationType

(* When the deployed phase was entered, and where it is.                   *)
LEMMA DeploymentTimes ==
  ASSUME RotationType
  PROVE  now \in Nat /\ deployment.since \in 0..now /\ deployment.native \in 1..Len(published)
BY DEF RotationType

(* What a running apply holds.                                             *)
LEMMA ApplyFacts ==
  ASSUME RotationType, apply.pc # "none"
  PROVE  /\ apply \in Applying /\ apply.signing \in SigningStates
         /\ apply.at \in Nat /\ apply.at <= now /\ now <= apply.at + Margin
         /\ apply.observed \in 1..Len(published)
<1>1. apply \in Applying
  <2>1. apply # Rotation!NoApply
    BY DEF Rotation!NoApply
  <2> QED
    BY <2>1, Zenon DEF RotationType
<1>2. apply.signing \in SigningStates /\ apply.at \in Nat
  BY <1>1 DEF Applying
<1> QED
  BY <1>1, <1>2, Zenon DEF RotationType

(* What it has committed is where it says, after what it observed.         *)
LEMMA CommittedFacts ==
  ASSUME RotationType, apply.pc = "committed"
  PROVE  /\ apply.native \in 1..Len(published) /\ apply.observed < apply.native
         /\ published[apply.native].signing = apply.signing
         /\ published[apply.native].previous = apply.observed
<1>1. /\ apply.native \in 1..Len(published)
      /\ published[apply.native] = [signing |-> apply.signing, previous |-> apply.observed]
  BY Zenon DEF RotationType
<1>2. published[apply.native].signing = apply.signing /\ published[apply.native].previous = apply.observed
  BY <1>1
<1>3. published[apply.native].previous < apply.native
  BY <1>1, Zenon DEF RotationType
<1> QED
  BY <1>1, <1>2, <1>3, Zenon

(* The types hold through every step; publications once made keep their    *)
(* place.                                                                  *)
LEMMA RotationStepType == RotationType /\ [Rotation!Next]_(Rotation!vars) => RotationType'
<1> SUFFICES ASSUME RotationType, [Rotation!Next]_(Rotation!vars) PROVE RotationType'
  OBVIOUS
<1> USE TimesAssumption
<1>1. ASSUME phases' \in Rotation!Manifests,
             UNCHANGED <<now, expires, deployment, published, live, apply, client, back>>
      PROVE  RotationType'
  BY <1>1 DEF RotationType, Applying, Publications
<1>2. ASSUME NEW k \in RotationKeys, Rotation!RotateKey(k) PROVE RotationType'
  <2>1. phases.base \in RotationKeys /\ k # phases.base
    BY <1>2, ManifestShapes, Zenon DEF Rotation!RotateKey, RotationType
  <2>2. phases' \in Rotation!Manifests
    BY <1>2, <2>1, Zenon DEF Rotation!RotateKey, Rotation!Manifests
  <2> QED
    BY <1>1, <1>2, <2>2, Zenon DEF Rotation!RotateKey
<1>3. CASE Rotation!AdvanceKeyRotation
  <2>1. phases \in [base : RotationKeys, successor : RotationKeys, phase : {"introducing", "activated"}]
        /\ phases.base # phases.successor
    BY <1>3, ManifestShapes, Zenon DEF Rotation!AdvanceKeyRotation, RotationType
  <2>2. phases' \in Rotation!Manifests
    BY <1>3, <2>1, Zenon DEF Rotation!AdvanceKeyRotation, Rotation!Manifests
  <2> QED
    BY <1>1, <1>3, <2>2, Zenon DEF Rotation!AdvanceKeyRotation
<1>4. ASSUME NEW m \in Rotation!Manifests, Rotation!EditManifest(m) PROVE RotationType'
  BY <1>1, <1>4 DEF Rotation!EditManifest
<1>5. CASE Rotation!ApplyOpens
  <2> DEFINE s == Rotation!SigningState(phases)
  <2>1. s \in SigningStates
    BY ManifestStates DEF RotationType
  <2> HIDE DEF s
  <2>2. apply' = [pc |-> "checked", signing |-> s, observed |-> live, native |-> 0, at |-> now]
        /\ UNCHANGED <<now, expires, phases, deployment, published, live, client, back>>
    BY <1>5 DEF Rotation!ApplyOpens, s
  <2>3. apply' \in Applying /\ apply'.at = now /\ apply'.observed = live /\ apply'.pc = "checked"
    BY <2>1, <2>2 DEF Applying, RotationType
  <2> QED
    BY <2>2, <2>3 DEF RotationType
<1>6. CASE Rotation!ApplyCommits
  <2>1. apply \in Applying /\ apply.signing \in SigningStates
    BY <1>6 DEF Rotation!ApplyCommits, RotationType, Rotation!NoApply, Applying
  <2>2. CASE live = apply.observed
    <3> DEFINE x == [signing |-> apply.signing, previous |-> live]
    <3>1. x \in Publications /\ x.previous = live
      BY <2>1 DEF RotationType, Publications
    <3> HIDE DEF x
    <3>2. published' = Append(published, x) /\ live' = Len(published') /\ back' = 0
          /\ apply' = [apply EXCEPT !.pc = "committed", !.native = live']
          /\ UNCHANGED <<now, expires, phases, deployment, client>>
      BY <1>6, <2>2 DEF Rotation!ApplyCommits, x
    <3>3. /\ published' \in Seq(Publications) /\ Len(published') = Len(published) + 1
          /\ published'[Len(published) + 1] = x
          /\ \A i \in 1..Len(published) : published'[i] = published[i]
      BY <3>1, <3>2 DEF RotationType
    <3>4. live' = Len(published) + 1 /\ live' \in Nat
      BY <3>2, <3>3 DEF RotationType
    <3>5. apply' \in Applying /\ apply'.at = apply.at /\ apply'.observed = apply.observed
          /\ apply'.native = live' /\ apply'.signing = apply.signing
      BY <2>1, <3>2, <3>4, Zenon DEF Applying
    <3>6. published'[apply'.native] = [signing |-> apply'.signing, previous |-> apply'.observed]
      BY <2>2, <3>3, <3>4, <3>5 DEF x
    <3>7. live' \in 1..Len(published') /\ \A i \in 1..Len(published') : published'[i].previous < i
      BY <3>1, <3>2, <3>3 DEF RotationType
    <3>8. deployment' \in [signing : SigningStates, native : 1..Len(published'), since : 0..now']
          /\ published'[deployment'.native].signing = deployment'.signing
      BY <3>2, <3>3 DEF RotationType
    <3> QED
      BY <2>1, <3>2, <3>3, <3>4, <3>5, <3>6, <3>7, <3>8 DEF RotationType
  <2>3. CASE live # apply.observed
    <3>1. apply' = Rotation!NoApply /\ apply' \notin Applying /\ apply'.pc = "none"
          /\ UNCHANGED <<now, expires, phases, deployment, published, live, client, back>>
      BY <1>6, <2>3 DEF Rotation!ApplyCommits, Rotation!NoApply, Applying
    <3> QED
      BY <3>1 DEF RotationType
  <2> QED
    BY <2>2, <2>3
<1>7. CASE Rotation!ApplyRecords
  <2>1. apply \in Applying /\ apply.pc = "committed" /\ apply.signing \in SigningStates
    BY <1>7 DEF Rotation!ApplyRecords, RotationType, Rotation!NoApply, Applying
  <2>2. PICK t \in 0..now :
          deployment' = [signing |-> apply.signing, native |-> apply.native, since |-> t]
    <3> DEFINE t == IF Rotation!TrustContinues THEN deployment.since ELSE now
    <3>1. t \in 0..now
      BY DEF RotationType
    <3>2. deployment' = [signing |-> apply.signing, native |-> apply.native, since |-> t]
      BY <1>7 DEF Rotation!ApplyRecords
    <3> QED
      BY <3>1, <3>2
  <2>3. apply' = Rotation!NoApply /\ apply' \notin Applying /\ apply'.pc = "none"
        /\ UNCHANGED <<now, expires, phases, published, live, client, back>>
    BY <1>7 DEF Rotation!ApplyRecords, Rotation!NoApply, Applying
  <2>4. deployment' \in [signing : SigningStates, native : 1..Len(published), since : 0..now]
        /\ published[deployment'.native].signing = deployment'.signing
    BY <2>1, <2>2 DEF RotationType
  <2> QED
    BY <2>3, <2>4 DEF RotationType
<1>8. CASE Rotation!ApplyDies
  <2>1. apply' = Rotation!NoApply /\ apply' \notin Applying /\ apply'.pc = "none"
        /\ UNCHANGED <<now, expires, phases, deployment, published, live, client, back>>
    BY <1>8 DEF Rotation!ApplyDies, Rotation!NoApply, Applying
  <2> QED
    BY <2>1 DEF RotationType
<1>9. CASE Rotation!Rollback
  <2>1. published[live].previous \in Nat \ {0} /\ published[live].previous < live
    <3>1. live \in 1..Len(published) /\ live \in Nat
      BY DEF RotationType
    <3>2. published[live].previous \in 0..(live - 1)
      BY <3>1, PublishedAt
    <3> QED
      BY <1>9, <3>1, <3>2 DEF Rotation!Rollback
  <2>2. live' \in 1..Len(published) /\ back' \in Nat
    BY <1>9, <2>1 DEF Rotation!Rollback, RotationType
  <2> QED
    BY <1>9, <2>2 DEF Rotation!Rollback, RotationType
<1>10. CASE Rotation!Tick
  <2>1. now' = now + 1 /\ UNCHANGED <<expires, phases, deployment, published, live, apply, client, back>>
    BY <1>10 DEF Rotation!Tick
  <2>2. \A c \in Refreshers : now' < client[c].at + MinimumRefresh
    BY <1>10 DEF Rotation!Tick, RotationType
  <2>3. apply \in Applying => apply.at <= now' /\ now' <= apply.at + Margin
    <3> SUFFICES ASSUME apply \in Applying PROVE apply.at <= now' /\ now' <= apply.at + Margin
      OBVIOUS
    <3>1. apply.pc # "none" /\ apply # Rotation!NoApply
      BY DEF Applying, Rotation!NoApply
    <3>2. apply.at \in Nat /\ apply.at <= now /\ now \in Nat
      BY <3>1, ApplyFacts, DeploymentTimes, Zenon
    <3>3. now + 1 <= apply.at + Margin
      BY <1>10, <3>1, <3>2 DEF Rotation!Tick
    <3> QED
      BY <2>1, <3>2, <3>3
  <2>4. client \in [Refreshers -> [keyring : SUBSET RotationKeys, at : 0..now']]
    BY <2>1 DEF RotationType
  <2>5. deployment \in [signing : SigningStates, native : 1..Len(published), since : 0..now']
    BY <2>1 DEF RotationType
  <2> QED
    BY <2>1, <2>2, <2>3, <2>4, <2>5 DEF RotationType
<1>11. ASSUME NEW c \in Refreshers, Rotation!Refresh(c) PROVE RotationType'
  <2>1. Rotation!Served \in SigningStates
    BY PublishedAt, Zenon DEF RotationType, Rotation!Served
  <2>2. client' = [client EXCEPT ![c] = [keyring |-> Trust(Rotation!Served), at |-> now]]
        /\ UNCHANGED <<now, expires, phases, deployment, published, live, apply, back>>
    BY <1>11, Zenon DEF Rotation!Refresh, Trust
  <2>3. Trust(Rotation!Served) \subseteq RotationKeys
    BY <2>1, StateTrusts
  <2>4. client' \in [Refreshers -> [keyring : SUBSET RotationKeys, at : 0..now]]
        /\ \A d \in Refreshers : now < client'[d].at + MinimumRefresh
    BY <2>2, <2>3 DEF RotationType
  <2> QED
    BY <2>2, <2>4, Zenon DEF RotationType
<1>12. CASE UNCHANGED Rotation!vars
  BY <1>12 DEF Rotation!vars, RotationType
<1> QED
  BY <1>2, <1>3, <1>4, <1>5, <1>6, <1>7, <1>8, <1>9, <1>10, <1>11, <1>12 DEF Rotation!Next

(* The keys of a phase are checked against the time the apply opened, and  *)
(* the apply takes no longer than the margin.                              *)
LEMMA ValidityStep ==
  RotationType /\ ValidityInv /\ [Rotation!Next]_(Rotation!vars) => ValidityInv'
<1> SUFFICES ASSUME RotationType, ValidityInv, [Rotation!Next]_(Rotation!vars) PROVE ValidityInv'
  OBVIOUS
<1> USE TimesAssumption
<1>1. ASSUME UNCHANGED <<expires, deployment, apply>> PROVE ValidityInv'
  <2>1. Rotation!PhaseCompletes'
    BY <1>1 DEF ValidityInv, ApplyOutlives, Rotation!PhaseCompletes
  <2>2. ApplyOutlives'
    BY <1>1 DEF ValidityInv, ApplyOutlives, Outlives
  <2> QED
    BY <2>1, <2>2 DEF ValidityInv
<1>2. ASSUME UNCHANGED <<expires, deployment>>, ApplyOutlives' PROVE ValidityInv'
  BY <1>2 DEF ValidityInv, ApplyOutlives, Rotation!PhaseCompletes
<1>3. CASE Rotation!ApplyOpens
  <2>1. apply'.signing = Rotation!SigningState(phases) /\ apply'.at = now /\ UNCHANGED <<expires, deployment>>
        /\ Rotation!validateRotationKeyValidity(phases)
    BY <1>3 DEF Rotation!ApplyOpens
  <2>2. CASE phases.phase = "introducing"
    BY <1>2, <2>1, <2>2 DEF ApplyOutlives, Outlives, Rotation!SigningState, Rotation!validateRotationKeyValidity
  <2>3. CASE phases.phase = "activated"
    BY <1>2, <2>1, <2>3 DEF ApplyOutlives, Outlives, Rotation!SigningState, Rotation!validateRotationKeyValidity
  <2>4. CASE phases.phase \notin {"introducing", "activated"}
    <3>1. Rotation!SigningState(phases).phase = phases.phase
      BY Zenon DEF Rotation!SigningState
    <3> QED
      BY <1>2, <2>1, <2>4, <3>1 DEF ApplyOutlives, Outlives
  <2> QED
    BY <2>2, <2>3, <2>4
<1>4. CASE Rotation!ApplyCommits
  <2>1. apply \in Applying
    BY <1>4 DEF Rotation!ApplyCommits, RotationType, Rotation!NoApply, Applying
  <2>2. UNCHANGED <<expires, deployment>>
    BY <1>4 DEF Rotation!ApplyCommits
  <2>3. CASE live = apply.observed
    <3>1. apply'.signing = apply.signing /\ apply'.at = apply.at
      BY <1>4, <2>1, <2>3, ZenonT(60) DEF Rotation!ApplyCommits, Applying
    <3> QED
      BY <1>2, <2>1, <2>2, <3>1 DEF ValidityInv, ApplyOutlives, Outlives
  <2>4. CASE live # apply.observed
    <3>1. apply' \notin Applying
      BY <1>4, <2>4 DEF Rotation!ApplyCommits, Rotation!NoApply, Applying
    <3> QED
      BY <1>2, <2>2, <3>1 DEF ApplyOutlives
  <2> QED
    BY <2>3, <2>4
<1>5. CASE Rotation!ApplyRecords
  <2>1. apply \in Applying /\ apply.signing \in SigningStates /\ Outlives(apply.signing, apply.at)
        /\ apply.at \in Nat /\ now <= apply.at + Margin
    <3>1. apply.pc # "none"
      BY <1>5 DEF Rotation!ApplyRecords
    <3> QED
      BY <3>1, ApplyFacts, Zenon DEF ValidityInv, ApplyOutlives
  <2>2. apply' \notin Applying /\ UNCHANGED <<expires, now>>
    BY <1>5, Zenon DEF Rotation!ApplyRecords, Rotation!NoApply, Applying
  <2>3. CASE Rotation!TrustContinues
    <3>1. deployment'.signing = deployment.signing /\ deployment'.since = deployment.since
      BY <1>5, <2>3 DEF Rotation!ApplyRecords, Rotation!TrustContinues
    <3> QED
      BY <2>2, <3>1, Zenon DEF ValidityInv, ApplyOutlives, Rotation!PhaseCompletes
  <2>4. CASE ~Rotation!TrustContinues
    <3>1. deployment'.signing = apply.signing /\ deployment'.since = now
      BY <1>5, <2>4 DEF Rotation!ApplyRecords
    <3>2. CASE apply.signing.phase = ""
      BY <2>2, <3>1, <3>2, Zenon DEF ValidityInv, ApplyOutlives, Rotation!PhaseCompletes
    <3>3. CASE apply.signing.phase = "introducing"
      <4>1. PICK b \in RotationKeys : apply.signing.trusted = <<apply.signing.active, b>>
        BY <2>1, <3>3, StateShapes, Zenon
      <4>2. apply.signing.trusted[1] = apply.signing.active /\ apply.signing.trusted[2] = b
        BY <4>1
      <4>3. expires[apply.signing.trusted[1]] \in Nat /\ expires[apply.signing.trusted[2]] \in Nat /\ now \in Nat
        BY <2>1, <4>2, StateShapes, Zenon DEF RotationType
      <4>4. expires[apply.signing.trusted[1]] >= now + MinimumRefresh
            /\ expires[apply.signing.trusted[2]] >= now + 2 * MinimumRefresh
        BY <2>1, <3>3, <4>3 DEF Outlives
      <4> QED
        BY <2>2, <3>1, <3>3, <4>4 DEF ValidityInv, ApplyOutlives, Rotation!PhaseCompletes
    <3>4. CASE apply.signing.phase = "activated"
      <4>1. expires[apply.signing.active] \in Nat /\ now \in Nat
        BY <2>1, StateShapes, Zenon DEF RotationType
      <4>2. expires[apply.signing.active] >= now + MinimumRefresh
        BY <2>1, <3>4, <4>1 DEF Outlives
      <4> QED
        BY <2>2, <3>1, <3>4, <4>2, Zenon DEF ValidityInv, ApplyOutlives, Rotation!PhaseCompletes
    <3> QED
      BY <2>1, <3>2, <3>3, <3>4, StateShapes, Zenon
  <2> QED
    BY <2>3, <2>4
<1>6. CASE Rotation!ApplyDies
  <2>1. apply' \notin Applying /\ UNCHANGED <<expires, deployment>>
    BY <1>6 DEF Rotation!ApplyDies, Rotation!NoApply, Applying
  <2> QED
    BY <1>2, <2>1 DEF ApplyOutlives
<1>7. CASE \E k \in RotationKeys : Rotation!RotateKey(k)
  BY <1>1, <1>7, Zenon DEF Rotation!RotateKey
<1>8. CASE Rotation!AdvanceKeyRotation
  BY <1>1, <1>8, Zenon DEF Rotation!AdvanceKeyRotation
<1>9. CASE \E m \in Rotation!Manifests : Rotation!EditManifest(m)
  BY <1>1, <1>9 DEF Rotation!EditManifest
<1>10. CASE Rotation!Rollback \/ Rotation!Tick
  BY <1>1, <1>10, Zenon DEF Rotation!Rollback, Rotation!Tick
<1>11. CASE \E c \in Refreshers : Rotation!Refresh(c)
  BY <1>1, <1>11 DEF Rotation!Refresh
<1>12. CASE UNCHANGED Rotation!vars
  BY <1>1, <1>12 DEF Rotation!vars
<1> QED
  BY <1>3, <1>4, <1>5, <1>6, <1>7, <1>8, <1>9, <1>10, <1>11, <1>12 DEF Rotation!Next

(* THEOREM: when a phase of a rotation is recorded as deployed, its keys   *)
(* outlive the window that has to pass before the next phase: what         *)
(* validateRotationKeyValidity demands when the apply opens still covers   *)
(* the time the receipt names, and a receipt that keeps its trust time     *)
(* keeps the keys.                                                         *)
THEOREM DeployedPhasesComplete == Rotation!Spec => []PhaseCompletes
<1>1. Rotation!Init => RotationType /\ ValidityInv
  <2> SUFFICES ASSUME Rotation!Init PROVE RotationType /\ ValidityInv
    OBVIOUS
  <2>1. RotationType /\ deployment.signing.phase = ""
    BY RotationStart, Zenon
  <2>2. apply \notin Applying
    BY DEF Rotation!Init, Rotation!NoApply, Applying
  <2> QED
    BY <2>1, <2>2, Zenon DEF ValidityInv, ApplyOutlives, Rotation!PhaseCompletes
<1>2. RotationType /\ ValidityInv /\ [Rotation!Next]_(Rotation!vars) => (RotationType /\ ValidityInv)'
  BY RotationStepType, ValidityStep
<1>3. RotationType /\ ValidityInv => PhaseCompletes
  BY DEF ValidityInv, PhaseCompletes
<1> QED
  BY <1>1, <1>2, <1>3, PTL DEF Rotation!Spec

(* Publishing: the new publication and the one it supersedes are within    *)
(* reach.                                                                  *)
LEMMA CommitReach ==
  ASSUME RotationType, Rotation!ApplyCommits, live = apply.observed
  PROVE  /\ apply \in Applying /\ apply.signing \in SigningStates
         /\ live' = Len(published) + 1 /\ back' = 0 /\ UNCHANGED <<now, deployment, client>>
         /\ apply'.pc = "committed" /\ apply'.native = live' /\ apply'.signing = apply.signing
         /\ Rotation!Served' = apply.signing
         /\ live \in Reach
         /\ \A i \in Reach' : \/ i = live' /\ Signing(i)' = apply.signing
                              \/ i = live /\ Signing(i)' = Signing(i)
<1>1. apply \in Applying /\ apply.signing \in SigningStates /\ apply.pc = "checked"
  BY DEF Rotation!ApplyCommits, RotationType, Rotation!NoApply, Applying
<1> DEFINE x == [signing |-> apply.signing, previous |-> live]
<1>2. x \in Publications /\ x.previous = live /\ x.signing = apply.signing
  BY <1>1 DEF RotationType, Publications
<1> HIDE DEF x
<1>3. published' = Append(published, x) /\ live' = Len(published') /\ back' = 0
      /\ apply' = [apply EXCEPT !.pc = "committed", !.native = live'] /\ UNCHANGED <<now, deployment, client>>
  BY DEF Rotation!ApplyCommits, x
<1>4. /\ live' = Len(published) + 1 /\ published'[live'] = x
      /\ \A i \in 1..Len(published) : published'[i] = published[i]
  BY <1>2, <1>3 DEF RotationType
<1>5. apply'.pc = "committed" /\ apply'.native = live' /\ apply'.signing = apply.signing
  BY <1>1, <1>3 DEF Applying
<1>6. live \in 1..Len(published) /\ live \in Reach
  BY DEF RotationType, Reach
<1>7. published'[live'].previous = live /\ published'[live'].signing = apply.signing
  BY <1>2, <1>4
<1>8. \A i \in Reach' : i = live' \/ i = live
  BY <1>7 DEF Reach
<1>9. \A i \in Reach' : \/ i = live' /\ Signing(i)' = apply.signing
                        \/ i = live /\ Signing(i)' = Signing(i)
  BY <1>4, <1>6, <1>7, <1>8 DEF Signing
<1>10. Rotation!Served' = apply.signing
  BY <1>7 DEF Rotation!Served
<1> QED
  BY <1>1, <1>3, <1>4, <1>5, <1>6, <1>9, <1>10

(* A publication leaves every client able to verify it: the recorded state *)
(* again, or the next phase, whose key a client that refreshed since the   *)
(* introduction holds.                                                     *)
LEMMA CommitTrust ==
  ASSUME RotationType, TrustInv, Rotation!ApplyCommits, live = apply.observed
  PROVE  TrustInv'
<1> USE TimesAssumption
<1> DEFINE d == deployment.signing
           s == apply.signing
<1>1. /\ s \in SigningStates /\ live' = Len(published) + 1 /\ back' = 0 /\ UNCHANGED <<now, deployment, client>>
      /\ apply'.pc = "committed" /\ apply'.native = live' /\ apply'.signing = s
      /\ Rotation!Served' = s /\ live \in Reach
  BY CommitReach
<1>2. ASSUME NEW i \in Reach' PROVE (i = live' /\ Signing(i)' = s) \/ (i = live /\ Signing(i)' = Signing(i))
  BY <1>2, CommitReach
<1>3. d \in SigningStates /\ deployment.native \in 1..Len(published) /\ Signing(deployment.native) = d
  BY DEF RotationType, Signing
<1>4. apply.pc = "checked"
  BY DEF Rotation!ApplyCommits
<1>5. s.active \in Trust(s) /\ d.active \in Trust(d) /\ Heir(d) \in Trust(d)
  BY <1>1, <1>3, StateTrusts
(* The key that signs it, the superseded one, and the recorded one.        *)
<1> DEFINE Good == /\ s.active \in Trust(d) /\ d.active \in Trust(s)
                   /\ s.active \in Trust(Signing(live)) /\ Signing(live).active \in Trust(s)
                   /\ Heir(d) \in Trust(s)
                   /\ \A c \in Refreshers : s.active \in client[c].keyring
<1>6. ASSUME s = d PROVE Good
  <2>1. Anchored(d)
    BY DEF TrustInv
  <2> QED
    BY <1>1, <1>5, <1>6, <2>1 DEF Anchored
<1>7. ASSUME s # d PROVE Good
  <2>1. deployment.native = live /\ Follows(d, s) /\ (d.phase = "introducing" => Rotation!Elapsed(deployment.since))
    BY <1>4, <1>7, Zenon DEF TrustInv, CheckedFollows
  <2>2. /\ d.active \in Trust(s) /\ s.active \in Trust(d) /\ Heir(d) \in Trust(s)
        /\ s.active = d.active \/ (d.phase = "introducing" /\ s.active = Heir(d))
    BY <1>1, <1>3, <2>1, FollowingTrusts, Zenon
  <2>3. Signing(live) = d
    BY <1>3, <2>1, Zenon
  <2>4. ASSUME NEW c \in Refreshers PROVE s.active \in client[c].keyring
    <3>1. CASE s.active = d.active
      BY <3>1 DEF TrustInv, Anchored
    <3>2. CASE d.phase = "introducing" /\ s.active = Heir(d)
      <4>1. now >= deployment.since + MinimumRefresh /\ now < client[c].at + MinimumRefresh
        BY <2>1, <3>2, Zenon DEF Rotation!Elapsed, RotationType
      <4>2. client[c].at > deployment.since
        BY <4>1, ClientTimes, DeploymentTimes
      <4> QED
        BY <1>1, <2>1, <3>2, <4>2, Zenon DEF TrustInv, HeirKnown
    <3> QED
      BY <2>2, <3>1, <3>2, Zenon
  <2> QED
    BY <2>2, <2>3, <2>4, Zenon
<1>8. Good
  BY <1>6, <1>7, Zenon
<1> HIDE DEF d, s
<1>9. ReachTrusted'
  <2> SUFFICES ASSUME NEW i \in Reach'
               PROVE  /\ Signing(i)'.active \in Trust(s)
                      /\ \A c \in Refreshers : Signing(i)'.active \in client[c].keyring
    BY <1>1 DEF ReachTrusted, Trust
  <2>1. CASE Signing(i)' = s
    BY <1>5, <1>8, <2>1
  <2>2. CASE i = live /\ Signing(i)' = Signing(i)
    BY <1>1, <1>8, <2>2 DEF TrustInv, ReachTrusted
  <2> QED
    BY <1>2, <2>1, <2>2, Zenon
<1>10. deployment'.signing = d /\ Anchored(deployment.signing)'
  <2>1. deployment'.signing = d
    BY <1>1 DEF d
  <2>2. \A i \in Reach' : d.active \in Trust(Signing(i)') /\ Signing(i)'.active \in Trust(d)
    BY <1>1, <1>2, <1>8, Zenon DEF TrustInv, Anchored, d
  <2>3. \A c \in Refreshers : d.active \in client'[c].keyring
    BY <1>1 DEF TrustInv, Anchored, d
  <2> QED
    BY <2>1, <2>2, <2>3, Zenon DEF Anchored, Trust
<1>11. HeirKnown'
  <2> SUFFICES ASSUME deployment.native \in Reach'
               PROVE  /\ Heir(d) \in Trust(s)
                      /\ \A c \in Refreshers : client[c].at > deployment.since => Heir(d) \in client[c].keyring
    BY <1>1, Zenon DEF HeirKnown, Trust, Heir, d
  <2>1. deployment.native = live
    BY <1>1, <1>2, <1>3, DeploymentTimes
  <2> QED
    BY <1>1, <1>8, <2>1, Zenon DEF TrustInv, HeirKnown, d
<1>12. CheckedFollows'
  BY <1>1, Zenon DEF CheckedFollows
<1>13. CommittedAnchored'
  <2>1. \A i \in Reach' : s.active \in Trust(Signing(i)') /\ Signing(i)'.active \in Trust(s)
    BY <1>2, <1>5, <1>8, Zenon
  <2> QED
    BY <1>1, <1>8, <2>1, Zenon DEF CommittedAnchored, Anchored, Trust
<1> QED
  BY <1>9, <1>10, <1>11, <1>12, <1>13 DEF TrustInv

(* What is anchored stays so while nothing is published or restored and    *)
(* no client refreshes.                                                    *)
LEMMA AnchoredStays ==
  ASSUME NEW s, Anchored(s), UNCHANGED <<published, live, back, client>>
  PROVE  Anchored(s)'
BY DEF Anchored, Reach, Trust, Signing

(* A receipt is written without anything being published or restored.      *)
LEMMA HeirRecorded ==
  ASSUME NEW s, NEW n, NEW t, deployment'.signing = s, deployment'.native = n, deployment'.since = t,
         UNCHANGED <<published, live, back, client>>,
         n \in Reach =>
           /\ Heir(s) \in Trust(Rotation!Served)
           /\ \A c \in Refreshers : client[c].at > t => Heir(s) \in client[c].keyring
  PROVE  HeirKnown'
<1>1. Reach' = Reach /\ Rotation!Served' = Rotation!Served
  BY Zenon DEF Reach, Rotation!Served
<1> QED
  BY <1>1, Zenon DEF HeirKnown, Trust, Heir

(* Every other step keeps what clients can verify.                         *)
LEMMA TrustStep ==
  ASSUME MaxBack \in {0, 1}, RotationType, TrustInv, [Rotation!Next]_(Rotation!vars)
  PROVE  TrustInv'
<1> USE TimesAssumption
<1>1. ASSUME UNCHANGED <<published, live, back>> PROVE UNCHANGED <<Reach, Rotation!Served>>
                                                     /\ \A i \in Reach : Signing(i)' = Signing(i)
  BY <1>1 DEF Reach, Rotation!Served, Signing
<1>2. ASSUME UNCHANGED <<deployment, published, live, client, back>> 
      PROVE  ReachTrusted' /\ Anchored(deployment.signing)' /\ HeirKnown'
  <2>1. ReachTrusted'
    BY <1>1, <1>2, Zenon DEF TrustInv, ReachTrusted, Trust, Signing
  <2>2. PICK s, n, t : s = deployment.signing /\ n = deployment.native /\ t = deployment.since
    OBVIOUS
  <2>3. Anchored(deployment.signing)'
    <3>1. Anchored(s)'
      BY <1>2, <2>2, AnchoredStays DEF TrustInv
    <3> QED
      BY <1>2, <2>2, <3>1, Zenon DEF Anchored
  <2>4. HeirKnown'
    BY <1>2, <2>2, HeirRecorded DEF TrustInv, HeirKnown
  <2> QED
    BY <2>1, <2>3, <2>4
<1>3. ASSUME UNCHANGED <<deployment, published, live, client, back>>, apply' = Rotation!NoApply PROVE TrustInv'
  <2>1. apply'.pc = "none"
    BY <1>3 DEF Rotation!NoApply
  <2> QED
    BY <1>2, <1>3, <2>1, Zenon DEF TrustInv, CheckedFollows, CommittedAnchored
<1>4. ASSUME UNCHANGED <<deployment, published, live, client, back, apply>>, now' \in {now, now + 1} PROVE TrustInv'
  <2>1. CheckedFollows'
    <3>1. Rotation!Elapsed(deployment.since) => Rotation!Elapsed(deployment.since)'
      BY <1>4, DeploymentTimes DEF Rotation!Elapsed
    <3> QED
      BY <1>4, <3>1, Zenon DEF TrustInv, CheckedFollows, Follows
  <2>2. CommittedAnchored'
    <3>1. PICK s : s = apply.signing
      OBVIOUS
    <3>2. Anchored(s) => Anchored(s)'
      BY <1>4, AnchoredStays
    <3> QED
      BY <1>4, <3>1, <3>2, Zenon DEF TrustInv, CommittedAnchored, Anchored
  <2> QED
    BY <1>2, <1>4, <2>1, <2>2 DEF TrustInv
<1>5. CASE Rotation!ApplyOpens
  <2> DEFINE s == Rotation!SigningState(phases)
             d == deployment.signing
  <2> HIDE DEF s
  <2>1. /\ apply'.pc = "checked" /\ apply'.signing = s /\ apply'.observed = live
        /\ UNCHANGED <<now, deployment, published, live, client, back>> /\ Rotation!Transition(s)
    BY <1>5, Zenon DEF Rotation!ApplyOpens, s
  <2>2. s = d \/ /\ deployment.native = live /\ Follows(d, s)
                 /\ d.phase = "introducing" => Rotation!Elapsed(deployment.since)
    BY <2>1, Zenon DEF Rotation!Transition, Follows
  <2>3. CheckedFollows'
    BY <2>1, <2>2, Zenon DEF CheckedFollows, Follows, Rotation!Elapsed
  <2>4. CommittedAnchored'
    BY <2>1, Zenon DEF CommittedAnchored
  <2> QED
    BY <1>2, <2>1, <2>3, <2>4 DEF TrustInv
<1>6. CASE Rotation!ApplyCommits
  <2>1. CASE live = apply.observed
    BY <1>6, <2>1, CommitTrust
  <2>2. CASE live # apply.observed
    BY <1>3, <1>6, <2>2 DEF Rotation!ApplyCommits
  <2> QED
    BY <2>1, <2>2
<1>7. CASE Rotation!ApplyDies
  BY <1>3, <1>7 DEF Rotation!ApplyDies
<1>8. CASE Rotation!ApplyRecords
  <2> DEFINE s == apply.signing
  <2>1. /\ apply.pc = "committed" /\ apply \in Applying /\ s \in SigningStates
        /\ apply.native \in 1..Len(published) /\ published[apply.native].signing = s
        /\ published[apply.native].previous = apply.observed /\ apply.observed < apply.native
        /\ apply.observed \in 1..Len(published)
    <3>1. apply.pc = "committed" /\ apply.pc # "none"
      BY <1>8 DEF Rotation!ApplyRecords
    <3> QED
      BY <3>1, ApplyFacts, CommittedFacts, Zenon
  <2>2. /\ deployment'.signing = s /\ deployment'.native = apply.native
        /\ deployment'.since = IF Rotation!TrustContinues THEN deployment.since ELSE now
        /\ apply'.pc = "none" /\ UNCHANGED <<now, published, live, client, back>>
    BY <1>8 DEF Rotation!ApplyRecords, Rotation!NoApply
  <2>3. Anchored(s) /\ ((live = apply.native /\ back = 0) \/ (live = apply.observed /\ back # 0))
    BY <2>1, Zenon DEF TrustInv, CommittedAnchored
  <2>4. ReachTrusted'
    BY <1>1, <2>2, Zenon DEF TrustInv, ReachTrusted, Trust, Signing
  <2>5. Anchored(deployment.signing)'
    <3>1. PICK z : z = s
      OBVIOUS
    <3>2. Anchored(z)'
      BY <2>2, <2>3, <3>1, AnchoredStays
    <3> QED
      BY <2>2, <3>1, <3>2, Zenon DEF Anchored
  <2>6. HeirKnown'
    <3>0. PICK z, n, t : z = s /\ n = apply.native /\ t = deployment'.since
      OBVIOUS
    <3> SUFFICES ASSUME n \in Reach
                 PROVE  /\ Heir(z) \in Trust(Rotation!Served)
                        /\ \A c \in Refreshers : client[c].at > t => Heir(z) \in client[c].keyring
      BY <2>2, <3>0, HeirRecorded
    <3>1. live = apply.native /\ back = 0
      BY <2>1, <2>3, <3>0, SMTT(60) DEF Reach
    <3>2. Heir(s) \in Trust(Rotation!Served)
      BY <2>1, <3>1, StateTrusts DEF Rotation!Served
    <3>3. ASSUME NEW c \in Refreshers, client[c].at > deployment'.since PROVE Heir(s) \in client[c].keyring
      <4>1. client[c].at <= now
        BY ClientTimes
      <4>2. Rotation!TrustContinues
        <5>1. ~(client[c].at > now)
          BY <4>1, ClientTimes
        <5> QED
          BY <2>2, <3>3, <5>1, Zenon
      <4>3. deployment'.since = deployment.since /\ deployment.native = apply.observed /\ deployment.signing = s
        BY <2>2, <4>2, Zenon DEF Rotation!TrustContinues
      <4>4. apply.observed \in Reach
        BY <2>1, <3>1, Zenon DEF Reach
      <4> QED
        BY <3>3, <4>3, <4>4 DEF TrustInv, HeirKnown
    <3> QED
      BY <3>0, <3>2, <3>3, Zenon
  <2> QED
    BY <2>2, <2>4, <2>5, <2>6, Zenon DEF TrustInv, CheckedFollows, CommittedAnchored
<1>9. CASE Rotation!Rollback
  <2>1. /\ live' = published[live].previous /\ back = 0 /\ back' = 1
        /\ UNCHANGED <<now, deployment, published, apply, client>>
    <3>1. back \in Nat
      BY DEF RotationType
    <3> QED
      BY <1>9, <3>1 DEF Rotation!Rollback
  <2>2. live' \in Reach /\ live' \in 1..Len(published)
    <3>1. live \in 1..Len(published) /\ live \in Nat
      BY SMTT(60) DEF RotationType
    <3>2. published[live].previous \in 0..(live - 1)
      BY <3>1, PublishedAt
    <3> QED
      <4>1. live' \in 1..Len(published)
        <5>1. live' # 0
          BY <1>9, Zenon DEF Rotation!Rollback
        <5> QED
          BY <2>1, <3>1, <3>2, <5>1
      <4> QED
        BY <2>1, <4>1, Zenon DEF Reach
  <2>3. Reach' \subseteq {live'} /\ \A i : Signing(i)' = Signing(i)
    BY <2>1 DEF Reach, Signing
  <2>4. Rotation!Served' = Signing(live') /\ Signing(live') \in SigningStates
    BY <2>1, <2>2, PublishedAt DEF Rotation!Served, Signing
  <2>5. Signing(live').active \in Trust(Signing(live')) /\ Heir(Signing(live')) \in Trust(Signing(live'))
    BY <2>4, StateTrusts
  <2>6. ReachTrusted'
    BY <2>1, <2>2, <2>3, <2>4, <2>5, Zenon DEF TrustInv, ReachTrusted, Trust
  <2>7. Anchored(deployment.signing)'
    BY <2>1, <2>2, <2>3, Zenon DEF TrustInv, Anchored, Trust
  <2>8. HeirKnown'
    <3>1. Signing(deployment.native) = deployment.signing
      BY DEF RotationType, Signing
    <3>2. ASSUME deployment.native \in Reach' PROVE deployment.native = live'
      BY <2>3, <3>2
    <3> QED
      BY <2>1, <2>2, <2>4, <2>5, <3>1, <3>2, Zenon DEF TrustInv, HeirKnown, Trust, Heir
  <2>9. CheckedFollows'
    BY <2>1, Zenon DEF TrustInv, CheckedFollows, Follows, Rotation!Elapsed
  <2>10. CommittedAnchored'
    <3> SUFFICES ASSUME apply.pc = "committed" PROVE live' = apply.observed /\ Anchored(apply.signing)'
      BY <2>1, SMTT(60) DEF CommittedAnchored, Anchored
    <3>1. live = apply.native /\ Anchored(apply.signing)
      BY <2>1, Zenon DEF TrustInv, CommittedAnchored
    <3>2. live' = apply.observed
      BY <2>1, <3>1, CommittedFacts, Zenon
    <3>3. Anchored(apply.signing)'
      BY <2>1, <2>2, <2>3, <3>1, SMTT(60) DEF Anchored, Trust
    <3> QED
      BY <3>2, <3>3
  <2> QED
    BY <2>6, <2>7, <2>8, <2>9, <2>10 DEF TrustInv
<1>10. ASSUME NEW c \in Refreshers, Rotation!Refresh(c) PROVE TrustInv'
  <2>1. /\ client' = [client EXCEPT ![c] = [keyring |-> Trust(Rotation!Served), at |-> now]]
        /\ UNCHANGED <<now, deployment, published, live, apply, back>>
    BY <1>10, Zenon DEF Rotation!Refresh, Trust
  <2>2. \A b \in Refreshers : client'[b] = client[b] \/ client'[b].keyring = Trust(Rotation!Served)
    BY <2>1, Zenon DEF RotationType
  <2>3. live \in Reach /\ Signing(live) = Rotation!Served
    BY Zenon DEF RotationType, Reach, Signing, Rotation!Served
  <2>4. ReachTrusted'
    BY <1>1, <2>1, <2>2, SMTT(60) DEF TrustInv, ReachTrusted, Trust, Signing
  <2>5. ASSUME NEW s, Anchored(s) PROVE /\ \A i \in Reach' : s.active \in Trust(Signing(i)') /\ Signing(i)'.active \in Trust(s)
                                        /\ \A b \in Refreshers : s.active \in client'[b].keyring
    BY <1>1, <2>1, <2>2, <2>3, <2>5, Zenon DEF Anchored
  <2>6. Anchored(deployment.signing)'
    BY <2>1, <2>5, Zenon DEF TrustInv, Anchored, Trust
  <2>7. HeirKnown'
    BY <1>1, <2>1, <2>2, Zenon DEF TrustInv, HeirKnown, Trust, Heir
  <2>8. CheckedFollows'
    BY <2>1, Zenon DEF TrustInv, CheckedFollows, Follows, Rotation!Elapsed
  <2>9. CommittedAnchored'
    <3>1. ASSUME Anchored(apply.signing) PROVE Anchored(apply.signing)'
      BY <2>1, <2>5, <3>1, Zenon DEF Anchored, Trust
    <3> QED
      BY <2>1, <3>1, Zenon DEF TrustInv, CommittedAnchored
  <2> QED
    BY <2>4, <2>6, <2>7, <2>8, <2>9 DEF TrustInv
<1>11. CASE \E k \in RotationKeys : Rotation!RotateKey(k)
  BY <1>4, <1>11, Zenon DEF Rotation!RotateKey
<1>12. CASE Rotation!AdvanceKeyRotation
  BY <1>4, <1>12, Zenon DEF Rotation!AdvanceKeyRotation
<1>13. CASE \E m \in Rotation!Manifests : Rotation!EditManifest(m)
  BY <1>4, <1>13 DEF Rotation!EditManifest
<1>14. CASE Rotation!Tick \/ UNCHANGED Rotation!vars
  BY <1>4, <1>14 DEF Rotation!Tick, Rotation!vars
<1> QED
  BY <1>5, <1>6, <1>7, <1>8, <1>9, <1>10, <1>11, <1>12, <1>13, <1>14 DEF Rotation!Next

(* THEOREM: with at most one restore before each publication, a client     *)
(* that refreshes more often than the rotation's minimum can verify what   *)
(* is served, through every rotation, every apply that dies between its    *)
(* publication and its receipt, every edit of the manifest and every       *)
(* restore: for any number of keys, clients and publications.              *)
THEOREM ClientsAlwaysVerify ==
  ASSUME MaxBack \in {0, 1}
  PROVE  Rotation!Spec => []ClientsVerify
<1>1. Rotation!Init => RotationType /\ TrustInv
  <2> SUFFICES ASSUME Rotation!Init PROVE RotationType /\ TrustInv
    OBVIOUS
  <2>1. /\ RotationType /\ deployment.signing \in SigningStates /\ published[1].signing = deployment.signing
        /\ deployment.signing.active = FirstKey /\ Len(published) = 1
    BY RotationStart, Zenon
  <2>2. apply.pc = "none" /\ live = 1 /\ deployment.since = 0
        /\ client = [c \in Refreshers |-> [keyring |-> {FirstKey}, at |-> 0]]
    BY DEF Rotation!Init, Rotation!NoApply
  <2>3. \A i \in Reach : Signing(i) = deployment.signing
    BY <2>1 DEF Reach, Signing
  <2>4. Rotation!Served = deployment.signing
    BY <2>1, <2>2 DEF Rotation!Served
  <2>5. FirstKey \in Trust(deployment.signing) /\ Heir(deployment.signing) \in Trust(deployment.signing)
    BY <2>1, StateTrusts
  <2>6. \A c \in Refreshers : FirstKey \in client[c].keyring /\ ~(client[c].at > deployment.since)
    BY <2>2
  <2> QED
    BY <2>1, <2>2, <2>3, <2>4, <2>5, <2>6, Zenon
       DEF TrustInv, ReachTrusted, Anchored, HeirKnown, CheckedFollows, CommittedAnchored
<1>2. RotationType /\ TrustInv /\ [Rotation!Next]_(Rotation!vars) => (RotationType /\ TrustInv)'
  BY RotationStepType, TrustStep
<1>3. RotationType /\ TrustInv => ClientsVerify
  BY Zenon DEF RotationType, TrustInv, ReachTrusted, Reach, Signing, Rotation!Served, Rotation!ClientsVerify, ClientsVerify
<1> QED
  BY <1>1, <1>2, <1>3, PTL DEF Rotation!Spec
=============================================================================
