-------------------------- MODULE MCImportSession --------------------------
(***************************************************************************)
(* LockCommands with an index that, between two imports, starts to list    *)
(* another artifact of a version that is published already.                *)
(***************************************************************************)
EXTENDS LockCommands

Artifact(version, coordinate, digest) ==
  [pkg |-> "p", ver |-> version, coord |-> coordinate, sha |-> digest]

MCArtifacts == {Artifact(1, "x", "d1"), Artifact(1, "y", "d2"), Artifact(2, "x", "d4")}

MCRank(version) == version
=============================================================================
